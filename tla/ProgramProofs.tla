---------------------------- MODULE ProgramProofs ----------------------------
(***************************************************************************)
(* Theorems about what runs commands and passes on what they write: rpar   *)
(* and its wait loop, rtee and its two copies, a pseudo-terminal and its   *)
(* reader, and wait_any below them.  They hold for any number of commands, *)
(* children and signals, every length of the output, every size of the     *)
(* buffers, and every tick and timeout.                                    *)
(***************************************************************************)
EXTENDS WaitAny, RPar, RTee, Pty, TLAPS

-----------------------------------------------------------------------------
(* rpar                                                                    *)


\* The command is in the vector of children.
Held(c) == \E i \in 1..Len(children) : children[i] = c

\* The two vectors lose and gain the same entries, and no command is in them
\* twice.
Aligned ==
    /\ labels = children
    /\ \A i, j \in 1..Len(children) : children[i] = children[j] => i = j

\* Only signals with a handler are taken, and only two get one.
Handled ==
    /\ events \in Seq({"Interrupt", "Terminate"})
    /\ installed \subseteq {"Interrupt", "Terminate"}
    /\ step \in {"stop", "collect"} => event \in {"Interrupt", "Terminate"}

\* The vector holds children that were spawned, and the commands before next are
\* spawned or have failed.
Spawning ==
    /\ step \notin {"spawn", "dead"} => next = Commands + 1
    /\ \A i \in 1..Len(children) : children[i] < next /\ proc[children[i]] # "none"
    /\ \A c \in Command : proc[c] # "none" => c < next
    /\ \A c \in Command : proc[c] = "none" => c >= next \/ failed

\* A command that was spawned is in the vector, or was waited for and reported,
\* unless the system refused rpar the wait.
Accounted ==
    \A c \in Command : proc[c] # "none" =>
        Held(c) \/ gaveUp \/ (HasEnded(c) /\ c \in reaped /\ <<c, proc[c]>> \in reports)

\* A refusal or a bad report is a failure, up to the signal that ends the loop.
Failures ==
    /\ gaveUp => failed \/ step \in {"stop", "collect", "dead"} \/ (step = "done" /\ code # 0)
    /\ ~failed => \A r \in reports : r[2] = "ok"

\* Where the rounds over the vector are: the child that wait_any named has
\* ended, the children before hit have been killed, and all of them before one
\* is waited for.
Rounds ==
    /\ step = "reap" => HasEnded(children[hit])
    /\ step = "stop" /\ ~gaveUp => \A i \in 1..Len(children) : i < hit => HasEnded(children[i])
    /\ step = "collect" /\ ~gaveUp =>
          \A i \in 1..Len(children) :
              HasEnded(children[i]) /\ (i < hit => children[i] \in reaped)

ParInv == /\ ParTypeOK /\ Aligned /\ Handled /\ Spawning /\ Accounted /\ Failures /\ Rounds
          /\ ReportsAreTrue /\ ZeroMeansAll /\ NothingLeftBehind

-----------------------------------------------------------------------------
(* The steps of the program that leave the vectors alone                   *)

LEMMA SpawnFailsKeeps == ASSUME ParParameters, ParInv, SpawnFails PROVE ParInv'
<1>1. ParTypeOK'
  <2>1. next' \in 1..(Commands + 1)
    BY DEF ParInv, SpawnFails, ParTypeOK, Command, ParParameters
  <2> QED
    BY <2>1 DEF ParInv, SpawnFails, ParTypeOK, world
<1>2. Spawning'
  <2>1. next \in Nat /\ next' = next + 1 /\ failed' = TRUE /\ step' = "spawn"
    BY DEF ParInv, SpawnFails, ParTypeOK, Command
  <2>2. \A i \in 1..Len(children) : children[i] \in Nat
    <3>1. \A i \in 1..Len(children) : children[i] \in Command
      BY DEF ParInv, ParTypeOK
    <3> QED
      BY <3>1 DEF Command
  <2> QED
    BY <2>1, <2>2 DEF ParInv, SpawnFails, Spawning, Command, world
<1>3. Aligned' /\ Handled'
  BY DEF ParInv, SpawnFails, ParTypeOK, Aligned, Handled, world
<1>4. Accounted' /\ Failures'
  BY DEF ParInv, SpawnFails, ParTypeOK, Accounted, Failures, Held, HasEnded, world
<1>5. Rounds' /\ ReportsAreTrue' /\ ZeroMeansAll' /\ NothingLeftBehind'
  BY DEF ParInv, SpawnFails, ParTypeOK, Rounds, ReportsAreTrue, ZeroMeansAll,
         NothingLeftBehind, HasEnded, world
<1> QED
  BY <1>1, <1>2, <1>3, <1>4, <1>5 DEF ParInv

LEMMA SpawnedKeeps == ASSUME ParParameters, ParInv, Spawned PROVE ParInv'
<1>1. Spawning'
  <2>1. next = Commands + 1
    BY DEF ParInv, Spawned, ParTypeOK, Command, ParParameters
  <2> QED
    BY <2>1 DEF ParInv, Spawned, Spawning, main, world
<1>2. ParTypeOK' /\ Aligned' /\ Handled'
  BY DEF ParInv, Spawned, ParTypeOK, Aligned, Handled, main, world, ParParameters
<1>3. Accounted' /\ Failures'
  BY DEF ParInv, Spawned, ParTypeOK, Accounted, Failures, Held, HasEnded, main, world
<1>4. Rounds' /\ ReportsAreTrue' /\ ZeroMeansAll' /\ NothingLeftBehind'
  BY DEF ParInv, Spawned, ParTypeOK, Rounds, ReportsAreTrue, ZeroMeansAll,
         NothingLeftBehind, HasEnded, main, world
<1> QED
  BY <1>1, <1>2, <1>3, <1>4 DEF ParInv

LEMMA InstallKeeps == ASSUME ParParameters, ParInv, Install PROVE ParInv'
<1>1. Handled'
  <2>1. /\ Head(events) \in {"Interrupt", "Terminate"}
        /\ Tail(events) \in Seq({"Interrupt", "Terminate"})
    BY DEF ParInv, Install, Handled
  <2> QED
    BY <2>1 DEF ParInv, Install, Handled
<1>2. ParTypeOK' /\ Aligned'
  BY DEF ParInv, Install, ParTypeOK, Aligned, ParParameters
<1>3. Spawning' /\ Accounted' /\ Failures'
  BY DEF ParInv, Install, ParTypeOK, Spawning, Accounted, Failures, Held, HasEnded
<1>4. Rounds' /\ ReportsAreTrue' /\ ZeroMeansAll' /\ NothingLeftBehind'
  BY DEF ParInv, Install, ParTypeOK, Rounds, ReportsAreTrue, ZeroMeansAll,
         NothingLeftBehind, HasEnded
<1> QED
  BY <1>1, <1>2, <1>3, <1>4 DEF ParInv

LEMMA InstallFailsKeeps == ASSUME ParParameters, ParInv, InstallFails PROVE ParInv'
<1>1. ParTypeOK' /\ Aligned' /\ Handled'
  BY DEF ParInv, InstallFails, ParTypeOK, Aligned, Handled, world, ParParameters
<1>2. Spawning' /\ Accounted' /\ Failures'
  BY DEF ParInv, InstallFails, ParTypeOK, Spawning, Accounted, Failures, Held, HasEnded,
         world
<1>3. Rounds' /\ ReportsAreTrue' /\ ZeroMeansAll' /\ NothingLeftBehind'
  BY DEF ParInv, InstallFails, ParTypeOK, Rounds, ReportsAreTrue, ZeroMeansAll,
         NothingLeftBehind, HasEnded, world
<1> QED
  BY <1>1, <1>2, <1>3 DEF ParInv

LEMMA InstalledKeeps == ASSUME ParParameters, ParInv, Installed PROVE ParInv'
<1>1. ParTypeOK' /\ Aligned' /\ Handled'
  BY DEF ParInv, Installed, ParTypeOK, Aligned, Handled, main, world, ParParameters
<1>2. Spawning' /\ Accounted' /\ Failures'
  BY DEF ParInv, Installed, ParTypeOK, Spawning, Accounted, Failures, Held, HasEnded, main,
         world
<1>3. Rounds' /\ ReportsAreTrue' /\ ZeroMeansAll' /\ NothingLeftBehind'
  BY DEF ParInv, Installed, ParTypeOK, Rounds, ReportsAreTrue, ZeroMeansAll,
         NothingLeftBehind, HasEnded, main, world
<1> QED
  BY <1>1, <1>2, <1>3 DEF ParInv

LEMMA AllDoneKeeps == ASSUME ParParameters, ParInv, AllDone PROVE ParInv'
<1>1. ZeroMeansAll'
  <2> SUFFICES ASSUME code' = 0, NEW c \in Command
              PROVE  proc[c] = "ok" /\ <<c, "ok">> \in reports
    BY DEF ZeroMeansAll, AllDone, world
  <2>1. ~failed /\ ~gaveUp
    BY DEF ParInv, AllDone, Exit, Failures, ParTypeOK
  <2>2. ~Held(c)
    BY DEF AllDone, Held
  <2>3. proc[c] # "none"
    BY <2>1 DEF ParInv, AllDone, Spawning, Command, ParParameters
  <2>4. <<c, proc[c]>> \in reports
    BY <2>1, <2>2, <2>3 DEF ParInv, Accounted
  <2> QED
    BY <2>1, <2>4 DEF ParInv, Failures
<1>2. NothingLeftBehind'
  <2>1. \A c \in Command : ~Held(c)
    BY DEF AllDone, Held
  <2> QED
    BY <2>1 DEF ParInv, AllDone, NothingLeftBehind, Accounted, HasEnded, world
<1>3. ParTypeOK' /\ Aligned' /\ Handled'
  BY DEF ParInv, AllDone, ParTypeOK, Aligned, Handled, Exit, world, ParParameters
<1>4. Spawning' /\ Accounted' /\ Failures'
  BY DEF ParInv, AllDone, ParTypeOK, Spawning, Accounted, Failures, Held, HasEnded, Exit,
         world
<1>5. Rounds' /\ ReportsAreTrue'
  BY DEF ParInv, AllDone, ParTypeOK, Rounds, ReportsAreTrue, HasEnded, Exit, world
<1> QED
  BY <1>1, <1>2, <1>3, <1>4, <1>5 DEF ParInv

LEMMA SignalSeenKeeps == ASSUME ParParameters, ParInv, SignalSeen PROVE ParInv'
<1>1. ParTypeOK'
  <2>1. hit' \in 0..Len(children)
    BY DEF ParInv, SignalSeen, ParTypeOK
  <2>2. event' \in {"Interrupt", "Terminate"}
    BY DEF ParInv, SignalSeen, ParTypeOK, Handled
  <2> QED
    BY <2>1, <2>2 DEF ParInv, SignalSeen, ParTypeOK, take
<1>2. Aligned' /\ Handled'
  BY DEF ParInv, SignalSeen, ParTypeOK, Aligned, Handled, take
<1>3. Spawning' /\ Accounted' /\ Failures'
  BY DEF ParInv, SignalSeen, ParTypeOK, Spawning, Accounted, Failures, Held, HasEnded, take
<1>4. Rounds' /\ ReportsAreTrue' /\ ZeroMeansAll' /\ NothingLeftBehind'
  BY DEF ParInv, SignalSeen, ParTypeOK, Rounds, ReportsAreTrue, ZeroMeansAll,
         NothingLeftBehind, HasEnded, take
<1> QED
  BY <1>1, <1>2, <1>3, <1>4 DEF ParInv

LEMMA wait_anyKeeps == ASSUME ParParameters, ParInv, wait_any PROVE ParInv'
<1>1. ParTypeOK' /\ Aligned' /\ Handled'
  BY DEF ParInv, wait_any, ParTypeOK, Aligned, Handled, world, ParParameters
<1>2. Spawning' /\ Accounted' /\ Failures'
  BY DEF ParInv, wait_any, ParTypeOK, Spawning, Accounted, Failures, Held, HasEnded, world
<1>3. Rounds' /\ ReportsAreTrue' /\ ZeroMeansAll' /\ NothingLeftBehind'
  BY DEF ParInv, wait_any, ParTypeOK, Rounds, ReportsAreTrue, ZeroMeansAll,
         NothingLeftBehind, HasEnded, world
<1> QED
  BY <1>1, <1>2, <1>3 DEF ParInv

LEMMA WaitedKeeps == ASSUME ParParameters, ParInv, Waited PROVE ParInv'
<1>1. ParTypeOK' /\ Aligned' /\ Handled'
  BY DEF ParInv, Waited, ParTypeOK, Aligned, Handled, world, ParParameters
<1>2. Spawning' /\ Accounted' /\ Failures'
  BY DEF ParInv, Waited, ParTypeOK, Spawning, Accounted, Failures, Held, HasEnded, world
<1>3. Rounds' /\ ReportsAreTrue' /\ ZeroMeansAll' /\ NothingLeftBehind'
  BY DEF ParInv, Waited, ParTypeOK, Rounds, ReportsAreTrue, ZeroMeansAll,
         NothingLeftBehind, HasEnded, world
<1> QED
  BY <1>1, <1>2, <1>3 DEF ParInv

LEMMA TickKeeps == ASSUME ParParameters, ParInv, Tick PROVE ParInv'
<1>1. ParTypeOK' /\ Aligned' /\ Handled'
  BY DEF ParInv, Tick, ParTypeOK, Aligned, Handled, main, world, ParParameters
<1>2. Spawning' /\ Accounted' /\ Failures'
  BY DEF ParInv, Tick, ParTypeOK, Spawning, Accounted, Failures, Held, HasEnded, main, world
<1>3. Rounds' /\ ReportsAreTrue' /\ ZeroMeansAll' /\ NothingLeftBehind'
  BY DEF ParInv, Tick, ParTypeOK, Rounds, ReportsAreTrue, ZeroMeansAll, NothingLeftBehind,
         HasEnded, main, world
<1> QED
  BY <1>1, <1>2, <1>3 DEF ParInv

LEMMA WaitAnyFailsKeeps == ASSUME ParParameters, ParInv, WaitAnyFails PROVE ParInv'
<1>1. ParTypeOK' /\ Aligned' /\ Handled'
  BY DEF ParInv, WaitAnyFails, ParTypeOK, Aligned, Handled, Exit, world, ParParameters
<1>2. Spawning' /\ Accounted' /\ Failures'
  BY DEF ParInv, WaitAnyFails, ParTypeOK, Spawning, Accounted, Failures, Held, HasEnded,
         Exit, world
<1>3. Rounds' /\ ReportsAreTrue' /\ ZeroMeansAll' /\ NothingLeftBehind'
  BY DEF ParInv, WaitAnyFails, ParTypeOK, Rounds, ReportsAreTrue, ZeroMeansAll,
         NothingLeftBehind, HasEnded, Exit, world
<1> QED
  BY <1>1, <1>2, <1>3 DEF ParInv

LEMMA KillFailsKeeps == ASSUME ParParameters, ParInv, KillFails PROVE ParInv'
<1>1. ParTypeOK' /\ Aligned' /\ Handled'
  BY DEF ParInv, KillFails, ParTypeOK, Aligned, Handled, KillNext, world, ParParameters
<1>2. Spawning' /\ Accounted' /\ Failures'
  BY DEF ParInv, KillFails, ParTypeOK, Spawning, Accounted, Failures, Held, HasEnded,
         KillNext, world
<1>3. Rounds' /\ ReportsAreTrue' /\ ZeroMeansAll' /\ NothingLeftBehind'
  BY DEF ParInv, KillFails, ParTypeOK, Rounds, ReportsAreTrue, ZeroMeansAll,
         NothingLeftBehind, HasEnded, KillNext, world
<1> QED
  BY <1>1, <1>2, <1>3 DEF ParInv

LEMMA CollectFailsKeeps == ASSUME ParParameters, ParInv, CollectFails PROVE ParInv'
<1>1. ParTypeOK' /\ Aligned' /\ Handled'
  BY DEF ParInv, CollectFails, ParTypeOK, Aligned, Handled, CollectNext, Exit, ExitOf,
         world, ParParameters
<1>2. Spawning' /\ Accounted' /\ Failures'
  BY DEF ParInv, CollectFails, ParTypeOK, Spawning, Accounted, Failures, Held, HasEnded,
         CollectNext, Exit, ExitOf, world, Handled
<1>3. Rounds' /\ ReportsAreTrue' /\ ZeroMeansAll' /\ NothingLeftBehind'
  BY DEF ParInv, CollectFails, ParTypeOK, Rounds, ReportsAreTrue, ZeroMeansAll,
         NothingLeftBehind, HasEnded, CollectNext, Exit, ExitOf, world, Handled
<1> QED
  BY <1>1, <1>2, <1>3 DEF ParInv

-----------------------------------------------------------------------------
(* A new child                                                             *)

LEMMA SpawnKeeps == ASSUME ParParameters, ParInv, Spawn PROVE ParInv'
<1> DEFINE n == Len(children)
<1>1. /\ next \in 1..Commands /\ next' = next + 1 /\ step = "spawn" /\ step' = "spawn"
      /\ children' = Append(children, next) /\ labels' = Append(labels, next)
      /\ proc' = [proc EXCEPT ![next] = "running"]
  BY DEF Spawn, Command
<1>2. /\ children \in Seq(Command) /\ n \in Nat
      /\ \A i \in 1..n : children[i] \in Command /\ children[i] \in Nat /\ children[i] < next
  <2>1. children \in Seq(Command)
    BY DEF ParInv, ParTypeOK
  <2>2. \A i \in 1..n : children[i] \in Command /\ children[i] < next
    BY <2>1 DEF ParInv, Spawning
  <2> QED
    BY <2>1, <2>2 DEF Command
<1>3. /\ children' \in Seq(Command) /\ labels' \in Seq(Command)
      /\ Len(children') = n + 1
      /\ \A i \in 1..n : children'[i] = children[i]
      /\ children'[n + 1] = next
  BY <1>1, <1>2 DEF ParInv, ParTypeOK, Command
<1>4. proc[next] = "none"
  BY <1>1 DEF ParInv, Spawning, Command
<1>5. ParTypeOK'
  <2>1. next' \in 1..(Commands + 1) /\ hit' \in 0..Len(children')
    BY <1>1, <1>2, <1>3 DEF ParInv, Spawn, ParTypeOK, ParParameters
  <2> QED
    BY <1>1, <1>3, <2>1 DEF ParInv, Spawn, ParTypeOK
<1>6. Aligned'
  BY <1>1, <1>2, <1>3 DEF ParInv, Aligned
<1>7. Handled' /\ Failures' /\ Rounds' /\ ZeroMeansAll' /\ NothingLeftBehind'
  BY DEF ParInv, Spawn, Handled, Failures, Rounds, ZeroMeansAll, NothingLeftBehind
<1>8. Spawning'
  <2>1. \A i \in 1..Len(children') : children'[i] < next' /\ proc'[children'[i]] # "none"
    BY <1>1, <1>2, <1>3 DEF ParInv, Spawning, ParTypeOK, Command
  <2>2. \A c \in Command : proc'[c] # "none" => c < next'
    BY <1>1 DEF ParInv, Spawning, ParTypeOK, Command
  <2>3. \A c \in Command : proc'[c] = "none" => c >= next' \/ failed
    BY <1>1 DEF ParInv, Spawning, ParTypeOK, Command
  <2> QED
    BY <1>1, <2>1, <2>2, <2>3 DEF Spawning, Spawn
<1>9. Accounted'
  <2> SUFFICES ASSUME NEW c \in Command, proc'[c] # "none", ~gaveUp, ~Held(c)'
              PROVE  HasEnded(c)' /\ c \in reaped /\ <<c, proc'[c]>> \in reports
    BY DEF Accounted, Spawn
  <2>1. c # next /\ ~Held(c)
    BY <1>2, <1>3 DEF Held
  <2>2. proc'[c] = proc[c]
    BY <1>1, <2>1 DEF ParInv, ParTypeOK
  <2> QED
    BY <2>1, <2>2 DEF ParInv, Accounted, HasEnded
<1>10. ReportsAreTrue'
  <2> SUFFICES ASSUME NEW r \in reports PROVE proc'[r[1]] = r[2]
    BY DEF ReportsAreTrue, Spawn
  <2>1. r[1] \in Command /\ r[2] \in Outcomes /\ proc[r[1]] = r[2]
    BY DEF ParInv, ParTypeOK, ReportsAreTrue
  <2>2. r[1] # next
    BY <1>4, <2>1 DEF Outcomes
  <2> QED
    BY <1>1, <2>1, <2>2 DEF ParInv, ParTypeOK
<1> QED
  BY <1>5, <1>6, <1>7, <1>8, <1>9, <1>10 DEF ParInv

-----------------------------------------------------------------------------
(* Signals and the commands themselves                                     *)

LEMMA SignalKeeps == ASSUME ParParameters, ParInv, NEW s \in Signals, Signal(s) PROVE ParInv'
<1>1. ParTypeOK' /\ Aligned' /\ Handled'
  BY DEF ParInv, Signal, record, ParTypeOK, Aligned, Handled, ParParameters, main
<1>2. Spawning' /\ Accounted' /\ Failures'
  BY DEF ParInv, Signal, record, Spawning, Accounted, Failures, Held, HasEnded, main
<1>3. Rounds' /\ ReportsAreTrue' /\ ZeroMeansAll' /\ NothingLeftBehind'
  BY DEF ParInv, Signal, record, Rounds, ReportsAreTrue, ZeroMeansAll, NothingLeftBehind,
         HasEnded, main
<1> QED
  BY <1>1, <1>2, <1>3 DEF ParInv

\* Whatever makes a running command end, by itself or by kill_single, leaves what
\* was reported of the others as it was, and what had ended stays ended.
Ending(c) ==
    \E o \in Outcomes : proc' = [proc EXCEPT ![c] = IF proc[c] = "running" THEN o ELSE @]

LEMMA EndingIsFinal ==
    ASSUME ParInv, NEW c \in Command, Ending(c)
    PROVE  /\ proc' \in [Command -> {"none", "running"} \cup Outcomes]
           /\ \A d \in Command : HasEnded(d) => proc'[d] = proc[d] /\ HasEnded(d)'
           /\ \A d \in Command : proc'[d] = "none" <=> proc[d] = "none"
           /\ proc[c] # "none" => HasEnded(c)'
BY DEF ParInv, ParTypeOK, Ending, HasEnded, Outcomes

LEMMA EndingKeeps ==
    ASSUME ParInv, NEW c \in Command, Ending(c),
           UNCHANGED <<children, labels, next, failed, reaped, reports, gaveUp, code>>,
           step' = step \/ (step = "stop" /\ step' = "collect")
    PROVE  Spawning' /\ Accounted' /\ Failures' /\ ReportsAreTrue' /\ ZeroMeansAll'
                     /\ NothingLeftBehind'
<1>1. \A i \in 1..Len(children) : children[i] \in Command
  BY DEF ParInv, ParTypeOK
<1>2. Spawning'
  BY <1>1, EndingIsFinal DEF ParInv, Spawning
<1>3. Accounted'
  <2> SUFFICES ASSUME NEW d \in Command, proc'[d] # "none", ~gaveUp, ~Held(d)
              PROVE  HasEnded(d)' /\ d \in reaped /\ <<d, proc'[d]>> \in reports
    BY DEF Accounted, Held
  <2>1. HasEnded(d) /\ d \in reaped /\ <<d, proc[d]>> \in reports
    BY EndingIsFinal DEF ParInv, Accounted
  <2> QED
    BY <2>1, EndingIsFinal
<1>4. Failures'
  BY DEF ParInv, Failures
<1>5. ReportsAreTrue'
  <2> SUFFICES ASSUME NEW r \in reports PROVE proc'[r[1]] = r[2]
    BY DEF ReportsAreTrue
  <2>1. r[1] \in Command /\ HasEnded(r[1]) /\ proc[r[1]] = r[2]
    BY DEF ParInv, ParTypeOK, ReportsAreTrue, HasEnded
  <2> QED
    BY <2>1, EndingIsFinal
<1>6. ZeroMeansAll'
  <2> SUFFICES ASSUME step' = "done", code = 0, NEW d \in Command
              PROVE  proc'[d] = "ok" /\ <<d, "ok">> \in reports
    BY DEF ZeroMeansAll
  <2>1. proc[d] = "ok" /\ <<d, "ok">> \in reports
    BY DEF ParInv, ZeroMeansAll
  <2>2. HasEnded(d)
    BY <2>1 DEF HasEnded, Outcomes
  <2> QED
    BY <2>1, <2>2, EndingIsFinal
<1>7. NothingLeftBehind'
  BY EndingIsFinal DEF ParInv, NothingLeftBehind
<1> QED
  BY <1>2, <1>3, <1>4, <1>5, <1>6, <1>7

LEMMA ChildEndsKeeps == ASSUME ParParameters, ParInv, NEW c \in Command, ChildEnds(c) PROVE ParInv'
<1>1. Ending(c) /\ UNCHANGED main /\ UNCHANGED <<step, installed, PENDING, sent, reaped>>
  BY DEF ChildEnds, Ending, Outcomes
<1>2. ParTypeOK' /\ Aligned' /\ Handled'
  BY <1>1, EndingIsFinal DEF ParInv, ParTypeOK, Aligned, Handled, main
<1>3. \A i \in 1..Len(children) : children[i] \in Command
  BY DEF ParInv, ParTypeOK
<1>4. Rounds'
  <2>1. step = "reap" => hit \in 1..Len(children)
    BY DEF ParInv, ParTypeOK
  <2> QED
    BY <1>1, <1>3, <2>1, EndingIsFinal DEF ParInv, Rounds, main
<1>5. /\ Spawning' /\ Accounted' /\ Failures' /\ ReportsAreTrue' /\ ZeroMeansAll'
      /\ NothingLeftBehind'
  BY <1>1, EndingKeeps DEF main
<1> QED
  BY <1>2, <1>4, <1>5 DEF ParInv

-----------------------------------------------------------------------------
(* Killing and collecting                                                  *)

LEMMA KillKeeps == ASSUME ParParameters, ParInv, kill_single PROVE ParInv'
<1> DEFINE c == children[hit]
<1>1. /\ hit \in 1..Len(children) /\ c \in Command /\ proc[c] # "none"
      /\ \A i \in 1..Len(children) : children[i] \in Command
  <2>1. hit \in 1..Len(children) /\ children \in Seq(Command)
    BY DEF ParInv, ParTypeOK, kill_single
  <2> QED
    BY <2>1 DEF ParInv, Spawning
<1>2. Ending(c)
  BY DEF kill_single, Ending, Outcomes
<1> HIDE DEF c
<1>3. /\ UNCHANGED <<children, labels, next, failed, reaped, reports, gaveUp, code, event,
                     events, installed, PENDING, sent, before>>
      /\ step = "stop"
      /\ \/ hit < Len(children) /\ hit' = hit + 1 /\ step' = step
         \/ hit >= Len(children) /\ hit' = 1 /\ step' = "collect"
  BY <1>1 DEF kill_single, KillNext, ParInv, ParTypeOK
<1>4. ParTypeOK'
  <2>1. hit' \in 1..Len(children)
    BY <1>1, <1>3
  <2> QED
    BY <1>1, <1>2, <1>3, <2>1, EndingIsFinal DEF ParInv, ParTypeOK
<1>5. Aligned' /\ Handled'
  BY <1>3 DEF ParInv, Aligned, Handled
<1>6. /\ Spawning' /\ Accounted' /\ Failures' /\ ReportsAreTrue' /\ ZeroMeansAll'
      /\ NothingLeftBehind'
  BY <1>1, <1>2, <1>3, EndingKeeps
<1>7. Rounds'
  <2>1. ASSUME ~gaveUp, NEW i \in 1..Len(children), i <= hit
        PROVE  HasEnded(children[i])'
    <3>1. CASE i = hit
      BY <1>1, <1>2, <1>3, <3>1, EndingIsFinal DEF c
    <3>2. CASE i < hit
      <4>1. HasEnded(children[i]) /\ children[i] \in Command
        BY <1>1, <1>3, <2>1, <3>2 DEF ParInv, Rounds
      <4> QED
        BY <1>1, <1>2, <1>3, <4>1, EndingIsFinal
    <3> QED
      BY <1>1, <2>1, <3>1, <3>2
  <2>2. Len(children) \in Nat
    BY DEF ParInv, ParTypeOK
  <2>3. step' = "stop" /\ ~gaveUp =>
            \A i \in 1..Len(children) : i < hit' => HasEnded(children[i])'
    BY <1>1, <1>3, <2>1, <2>2
  <2>4. step' = "collect" /\ ~gaveUp =>
            \A i \in 1..Len(children) : HasEnded(children[i])' /\ ~(i < hit')
    BY <1>1, <1>3, <2>1, <2>2
  <2> QED
    BY <1>3, <2>3, <2>4 DEF Rounds
<1> QED
  BY <1>4, <1>5, <1>6, <1>7 DEF ParInv

LEMMA CollectKeeps == ASSUME ParParameters, ParInv, Collect PROVE ParInv'
<1>1. /\ hit \in 1..Len(children) /\ Len(children) \in Nat
      /\ \A i \in 1..Len(children) : children[i] \in Command
  BY DEF ParInv, ParTypeOK, Collect
<1>2. /\ UNCHANGED <<children, labels, next, failed, proc, reports, gaveUp, event,
                     events, installed, PENDING, sent, before>>
      /\ step = "collect" /\ reaped' = reaped \cup {children[hit]}
      /\ \/ hit < Len(children) /\ hit' = hit + 1 /\ step' = step /\ code' = code
         \/ hit = Len(children) /\ hit' = 0 /\ step' = "done" /\ code' \in {130, 143}
  BY <1>1 DEF Collect, CollectNext, Exit, ExitOf
<1>3. ParTypeOK'
  <2>1. hit' \in 0..Len(children) /\ (step' = "collect" => hit' > 0)
    BY <1>1, <1>2
  <2> QED
    BY <1>1, <1>2, <2>1 DEF ParInv, ParTypeOK
<1>4. Aligned' /\ Handled' /\ Spawning'
  BY <1>2 DEF ParInv, Aligned, Handled, Spawning
<1>5. Accounted' /\ Failures' /\ ReportsAreTrue' /\ ZeroMeansAll'
  BY <1>2 DEF ParInv, Accounted, Failures, ReportsAreTrue, ZeroMeansAll, Held, HasEnded
<1>6. ASSUME ~gaveUp, NEW i \in 1..Len(children), i <= hit
      PROVE  HasEnded(children[i]) /\ children[i] \in reaped'
  <2>1. HasEnded(children[i]) /\ (i < hit => children[i] \in reaped)
    BY <1>2, <1>6 DEF ParInv, Rounds
  <2> QED
    BY <1>1, <1>2, <1>6, <2>1
<1>7. Rounds'
  <2>1. step' = "collect" /\ ~gaveUp =>
            \A i \in 1..Len(children) :
                HasEnded(children[i]) /\ (i < hit' => children[i] \in reaped')
    BY <1>1, <1>2, <1>6 DEF ParInv, Rounds
  <2> QED
    BY <1>2, <2>1 DEF Rounds, HasEnded
<1>8. NothingLeftBehind'
  <2> SUFFICES ASSUME step' = "done", ~gaveUp, NEW c \in Command, proc[c] # "none"
              PROVE  HasEnded(c) /\ c \in reaped'
    BY <1>2 DEF NothingLeftBehind, HasEnded
  <2>1. CASE Held(c)
    <3>1. PICK i \in 1..Len(children) : children[i] = c
      BY <2>1 DEF Held
    <3>2. i <= hit
      BY <1>1, <1>2
    <3> QED
      BY <1>6, <3>1, <3>2
  <2>2. CASE ~Held(c)
    BY <1>2, <2>2 DEF ParInv, Accounted
  <2> QED
    BY <2>1, <2>2
<1> QED
  BY <1>3, <1>4, <1>5, <1>7, <1>8 DEF ParInv

-----------------------------------------------------------------------------
(* Taking a child out of the vectors                                       *)

\* A vector without repetitions, and what is left of one without its entry k.
Once(s) == \A i, j \in 1..Len(s) : s[i] = s[j] => i = j
Without(s, k, t) ==
    /\ Len(t) = Len(s) - 1
    /\ \A i \in 1..Len(t) : \E j \in 1..Len(s) : t[i] = s[j]
    /\ \A j \in 1..Len(s) : j # k => \E i \in 1..Len(t) : t[i] = s[j]

\* Vec::swap_remove loses the entry it is given and no other.
LEMMA SwapRemove ==
    ASSUME NEW S, NEW s \in Seq(S), NEW k \in 1..Len(s), Once(s)
    PROVE  /\ swap_remove(s, k) \in Seq(S)
           /\ Once(swap_remove(s, k)) /\ Without(s, k, swap_remove(s, k))
<1> DEFINE n == Len(s)
           t == swap_remove(s, k)
<1>1. n \in Nat /\ k \in 1..n /\ n - 1 \in Nat
  OBVIOUS
<1>2. t = [i \in 1..(n - 1) |-> IF i = k THEN s[n] ELSE s[i]]
  BY DEF swap_remove
<1>3. \A i \in 1..n : s[i] \in S
  OBVIOUS
<1>4. t \in [1..(n - 1) -> S]
  BY <1>1, <1>2, <1>3
<1>5. t \in Seq(S) /\ Len(t) = n - 1
  BY <1>1, <1>4
<1>6. \A i \in 1..(n - 1) : t[i] = IF i = k THEN s[n] ELSE s[i]
  BY <1>2
<1> HIDE DEF t
<1>7. \A i, j \in 1..(n - 1) : t[i] = t[j] => i = j
  BY <1>1, <1>6 DEF Once
<1>8. \A i \in 1..(n - 1) : \E j \in 1..n : t[i] = s[j]
  BY <1>1, <1>6
<1>9. ASSUME NEW j \in 1..n, j # k PROVE \E i \in 1..(n - 1) : t[i] = s[j]
  <2>1. CASE j = n
    BY <1>1, <1>6, <1>9, <2>1
  <2>2. CASE j # n
    BY <1>1, <1>6, <1>9, <2>2
  <2> QED
    BY <2>1, <2>2
<1> QED
  BY <1>5, <1>7, <1>8, <1>9 DEF t, Once, Without

\* What both ways to take a child out have in common.
Removes ==
    /\ step = "reap" /\ step' = "loop" /\ hit' = 0
    /\ labels' = swap_remove(labels, hit)
    /\ children' = swap_remove(children, hit)
    /\ UNCHANGED <<next, before, event, code, events, installed, PENDING, sent, proc>>

LEMMA Removal ==
    ASSUME ParInv, Removes
    PROVE  /\ hit \in 1..Len(children) /\ children[hit] \in Command
           /\ labels[hit] = children[hit]
           /\ children' \in Seq(Command) /\ labels' \in Seq(Command)
           /\ Aligned' /\ Handled' /\ Rounds' /\ ZeroMeansAll' /\ NothingLeftBehind'
           /\ \A i \in 1..Len(children') : \E j \in 1..Len(children) : children'[i] = children[j]
           /\ \A c \in Command : Held(c) /\ c # children[hit] => Held(c)'
<1>1. /\ children \in Seq(Command) /\ hit \in 1..Len(children) /\ labels = children
      /\ \A i, j \in 1..Len(children) : children[i] = children[j] => i = j
  BY DEF ParInv, ParTypeOK, Removes, Aligned
<1>2. /\ children' = swap_remove(children, hit) /\ labels' = children'
  BY <1>1 DEF Removes
<1>3. /\ children' \in Seq(Command) /\ Len(children') = Len(children) - 1
      /\ \A i, j \in 1..Len(children') : children'[i] = children'[j] => i = j
      /\ \A i \in 1..Len(children') : \E j \in 1..Len(children) : children'[i] = children[j]
      /\ \A j \in 1..Len(children) :
             j # hit => \E i \in 1..Len(children') : children'[i] = children[j]
  <2>1. Once(children)
    BY <1>1 DEF Once
  <2>2. children' \in Seq(Command) /\ Once(children') /\ Without(children, hit, children')
    BY <1>1, <1>2, <2>1, SwapRemove
  <2> QED
    BY <2>2 DEF Once, Without
<1>4. \A c \in Command : Held(c) /\ c # children[hit] => Held(c)'
  BY <1>1, <1>3 DEF Held
<1>5. Aligned' /\ Handled' /\ Rounds' /\ ZeroMeansAll' /\ NothingLeftBehind'
  BY <1>2, <1>3 DEF ParInv, Removes, Aligned, Handled, Rounds, ZeroMeansAll, NothingLeftBehind
<1> QED
  BY <1>1, <1>2, <1>3, <1>4, <1>5

LEMMA ReapKeeps == ASSUME ParParameters, ParInv, Reap PROVE ParInv'
<1> DEFINE c == children[hit]
<1>1. Removes
  BY DEF Reap, Removes
<1>2. /\ reports' = reports \cup {<<labels[hit], proc[c]>>}
      /\ failed' = (failed \/ proc[c] # "ok")
      /\ reaped' = reaped \cup {c} /\ gaveUp' = gaveUp
  BY DEF Reap
<1>3. c \in Command /\ labels[hit] = c /\ HasEnded(c) /\ proc[c] # "none"
  BY <1>1, Removal DEF ParInv, Rounds, Removes, HasEnded, Outcomes
<1> HIDE DEF c
<1>4. ParTypeOK'
  <2>1. Len(children') \in Nat /\ 0 \in 0..Len(children')
    BY <1>1, Removal
  <2>2. reports' \subseteq Command \X Outcomes /\ failed' \in BOOLEAN
    BY <1>2, <1>3 DEF ParInv, ParTypeOK, HasEnded
  <2> QED
    BY <1>1, <1>2, <1>3, <2>1, <2>2, Removal DEF ParInv, ParTypeOK, Removes
<1>5. Spawning'
  BY <1>1, <1>2, Removal DEF ParInv, Spawning, Removes
<1>6. Accounted'
  <2> SUFFICES ASSUME NEW d \in Command, proc[d] # "none", ~gaveUp, ~Held(d)'
              PROVE  HasEnded(d) /\ d \in reaped' /\ <<d, proc[d]>> \in reports'
    BY <1>1, <1>2 DEF Accounted, Removes, HasEnded
  <2>1. CASE d = c
    BY <1>2, <1>3, <2>1
  <2>2. CASE d # c
    <3>1. ~Held(d)
      BY <1>1, <2>2, Removal DEF c
    <3> QED
      BY <1>2, <3>1 DEF ParInv, Accounted
  <2> QED
    BY <2>1, <2>2
<1>7. Failures'
  <2>1. gaveUp => failed'
    BY <1>1, <1>2 DEF ParInv, Failures, Removes
  <2>2. ASSUME ~failed', NEW r \in reports' PROVE r[2] = "ok"
    <3>1. proc[c] = "ok" /\ ~failed
      BY <1>2, <2>2
    <3> QED
      BY <1>2, <2>2, <3>1 DEF ParInv, Failures
  <2> QED
    BY <1>2, <2>1, <2>2 DEF Failures
<1>8. ReportsAreTrue'
  BY <1>1, <1>2, <1>3 DEF ParInv, ReportsAreTrue, Removes
<1> QED
  BY <1>1, <1>4, <1>5, <1>6, <1>7, <1>8, Removal DEF ParInv

LEMMA ReapFailsKeeps == ASSUME ParParameters, ParInv, ReapFails PROVE ParInv'
<1>1. Removes /\ failed' = TRUE /\ gaveUp' = TRUE /\ UNCHANGED <<reaped, reports>>
  BY DEF ReapFails, Removes, world
<1>2. ParTypeOK'
  <2>1. Len(children') \in Nat /\ 0 \in 0..Len(children')
    BY <1>1, Removal
  <2> QED
    BY <1>1, <2>1, Removal DEF ParInv, ParTypeOK, Removes
<1>3. Spawning'
  BY <1>1, Removal DEF ParInv, Spawning, Removes
<1>4. Accounted' /\ Failures'
  BY <1>1 DEF ParInv, Accounted, Failures, Removes
<1>5. ReportsAreTrue'
  BY <1>1 DEF ParInv, ReportsAreTrue, Removes
<1> QED
  BY <1>1, <1>2, <1>3, <1>4, <1>5, Removal DEF ParInv

-----------------------------------------------------------------------------
LEMMA ParStarts == ASSUME ParParameters, ParInit PROVE ParInv
<1>1. ParTypeOK /\ Aligned /\ Handled
  <2>1. events \in Seq({"Interrupt", "Terminate"}) /\ events \in Seq(Signals)
    BY DEF ParInit, Signals
  <2>2. /\ next \in 1..(Commands + 1) /\ hit \in 0..Len(children) /\ sent \in 0..MaxSignals
        /\ children \in Seq(Command) /\ Len(children) = 0
    BY DEF ParInit, ParParameters
  <2>3. proc \in [Command -> {"none", "running"} \cup Outcomes]
    BY DEF ParInit
  <2>4. ParTypeOK
    BY <2>1, <2>2, <2>3 DEF ParInit, ParTypeOK
  <2>5. Aligned
    BY <2>2 DEF ParInit, Aligned
  <2>6. Handled
    BY <2>1 DEF ParInit, Handled
  <2> QED
    BY <2>4, <2>5, <2>6
<1>2. Spawning /\ Accounted /\ Failures /\ Rounds
  BY DEF ParInit, Spawning, Accounted, Failures, Rounds, Command, ParParameters
<1>3. ReportsAreTrue /\ ZeroMeansAll /\ NothingLeftBehind
  BY DEF ParInit, ReportsAreTrue, ZeroMeansAll, NothingLeftBehind
<1> QED
  BY <1>1, <1>2, <1>3 DEF ParInv

LEMMA ParStutters == ASSUME ParInv, UNCHANGED parvars PROVE ParInv'
BY DEF ParInv, parvars, ParTypeOK, Aligned, Handled, Spawning, Accounted, Failures, Rounds,
       Held,
       HasEnded, ReportsAreTrue, ZeroMeansAll, NothingLeftBehind

\* rpar prints each command's own status under its own name, exits with zero
\* only if every command ended well and was reported, and leaves no child
\* running or unreaped unless the system refused it a wait or a kill: whatever
\* fails, in whatever order the commands end, and whenever a signal arrives.
THEOREM ParIsHonest == ParSpec => []RParIsHonest
<1> USE ParAssumption
<1>1. ParInit => ParInv
  BY ParStarts
<1>2. ParInv /\ [ParNext]_parvars => ParInv'
  BY SpawnKeeps, SpawnFailsKeeps, SpawnedKeeps, InstallKeeps, InstallFailsKeeps,
     InstalledKeeps, AllDoneKeeps, SignalSeenKeeps, wait_anyKeeps, WaitedKeeps, TickKeeps,
     WaitAnyFailsKeeps, ReapKeeps, ReapFailsKeeps, KillKeeps, KillFailsKeeps, CollectKeeps,
     CollectFailsKeeps, SignalKeeps, ChildEndsKeeps, ParStutters
     DEF ParNext, Work, Errors
<1>3. ParInv => RParIsHonest
  BY DEF ParInv, RParIsHonest
<1> QED
  BY <1>1, <1>2, <1>3, PTL DEF ParSpec


-----------------------------------------------------------------------------
(* rtee                                                                    *)

\* Where every byte that the command wrote is, at each step of the loop: in the
\* pipe, in buf, at standard output, in the file.
BytesAreSomewhere ==
    /\ pipe <= wrote
    /\ at = "start" => status = None /\ wrote = 0 /\ pipe = 0 /\ out = 0 /\ file = 0
    /\ at = "read" => out = wrote - pipe /\ file = wrote - pipe
    /\ at = "stdout" =>
          left = got /\ got > 0 /\ out = wrote - pipe - got /\ file = out
    /\ at = "file" => left > 0 /\ out = wrote - pipe /\ file = out - left

\* The loop is left at the end of the output, or because nobody reads ours.
LeftAtTheEnd ==
    at = "wait" => broken \/ (Ended /\ pipe = 0 /\ out = wrote /\ file = wrote)

\* A command that exits by itself has written all it had to.
ExitsWhenDone == status \in Endings /\ status.kind = "Code" => wrote = total

TeeInv == TeeTypeOK /\ BytesAreSomewhere /\ LeftAtTheEnd /\ ExitsWhenDone /\ ZeroMeansComplete

\* An exit code of rtee is a byte, and zero only for a command that exited with
\* zero, or with a code of more than a byte: a signal never passes for success.
LEMMA ExitCodes ==
    ASSUME TeeParameters, NEW s \in Endings
    PROVE  /\ exit_code(s) \in 0..255
           /\ exit_code(s) = 0 => s.kind = "Code" /\ (s.n \in 0..255 => s.n = 0)
<1>1. CASE s \in [kind : {"Code"}, n : Codes]
  <2>1. s.kind = "Code" /\ s.n \in Int
    BY <1>1 DEF TeeParameters
  <2>2. s.n % 256 \in 0..255 /\ (s.n \in 0..255 => s.n % 256 = s.n)
    <3> DEFINE n == s.n
    <3>1. n \in Int
      BY <2>1
    <3> HIDE DEF n
    <3>2. n % 256 \in 0..255 /\ (n \in 0..255 => n % 256 = n)
      BY <3>1
    <3> QED
      BY <3>2 DEF n
  <2> QED
    BY <2>1, <2>2 DEF exit_code
<1>2. CASE s \in [kind : {"Signaled"}, n : {SIGKILL}]
  <2>1. s.kind = "Signaled" /\ s.n = 9
    BY <1>2 DEF SIGKILL
  <2>2. (128 + (9 % 128)) % 256 = 137
    OBVIOUS
  <2> QED
    BY <2>1, <2>2 DEF exit_code
<1> QED
  BY <1>1, <1>2 DEF Endings

\* How a command ended is no longer "running", and was never "none".
LEMMA EndsAreEnds ==
    /\ Running \notin Endings /\ None \notin Endings
    /\ \A c \in Codes : [kind |-> "Code", n |-> c] \in Endings
    /\ [kind |-> "Signaled", n |-> SIGKILL] \in Endings
BY DEF Running, None, Endings

LEMMA TeeStarts == ASSUME TeeParameters, TeeInit PROVE TeeInv
<1>1. status \notin Endings
  BY EndsAreEnds DEF TeeInit
<1>2. TeeTypeOK
  <2>1. /\ got \in 0..Chunk /\ left \in 0..got /\ out \in 0..Bytes /\ file \in 0..Bytes
        /\ exit \in 0..255 /\ wrote \in 0..total /\ pipe \in 0..Capacity
    BY DEF TeeParameters, TeeInit
  <2> QED
    BY <2>1 DEF TeeInit, TeeTypeOK
<1> QED
  BY <1>1, <1>2 DEF TeeInit, TeeInv, BytesAreSomewhere, LeftAtTheEnd, ExitsWhenDone,
                    ZeroMeansComplete

LEMMA TeeStep ==
    ASSUME TeeParameters, TeeInv, [TeeNext]_teevars
    PROVE  TeeInv'
<1> USE DEF TeeInv, TeeTypeOK, BytesAreSomewhere, LeftAtTheEnd, ExitsWhenDone,
            ZeroMeansComplete, TeeParameters, Smaller, copying, command, Leave, Ended
<1>1. CASE Refuse
  BY <1>1 DEF Refuse
<1>2. CASE SpawnCommand
  BY <1>2, EndsAreEnds DEF SpawnCommand
<1>3. CASE Read
  BY <1>3 DEF Read
<1>4. CASE ReadFails
  BY <1>4 DEF ReadFails
<1>5. CASE WriteStdout
  BY <1>5 DEF WriteStdout
<1>6. CASE StdoutFails
  BY <1>6 DEF StdoutFails
<1>7. CASE write_all
  BY <1>7 DEF write_all
<1>8. CASE FileFails
  BY <1>8 DEF FileFails
<1>9. CASE wait
  BY <1>9, ExitCodes DEF wait
<1>10. CASE WaitFails
  BY <1>10 DEF WaitFails
<1>11. CASE CommandWrites
  <2>1. PICK n \in 1..Smaller(Capacity - pipe, total - wrote) :
            wrote' = wrote + n /\ pipe' = pipe + n
    BY <1>11 DEF CommandWrites
  <2>2. /\ wrote' \in 0..total /\ pipe' \in 0..Capacity /\ pipe' <= wrote'
        /\ wrote' - pipe' = wrote - pipe
    BY <2>1
  <2>3. status \notin Endings /\ at # "start" /\ at # "done"
    BY <1>11, EndsAreEnds DEF CommandWrites, Running, None
  <2>4. TeeTypeOK' /\ LeftAtTheEnd' /\ ExitsWhenDone' /\ ZeroMeansComplete'
    BY <1>11, <2>2, <2>3 DEF CommandWrites
  <2>5. BytesAreSomewhere'
    BY <1>11, <2>2, <2>3 DEF CommandWrites
  <2> QED
    BY <2>4, <2>5
<1>12. CASE CommandEnds
  <2>1. /\ status' \in Endings /\ at # "start" /\ ~(at = "done" /\ exit = 0)
        /\ status \notin Endings
    BY <1>12, EndsAreEnds DEF CommandEnds, Running, None
  <2>2. status'.kind = "Code" => wrote = total
    BY <1>12 DEF CommandEnds
  <2> QED
    BY <1>12, <2>1, <2>2 DEF CommandEnds
<1>13. CASE CommandKilled
  <2>1. /\ status' \in Endings /\ at # "start" /\ ~(at = "done" /\ exit = 0)
        /\ status \notin Endings
    BY <1>13, EndsAreEnds DEF CommandKilled, Running, None
  <2>2. status'.kind = "Code" => wrote = total
    BY <1>13 DEF CommandKilled
  <2> QED
    BY <1>13, <2>1, <2>2 DEF CommandKilled
<1>14. CASE UNCHANGED teevars
  BY <1>14 DEF teevars
<1> QED
  BY <1>1, <1>2, <1>3, <1>4, <1>5, <1>6, <1>7, <1>8, <1>9, <1>10, <1>11, <1>12, <1>13, <1>14
     DEF TeeNext, Tee, TheCommand

\* rtee copies every byte it takes out of the pipe to both places, however short
\* the reads and the writes, and exits with zero only after a command that ended
\* by itself and whose whole output is at both, for every buffer, pipe and
\* output.  The command's own code was zero as well, unless it is one of
\* Windows' that does not fit in eight bits: those are cut.
THEOREM TeeIsHonest == TeeSpec => []RTeeIsHonest
<1> USE TeeAssumption
<1>1. TeeInit => TeeInv
  BY TeeStarts
<1>2. TeeInv /\ [TeeNext]_teevars => TeeInv'
  BY TeeStep
<1>3. TeeInv => RTeeIsHonest
  BY DEF TeeInv, RTeeIsHonest, BytesAreSomewhere, CopiesInStep
<1> QED
  BY <1>1, <1>2, <1>3, PTL DEF TeeSpec

-----------------------------------------------------------------------------
(* Pseudo-terminals                                                        *)

Starting == holder \in {"idle", "pair", "child"}

PtyType ==
    /\ os \in {"linux", "windows"}
    /\ holder \in {"idle", "pair", "child", "open", "reading", "draining", "closing", "gone"}
    /\ inside \in {"none", "running", "exited"}
    /\ heir \in BOOLEAN /\ eof \in BOOLEAN /\ closed \in BOOLEAN
    /\ written \in Nat /\ pending \in Nat /\ buffered \in Nat /\ taken \in Nat
    /\ hpc \in {"none", "live", "closing", "closed"}
    /\ closes \in Nat
    /\ watcher \in {"none", "waiting", "won", "closing", "done"}

\* Nothing happens to a terminal that is being set up; Linux has no console.
Setup ==
    /\ holder = "idle" => hpc = "none" /\ inside = "none"
    /\ holder = "child" => os = "linux"
    /\ os = "linux" => /\ pending = 0 /\ hpc = "none" /\ watcher = "none"
                       /\ closes = 0 /\ holder \notin {"draining", "closing"}
    /\ Starting => ~eof /\ ~closed /\ watcher = "none" /\ closes = 0

\* Who may still close the console, and that nobody has yet: the watcher that
\* won the flag, or the drop that did, or a spawn that failed before there was
\* a watcher.
OneCloser ==
    /\ closes <= 1
    /\ hpc \in {"closing", "closed"} => closes = 1
    /\ watcher = "won" => closes = 0 /\ closed /\ holder # "draining"
    /\ holder = "draining" => closes = 0 /\ (closed \/ watcher = "none")
    /\ ~closed => watcher \in {"none", "waiting"}
    /\ ~closed => closes = 0 \/ (watcher = "none" /\ holder \in {"closing", "gone"})

\* While the caller may read, every byte is somewhere between the child and it;
\* a console that has closed under it has passed everything on.
NoByteIsLost ==
    /\ Starting \/ holder \in {"open", "reading"} => written = pending + buffered + taken
    /\ hpc = "closed" /\ MasterOpen => pending = 0

\* The end that a read has seen is final.
EndIsFinal ==
    eof => /\ taken = written /\ buffered = 0
           /\ os = "linux" => ~Attached
           /\ os = "windows" => hpc = "closed"

\* The size is there before the child, or before spawn returns.
SizeIsSet ==
    /\ holder \in {"open", "reading"} => size = (IF os = "windows" THEN as_i16(asked) ELSE asked)
    /\ os = "windows" /\ (inside = "running" \/ holder = "pair") => size = as_i16(asked)

PtyInv == PtyType /\ Setup /\ OneCloser /\ NoByteIsLost /\ EndIsFinal /\ SizeIsSet

LEMMA PtyStep == ASSUME PtyInv, [PtyNext]_pvars PROVE PtyInv'
<1> USE DEF PtyInv, PtyType, Setup, OneCloser, NoByteIsLost, EndIsFinal, SizeIsSet,
            Starting, Attached, MasterOpen, caller, terminal, console
<1>1. CASE refuse
  BY <1>1 DEF refuse
<1>2. CASE open_pty_pair
  BY <1>2 DEF open_pty_pair
<1>3. CASE linux_spawn_attached
  BY <1>3 DEF linux_spawn_attached
<1>4. CASE initial_resize
  BY <1>4 DEF initial_resize
<1>5. CASE create_pty
  BY <1>5 DEF create_pty
<1>6. CASE windows_spawn
  BY <1>6 DEF windows_spawn, windows_spawn_attached, spawn_exit_watcher
<1>7. CASE ChildWrites
  BY <1>7 DEF ChildWrites
<1>8. CASE ChildExits
  BY <1>8 DEF ChildExits
<1>9. CASE HeirExits
  <2>1. PtyType'
    BY <1>9 DEF HeirExits
  <2>2. Setup'
    BY <1>9 DEF HeirExits
  <2>3. OneCloser'
    BY <1>9 DEF HeirExits
  <2>4. NoByteIsLost'
    BY <1>9 DEF HeirExits
  <2>5. EndIsFinal'
    BY <1>9 DEF HeirExits
  <2>6. SizeIsSet'
    BY <1>9 DEF HeirExits
  <2> QED
    BY <2>1, <2>2, <2>3, <2>4, <2>5, <2>6
<1>10. CASE ConhostWrites
  BY <1>10 DEF ConhostWrites
<1>11. CASE CloseReturns
  BY <1>11 DEF CloseReturns
<1>12. CASE WatcherSees
  BY <1>12 DEF WatcherSees
<1>13. CASE WatcherCloses
  <2>1. PtyType'
    <3>1. heir' \in BOOLEAN /\ eof' \in BOOLEAN /\ closed' \in BOOLEAN
      BY <1>13 DEF WatcherCloses, ClosePseudoConsole
    <3>2. closes' \in Nat /\ inside' \in {"none", "running", "exited"}
      BY <1>13 DEF WatcherCloses, ClosePseudoConsole
    <3> QED
      BY <1>13, <3>1, <3>2 DEF WatcherCloses, ClosePseudoConsole
  <2>2. Setup'
    BY <1>13 DEF WatcherCloses, ClosePseudoConsole
  <2>3. OneCloser'
    BY <1>13 DEF WatcherCloses, ClosePseudoConsole
  <2>4. NoByteIsLost'
    BY <1>13 DEF WatcherCloses, ClosePseudoConsole
  <2>5. EndIsFinal'
    BY <1>13 DEF WatcherCloses, ClosePseudoConsole
  <2>6. SizeIsSet'
    BY <1>13 DEF WatcherCloses, ClosePseudoConsole
  <2> QED
    BY <2>1, <2>2, <2>3, <2>4, <2>5, <2>6
<1>14. CASE BeginRead
  BY <1>14 DEF BeginRead
<1>15. CASE read
  <2>1. CASE \E n \in 1..buffered :
                buffered' = buffered - n /\ taken' = taken + n /\ UNCHANGED eof
    <3>1. PICK n \in 1..buffered :
              buffered' = buffered - n /\ taken' = taken + n /\ UNCHANGED eof
      BY <2>1
    <3>2. ~eof
      BY <3>1
    <3>3. /\ buffered' \in Nat /\ taken' \in Nat
          /\ written = pending + buffered' + taken'
      BY <1>15, <3>1 DEF read
    <3>4. PtyType'
      BY <1>15, <3>1, <3>3 DEF read
    <3>5. EndIsFinal'
      BY <3>1, <3>2
    <3> QED
      BY <1>15, <3>1, <3>2, <3>3, <3>4, <3>5 DEF read
  <2>2. CASE /\ buffered = 0 /\ (IF os = "linux" THEN ~Attached ELSE hpc = "closed")
             /\ eof' = TRUE /\ UNCHANGED <<buffered, taken>>
    <3>1. pending = 0 /\ taken = written
      BY <1>15, <2>2 DEF read
    <3>2. PtyType'
      BY <1>15, <2>2 DEF read
    <3>3. EndIsFinal'
      BY <1>15, <2>2, <3>1 DEF read
    <3> QED
      BY <1>15, <2>2, <3>1, <3>2, <3>3 DEF read
  <2> QED
    BY <1>15, <2>1, <2>2 DEF read
<1>16. CASE \E s \in Sizes : linux_resize(s) \/ windows_resize(s)
  BY <1>16 DEF linux_resize, windows_resize
<1>17. CASE drop_linux
  BY <1>17 DEF drop_linux
<1>18. CASE drop_windows
  BY <1>18 DEF drop_windows
<1>19. CASE Drain
  BY <1>19 DEF Drain
<1>20. CASE DrainDeadline
  <2>1. PtyType'
    <3>1. heir' \in BOOLEAN /\ eof' \in BOOLEAN /\ closed' \in BOOLEAN
      BY <1>20 DEF DrainDeadline, ClosePseudoConsole
    <3>2. closes' \in Nat /\ inside' \in {"none", "running", "exited"}
      BY <1>20 DEF DrainDeadline, ClosePseudoConsole
    <3> QED
      BY <1>20, <3>1, <3>2 DEF DrainDeadline, ClosePseudoConsole
  <2>2. Setup'
    BY <1>20 DEF DrainDeadline, ClosePseudoConsole
  <2>3. OneCloser'
    BY <1>20 DEF DrainDeadline, ClosePseudoConsole
  <2>4. NoByteIsLost'
    BY <1>20 DEF DrainDeadline, ClosePseudoConsole
  <2>5. EndIsFinal'
    BY <1>20 DEF DrainDeadline, ClosePseudoConsole
  <2>6. SizeIsSet'
    BY <1>20 DEF DrainDeadline, ClosePseudoConsole
  <2> QED
    BY <2>1, <2>2, <2>3, <2>4, <2>5, <2>6
<1>21. CASE UNCHANGED pvars
  BY <1>21 DEF pvars
<1> QED
  BY <1>1, <1>2, <1>3, <1>4, <1>5, <1>6, <1>7, <1>8, <1>9, <1>10, <1>11, <1>12, <1>13,
     <1>14, <1>15, <1>16, <1>17, <1>18, <1>19, <1>20, <1>21 DEF PtyNext

\* ClosePseudoConsole is called once, by the watcher or by the drop, whichever
\* comes first; a read that returns 0 comes after every byte that was written;
\* and the window has its size in time, if a console's is below 32768: for every length of the output, size of
\* the pipe and order of the four actors, on both backends.
THEOREM TerminalsAreWhole == PtySpec => []TerminalIsWhole
<1>1. PtyInit => PtyInv
  <2> SUFFICES ASSUME PtyInit PROVE PtyInv
    OBVIOUS
  <2>1. PtyType
    BY DEF PtyInit, PtyType
  <2>2. Setup
    BY DEF PtyInit, Setup, Starting
  <2>3. OneCloser
    BY DEF PtyInit, OneCloser
  <2>4. NoByteIsLost /\ EndIsFinal /\ SizeIsSet
    BY DEF PtyInit, NoByteIsLost, EndIsFinal, SizeIsSet, Starting
  <2> QED
    BY <2>1, <2>2, <2>3, <2>4 DEF PtyInv
<1>2. PtyInv /\ [PtyNext]_pvars => PtyInv'
  BY PtyStep
<1>3. PtyInv => TerminalIsWhole
  BY DEF PtyInv, OneCloser, EndIsFinal, SizeIsSet, TerminalIsWhole, ClosedOnce,
         EndIsComplete, SizedAtStart, as_i16
<1> QED
  BY <1>1, <1>2, <1>3, PTL DEF PtySpec

-----------------------------------------------------------------------------
(* wait_any: the inductive invariant relates the clock to the moment the   *)
(* call is blocked until, and what the scans have already passed to what   *)
(* has ended.                                                              *)


\* Every timeout fits into one system call.
CapSuffices == \A t \in Timeouts : t <= Cap

\* The timeout is one a caller may give.
Given == timeout \in Timeouts \cup {Never}

\* The loops start at the time of the call: the fast pass takes no time.
Zero == start = 0 /\ (stage = "fast" => now = 0)

\* Until when the call is blocked.
Waits ==
    /\ stage = "polling" /\ ~Bounded => wake = Never
    /\ stage = "polling" /\ Bounded =>
          now <= wake /\ wake <= timeout /\ (CapSuffices => timeout < wake + MILLI)
    /\ stage \in {"poll", "scan"} /\ Bounded => now <= timeout
    /\ stage \in {"sleep", "rest"} => now <= wake /\ wake <= now + TICK
    /\ stage = "sleep" /\ Bounded => wake <= timeout
    /\ stage = "rest" /\ Bounded => wake <= timeout + TICK
    /\ stage = "sweep" /\ Bounded => now <= timeout + TICK

\* A child that has ended is still to be asked in this round, or has ended
\* too late for it.
Seen ==
    ended # {} =>
        /\ firstEnd <= now
        /\ stage \in {"fast", "poll", "polling"} => firstEnd = now
        /\ stage \in {"sleep", "rest"} => wake <= firstEnd + TICK
        /\ stage \in {"scan", "sweep"} =>
              /\ now <= firstEnd + TICK
              /\ firstEnd = now \/ \E c \in ended : c >= idx

\* Only children that ended are collected, and those the fast pass has
\* passed are not among them.
Collected ==
    /\ stash \subseteq ended
    /\ stage = "fast" => \A c \in stash : c >= idx
    /\ PolledAreOurs
    /\ SomeIsRetrievable

TimedOut == CapSuffices => NoneIsTimeout

WaitInv == WaitTypeOK /\ Given /\ Zero /\ Waits /\ Seen /\ Collected /\ TimedOut

-----------------------------------------------------------------------------
USE ChildAssumption, TimeAssumption, LoopAssumption

\* A system call is given no more than was asked for, and less than a
\* millisecond less, as long as it can be given that much.
LEMMA GrantedBounds ==
    ASSUME NEW t \in Nat
    PROVE  /\ Granted(t) \in Nat /\ Granted(t) <= t
           /\ t <= Cap => t < Granted(t) + MILLI
<1>1. t % MILLI \in 0..(MILLI - 1) /\ t % MILLI <= t
    OBVIOUS
<1> QED
    BY <1>1 DEF Granted, Lesser

\* The portable loop asks one child.
LEMMA ScanInv ==
    ASSUME WaitInv, Scan
    PROVE  WaitInv'
<1>1. WaitTypeOK'
  <2>1. UNCHANGED <<backend, len, foreign, timeout, ended, now, firstEnd>>
      BY DEF Scan, outside
  <2>2. stage' \in {"fast", "scan", "sleep", "poll", "polling", "sweep", "rest",
                "some", "none", "err"}
      BY DEF WaitInv, WaitTypeOK, Scan, Some
  <2>3. idx' \in 1..(len + MAXIMUM_WAIT_OBJECTS)
      BY DEF WaitInv, WaitTypeOK, Child, Scan, Some
  <2>4. stash' \subseteq Child
      BY DEF WaitInv, WaitTypeOK, Scan, Some
  <2>6. answer' \in 0..len
      BY DEF WaitInv, WaitTypeOK, Child, Scan, Some
  <2>5. start' \in Nat /\ wake' \in Nat
      BY DEF WaitInv, WaitTypeOK, Never, Lesser, Bounded, Scan, Some
  <2> QED
      BY <2>1, <2>2, <2>3, <2>4, <2>5, <2>6 DEF WaitInv, WaitTypeOK, Child
<1>2. Given'
    BY DEF Scan, Some, outside, WaitInv, Given
<1>3. Zero'
    BY DEF Scan, Some, outside, WaitInv, Zero
<1>4. Waits'
    BY DEF Scan, Some, outside, WaitInv, WaitTypeOK, Child, Bounded, Never, Zero, Waits,
       CapSuffices
<1>5. Seen'
    BY DEF Scan, Some, outside, WaitInv, WaitTypeOK, Child, Bounded, Never, Zero, Waits,
       Seen
<1>6. Collected'
    BY DEF Scan, Some, outside, WaitInv, WaitTypeOK, Child, Collected, PolledAreOurs,
       SomeIsRetrievable
<1>7. TimedOut'
    BY DEF Scan, Some, outside, WaitInv, WaitTypeOK, Child, Bounded, Never, Zero, Waits,
       TimedOut, NoneIsTimeout, CapSuffices
<1> QED
    BY <1>1, <1>2, <1>3, <1>4, <1>5, <1>6, <1>7 DEF WaitInv

\* A scan without a hit sleeps or times out.
LEMMA ScannedInv ==
    ASSUME WaitInv, Scanned
    PROVE  WaitInv'
<1>1. WaitTypeOK'
  <2>1. UNCHANGED <<backend, len, foreign, timeout, ended, now, firstEnd>>
      BY DEF Scanned, outside
  <2>2. stage' \in {"fast", "scan", "sleep", "poll", "polling", "sweep", "rest",
                "some", "none", "err"}
      BY DEF WaitInv, WaitTypeOK, Scanned, Finish
  <2>3. idx' \in 1..(len + MAXIMUM_WAIT_OBJECTS)
      BY DEF WaitInv, WaitTypeOK, Child, Scanned, Finish
  <2>4. stash' \subseteq Child
      BY DEF WaitInv, WaitTypeOK, Scanned, Finish
  <2>6. answer' \in 0..len
      BY DEF WaitInv, WaitTypeOK, Child, Scanned, Finish
  <2>5. start' \in Nat /\ wake' \in Nat
      BY DEF WaitInv, WaitTypeOK, Never, Lesser, Bounded, Scanned, Finish
  <2> QED
      BY <2>1, <2>2, <2>3, <2>4, <2>5, <2>6 DEF WaitInv, WaitTypeOK, Child
<1>2. Given'
    BY DEF Scanned, Finish, Lesser, outside, WaitInv, Given
<1>3. Zero'
    BY DEF Scanned, Finish, Lesser, outside, WaitInv, Zero
<1>4. Waits'
    BY DEF Scanned, Finish, Lesser, outside, WaitInv, WaitTypeOK, Child, Bounded, Never,
       Zero, Waits, CapSuffices
<1>5. Seen'
    BY DEF Scanned, Finish, Lesser, outside, WaitInv, WaitTypeOK, Child, Bounded, Never,
       Zero, Waits, Seen
<1>6. Collected'
    BY DEF Scanned, Finish, Lesser, outside, WaitInv, WaitTypeOK, Child, Collected,
       PolledAreOurs, SomeIsRetrievable
<1>7. TimedOut'
    BY DEF Scanned, Finish, Lesser, outside, WaitInv, WaitTypeOK, Child, Bounded, Never,
       Zero, Waits, TimedOut, NoneIsTimeout, CapSuffices
<1> QED
    BY <1>1, <1>2, <1>3, <1>4, <1>5, <1>6, <1>7 DEF WaitInv

\* A new scan begins.
LEMMA WakesInv ==
    ASSUME WaitInv, Wakes
    PROVE  WaitInv'
<1>1. WaitTypeOK'
    BY DEF Wakes, outside, WaitInv, WaitTypeOK, Child, Bounded, Never
<1>2. Given'
    BY DEF Wakes, outside, WaitInv, Given
<1>3. Zero'
    BY DEF Wakes, outside, WaitInv, Zero
<1>4. Waits'
    BY DEF Wakes, outside, WaitInv, WaitTypeOK, Child, Bounded, Never, Zero, Waits,
       CapSuffices
<1>5. Seen'
  <2>1. \A c \in ended : c >= 1
      BY DEF WaitInv, WaitTypeOK, Child
  <2> QED
      BY <2>1 DEF WaitInv, WaitTypeOK, Waits, Seen, outside, Wakes
<1>6. Collected'
    BY DEF Wakes, outside, WaitInv, WaitTypeOK, Child, Collected, PolledAreOurs,
       SomeIsRetrievable
<1>7. TimedOut'
    BY DEF Wakes, outside, WaitInv, WaitTypeOK, Child, Bounded, Never, Zero, Waits,
       TimedOut, NoneIsTimeout, CapSuffices
<1> QED
    BY <1>1, <1>2, <1>3, <1>4, <1>5, <1>6, <1>7 DEF WaitInv

\* The fast pass asks one child.
LEMMA FastInv ==
    ASSUME WaitInv, Fast
    PROVE  WaitInv'
<1>1. WaitTypeOK'
  <2>1. UNCHANGED <<backend, len, foreign, timeout, ended, now, firstEnd>>
      BY DEF Fast, outside
  <2>2. stage' \in {"fast", "scan", "sleep", "poll", "polling", "sweep", "rest",
                "some", "none", "err"}
      BY DEF WaitInv, WaitTypeOK, Fast, Some, Portable
  <2>3. idx' \in 1..(len + MAXIMUM_WAIT_OBJECTS)
      BY DEF WaitInv, WaitTypeOK, Child, Fast, Some, Portable
  <2>4. stash' \subseteq Child
      BY DEF WaitInv, WaitTypeOK, Fast, Some, Portable
  <2>6. answer' \in 0..len
      BY DEF WaitInv, WaitTypeOK, Child, Fast, Some, Portable
  <2>5. start' \in Nat /\ wake' \in Nat
      BY DEF WaitInv, WaitTypeOK, Never, Lesser, Bounded, Fast, Some, Portable
  <2> QED
      BY <2>1, <2>2, <2>3, <2>4, <2>5, <2>6 DEF WaitInv, WaitTypeOK, Child
<1>2. Given'
    BY DEF Fast, Some, Portable, outside, WaitInv, Given
<1>3. Zero'
    BY DEF Fast, Some, Portable, outside, WaitInv, Zero
<1>4. Waits'
    BY DEF Fast, Some, Portable, outside, WaitInv, WaitTypeOK, Child, Bounded, Never, Zero,
       Waits, CapSuffices
<1>5. Seen'
    BY DEF Fast, Some, Portable, outside, WaitInv, WaitTypeOK, Child, Bounded, Never, Zero,
       Waits, Seen
<1>6. Collected'
  <2>1. CASE idx \in ended
      BY <2>1 DEF WaitInv, Collected, PolledAreOurs, SomeIsRetrievable, Fast, Some, outside
  <2>2. CASE idx \notin ended /\ idx \in foreign
      BY <2>2 DEF WaitInv, Collected, PolledAreOurs,
         SomeIsRetrievable, Fast, Portable, outside
  <2>3. CASE idx \notin ended /\ idx \notin foreign
    <3>1. stage' = "fast" /\ idx' = idx + 1 /\ UNCHANGED <<stash, ended>>
        BY <2>3 DEF Fast, outside
    <3>2. \A c \in stash : c >= idx /\ c # idx /\ c \in Nat
        BY <2>3 DEF WaitInv, WaitTypeOK, Child, Collected, Fast
    <3>3. idx \in Nat
        BY DEF Fast, Child
    <3> QED
        BY <3>1, <3>2, <3>3 DEF WaitInv, Collected, PolledAreOurs, SomeIsRetrievable
  <2> QED
      BY <2>1, <2>2, <2>3
<1>7. TimedOut'
    BY DEF Fast, Some, Portable, outside, WaitInv, WaitTypeOK, Child, Bounded, Never, Zero,
       Waits, TimedOut, NoneIsTimeout, CapSuffices
<1> QED
    BY <1>1, <1>2, <1>3, <1>4, <1>5, <1>6, <1>7 DEF WaitInv

\* Every child was asked and none had been collected.
LEMMA OpenPidfdsInv ==
    ASSUME WaitInv, OpenPidfds
    PROVE  WaitInv'
<1>1. WaitTypeOK'
  <2>1. UNCHANGED <<backend, len, foreign, timeout, ended, now, firstEnd>>
      BY DEF OpenPidfds, outside
  <2>2. stage' \in {"fast", "scan", "sleep", "poll", "polling", "sweep", "rest",
                "some", "none", "err"}
      BY DEF WaitInv, WaitTypeOK, OpenPidfds, Finish, Portable
  <2>3. idx' \in 1..(len + MAXIMUM_WAIT_OBJECTS)
      BY DEF WaitInv, WaitTypeOK, Child, OpenPidfds, Finish, Portable
  <2>4. stash' \subseteq Child
      BY DEF WaitInv, WaitTypeOK, OpenPidfds, Finish, Portable
  <2>6. answer' \in 0..len
      BY DEF WaitInv, WaitTypeOK, Child, OpenPidfds, Finish, Portable
  <2>5. start' \in Nat /\ wake' \in Nat
      BY DEF WaitInv, WaitTypeOK, Never, Lesser, Bounded, OpenPidfds, Finish, Portable
  <2> QED
      BY <2>1, <2>2, <2>3, <2>4, <2>5, <2>6 DEF WaitInv, WaitTypeOK, Child
<1>2. Given'
    BY DEF OpenPidfds, Finish, Portable, outside, WaitInv, Given
<1>3. Zero'
    BY DEF OpenPidfds, Finish, Portable, outside, WaitInv, Zero
<1>4. Waits'
    BY DEF OpenPidfds, Finish, Portable, outside, WaitInv, WaitTypeOK, Child, Bounded,
       Never, Zero, Waits, CapSuffices
<1>5. Seen'
    BY DEF OpenPidfds, Finish, Portable, outside, WaitInv, WaitTypeOK, Child, Bounded,
       Never, Zero, Waits, Seen
<1>6. Collected'
  <2>1. idx > len /\ len \in Nat
      BY DEF WaitInv, WaitTypeOK, Child, OpenPidfds
  <2>2. \A c \in stash : c >= idx /\ c <= len
      BY DEF WaitInv, WaitTypeOK, Child, Collected, OpenPidfds
  <2>3. stash = {}
      BY <2>1, <2>2 DEF WaitInv, WaitTypeOK, Child
  <2> QED
      BY <2>3 DEF WaitInv, Collected, PolledAreOurs,
         SomeIsRetrievable, outside, OpenPidfds, Finish, Portable
<1>7. TimedOut'
    BY DEF OpenPidfds, Finish, Portable, outside, WaitInv, WaitTypeOK, Child, Bounded,
       Never, Zero, Waits, TimedOut, NoneIsTimeout, CapSuffices
<1> QED
    BY <1>1, <1>2, <1>3, <1>4, <1>5, <1>6, <1>7 DEF WaitInv

\* The poll is given what is left.
LEMMA PollInv ==
    ASSUME WaitInv, Poll
    PROVE  WaitInv'
<1>1. WaitTypeOK'
  <2>1. now \in Nat /\ timeout \in Nat /\ start = 0
      BY DEF WaitInv, WaitTypeOK, Zero, Never
  <2>2. now < timeout => Granted(timeout - now) \in Nat
      BY <2>1, GrantedBounds
  <2>3. wake' \in Nat
      BY <2>1, <2>2 DEF Poll, Never
  <2> QED
      BY <2>3 DEF Poll, Finish, outside, WaitInv, WaitTypeOK, Child
<1>2. Given'
    BY DEF Poll, Finish, outside, WaitInv, Given
<1>3. Zero'
    BY DEF Poll, Finish, outside, WaitInv, Zero
<1>4. Waits'
  <2>1. /\ stage' = "polling" /\ start = 0 /\ UNCHANGED <<timeout, now>>
        /\ now \in Nat /\ timeout \in Nat /\ (Bounded => now <= timeout)
      BY DEF WaitInv, WaitTypeOK, Zero, Waits, Poll, Finish, outside, Never
  <2>2. CASE ~Bounded
      BY <2>1, <2>2 DEF Waits, Poll, Bounded
  <2>3. CASE Bounded
    <3>1. wake' = IF now >= timeout THEN now ELSE now + Granted(timeout - now)
        BY <2>1, <2>3 DEF Poll
    <3>2. CapSuffices => timeout <= Cap
        BY <2>3 DEF CapSuffices, WaitInv, Given, Bounded
    <3>3. now <= wake' /\ wake' <= timeout /\ (CapSuffices => timeout < wake' + MILLI)
        BY <2>1, <2>3, <3>1, <3>2, GrantedBounds
    <3> QED
        BY <2>1, <2>3, <3>3 DEF Waits, Bounded, CapSuffices
  <2> QED
      BY <2>2, <2>3
<1>5. Seen'
    BY DEF Poll, Finish, outside, WaitInv, WaitTypeOK, Child, Bounded, Never, Zero,
       Waits, Seen
<1>6. Collected'
    BY DEF Poll, Finish, outside, WaitInv, WaitTypeOK, Child, Collected,
       PolledAreOurs, SomeIsRetrievable
<1>7. TimedOut'
    BY DEF Poll, Finish, outside, WaitInv, WaitTypeOK, Child, Bounded, Never, Zero,
       Waits, TimedOut, NoneIsTimeout, CapSuffices
<1> QED
    BY <1>1, <1>2, <1>3, <1>4, <1>5, <1>6, <1>7 DEF WaitInv

\* An interruption goes round again.
LEMMA InterruptedInv ==
    ASSUME WaitInv, Interrupted
    PROVE  WaitInv'
<1>1. WaitTypeOK'
    BY DEF Interrupted, Finish, outside, WaitInv, WaitTypeOK, Child, Bounded, Never
<1>2. Given'
    BY DEF Interrupted, Finish, outside, WaitInv, Given
<1>3. Zero'
    BY DEF Interrupted, Finish, outside, WaitInv, Zero
<1>4. Waits'
    BY DEF Interrupted, Finish, outside, WaitInv, WaitTypeOK, Child, Bounded, Never, Zero,
       Waits, CapSuffices
<1>5. Seen'
    BY DEF Interrupted, Finish, outside, WaitInv, WaitTypeOK, Child, Bounded, Never, Zero,
       Waits, Seen
<1>6. Collected'
    BY DEF Interrupted, Finish, outside, WaitInv, WaitTypeOK, Child, Collected,
       PolledAreOurs, SomeIsRetrievable
<1>7. TimedOut'
    BY DEF Interrupted, Finish, outside, WaitInv, WaitTypeOK, Child, Bounded, Never, Zero,
       Waits, TimedOut, NoneIsTimeout, CapSuffices
<1> QED
    BY <1>1, <1>2, <1>3, <1>4, <1>5, <1>6, <1>7 DEF WaitInv

\* One wait or the first sweep.
LEMMA wait_manyInv ==
    ASSUME WaitInv, wait_many
    PROVE  WaitInv'
<1>1. WaitTypeOK'
  <2>1. UNCHANGED <<backend, len, foreign, timeout, ended, now, firstEnd>>
      BY DEF wait_many, outside
  <2>2. stage' \in {"fast", "scan", "sleep", "poll", "polling", "sweep", "rest",
                "some", "none", "err"}
      BY DEF WaitInv, WaitTypeOK, wait_many, Finish
  <2>3. idx' \in 1..(len + MAXIMUM_WAIT_OBJECTS)
      BY DEF WaitInv, WaitTypeOK, Child, wait_many, Finish
  <2>4. stash' \subseteq Child
      BY DEF WaitInv, WaitTypeOK, wait_many, Finish
  <2>6. answer' \in 0..len
      BY DEF WaitInv, WaitTypeOK, Child, wait_many, Finish
  <2>5. start' \in Nat /\ wake' \in Nat
    <3>1. timeout \in Nat
        BY DEF WaitInv, WaitTypeOK, Never
    <3>2. Granted(timeout) \in Nat
        BY <3>1, GrantedBounds
    <3> QED
        BY <3>2 DEF WaitInv, WaitTypeOK, Never, wait_many, Finish
  <2> QED
      BY <2>1, <2>2, <2>3, <2>4, <2>5, <2>6 DEF WaitInv, WaitTypeOK, Child
<1>2. Given'
    BY DEF wait_many, Finish, outside, WaitInv, Given
<1>3. Zero'
    BY DEF wait_many, Finish, outside, WaitInv, Zero
<1>4. Waits'
  <2>1. /\ start = 0 /\ now = 0 /\ UNCHANGED <<timeout, now>> /\ timeout \in Nat
      BY DEF WaitInv, WaitTypeOK, Zero, wait_many, outside, Never
  <2>2. CASE stage' = "sweep"
      BY <2>1, <2>2 DEF Waits
  <2>3. CASE stage' = "polling"
    <3>4. Granted(timeout) \in Nat
        BY <2>1, GrantedBounds
    <3>1. wake' = IF Bounded THEN Granted(timeout) ELSE Never
        BY <2>1, <2>3, <3>4 DEF wait_many, Finish
    <3>2. Bounded /\ CapSuffices => timeout <= Cap
        BY DEF CapSuffices, WaitInv, Given, Bounded
    <3>3. Bounded => /\ 0 <= wake' /\ wake' <= timeout
                     /\ (CapSuffices => timeout < wake' + MILLI)
        BY <2>1, <3>1, <3>2, GrantedBounds
    <3> QED
        BY <2>1, <2>3, <3>1, <3>3 DEF Waits, Bounded, CapSuffices
  <2> QED
      BY <2>2, <2>3 DEF wait_many, Finish
<1>5. Seen'
    BY DEF wait_many, Finish, outside, WaitInv, WaitTypeOK, Child, Bounded, Never,
       Zero, Waits, Seen
<1>6. Collected'
  <2>1. idx > len /\ len \in Nat
      BY DEF WaitInv, WaitTypeOK, Child, wait_many
  <2>2. \A c \in stash : c >= idx /\ c <= len
      BY DEF WaitInv, WaitTypeOK, Child, Collected, wait_many
  <2>3. stash = {}
      BY <2>1, <2>2 DEF WaitInv, WaitTypeOK, Child
  <2> QED
      BY <2>3 DEF WaitInv, Collected, PolledAreOurs,
         SomeIsRetrievable, outside, wait_many, Finish
<1>7. TimedOut'
    BY DEF wait_many, Finish, outside, WaitInv, WaitTypeOK, Child, Bounded, Never,
       Zero, Waits, TimedOut, NoneIsTimeout, CapSuffices
<1> QED
    BY <1>1, <1>2, <1>3, <1>4, <1>5, <1>6, <1>7 DEF WaitInv

\* A child that ended is reported.
LEMMA HitInv ==
    ASSUME WaitInv, Hit
    PROVE  WaitInv'
<1>1. WaitTypeOK'
    BY DEF Hit, Some, outside, WaitInv, WaitTypeOK, Child, Bounded, Never
<1>2. Given'
    BY DEF Hit, Some, outside, WaitInv, Given
<1>3. Zero'
    BY DEF Hit, Some, outside, WaitInv, Zero
<1>4. Waits'
    BY DEF Hit, Some, outside, WaitInv, WaitTypeOK, Child, Bounded, Never, Zero, Waits,
       CapSuffices
<1>5. Seen'
    BY DEF Hit, Some, outside, WaitInv, WaitTypeOK, Child, Bounded, Never, Zero, Waits,
       Seen
<1>6. Collected'
    BY DEF Hit, Some, outside, WaitInv, WaitTypeOK, Child, Collected, PolledAreOurs,
       SomeIsRetrievable
<1>7. TimedOut'
    BY DEF Hit, Some, outside, WaitInv, WaitTypeOK, Child, Bounded, Never, Zero, Waits,
       TimedOut, NoneIsTimeout, CapSuffices
<1> QED
    BY <1>1, <1>2, <1>3, <1>4, <1>5, <1>6, <1>7 DEF WaitInv

\* The poll is over.
LEMMA TimesOutInv ==
    ASSUME WaitInv, TimesOut
    PROVE  WaitInv'
<1>1. WaitTypeOK'
    BY DEF TimesOut, Finish, outside, WaitInv, WaitTypeOK, Child, Bounded, Never
<1>2. Given'
    BY DEF TimesOut, Finish, outside, WaitInv, Given
<1>3. Zero'
    BY DEF TimesOut, Finish, outside, WaitInv, Zero
<1>4. Waits'
    BY DEF TimesOut, Finish, outside, WaitInv, WaitTypeOK, Child, Bounded, Never, Zero,
       Waits, CapSuffices
<1>5. Seen'
    BY DEF TimesOut, Finish, outside, WaitInv, WaitTypeOK, Child, Bounded, Never, Zero,
       Waits, Seen
<1>6. Collected'
    BY DEF TimesOut, Finish, outside, WaitInv, WaitTypeOK, Child, Collected, PolledAreOurs,
       SomeIsRetrievable
<1>7. TimedOut'
    BY DEF TimesOut, Finish, outside, WaitInv, WaitTypeOK, Child, Bounded, Never, Zero,
       Waits, TimedOut, NoneIsTimeout, CapSuffices
<1> QED
    BY <1>1, <1>2, <1>3, <1>4, <1>5, <1>6, <1>7 DEF WaitInv

\* One chunk is asked.
LEMMA SweepInv ==
    ASSUME WaitInv, Sweep
    PROVE  WaitInv'
<1>1. WaitTypeOK'
  <2>1. UNCHANGED <<backend, len, foreign, timeout, ended, now, firstEnd>>
      BY DEF Sweep, outside
  <2>2. stage' \in {"fast", "scan", "sleep", "poll", "polling", "sweep", "rest",
                "some", "none", "err"}
      BY DEF WaitInv, WaitTypeOK, Sweep, chunk, Some
  <2>3. idx' \in 1..(len + MAXIMUM_WAIT_OBJECTS)
      BY DEF WaitInv, WaitTypeOK, Child, Sweep, chunk, Some
  <2>4. stash' \subseteq Child
      BY DEF WaitInv, WaitTypeOK, Sweep, chunk, Some
  <2>6. answer' \in 0..len
      BY DEF WaitInv, WaitTypeOK, Child, Sweep, chunk, Some
  <2>5. start' \in Nat /\ wake' \in Nat
      BY DEF WaitInv, WaitTypeOK, Never, Lesser, Bounded, Sweep, chunk, Some
  <2> QED
      BY <2>1, <2>2, <2>3, <2>4, <2>5, <2>6 DEF WaitInv, WaitTypeOK, Child
<1>2. Given'
    BY DEF Sweep, Some, chunk, outside, WaitInv, Given
<1>3. Zero'
    BY DEF Sweep, Some, chunk, outside, WaitInv, Zero
<1>4. Waits'
    BY DEF Sweep, Some, chunk, outside, WaitInv, WaitTypeOK, Child, Bounded, Never, Zero,
       Waits, CapSuffices
<1>5. Seen'
    BY DEF Sweep, Some, chunk, outside, WaitInv, WaitTypeOK, Child, Bounded, Never, Zero,
       Waits, Seen
<1>6. Collected'
    BY DEF Sweep, Some, chunk, outside, WaitInv, WaitTypeOK, Child, Collected,
       PolledAreOurs, SomeIsRetrievable
<1>7. TimedOut'
    BY DEF Sweep, Some, chunk, outside, WaitInv, WaitTypeOK, Child, Bounded, Never, Zero,
       Waits, TimedOut, NoneIsTimeout, CapSuffices
<1> QED
    BY <1>1, <1>2, <1>3, <1>4, <1>5, <1>6, <1>7 DEF WaitInv

\* A sweep without a hit rests or times out.
LEMMA SweptInv ==
    ASSUME WaitInv, Swept
    PROVE  WaitInv'
<1>1. WaitTypeOK'
  <2>1. UNCHANGED <<backend, len, foreign, timeout, ended, now, firstEnd>>
      BY DEF Swept, outside
  <2>2. stage' \in {"fast", "scan", "sleep", "poll", "polling", "sweep", "rest",
                "some", "none", "err"}
      BY DEF WaitInv, WaitTypeOK, Swept, Finish
  <2>3. idx' \in 1..(len + MAXIMUM_WAIT_OBJECTS)
      BY DEF WaitInv, WaitTypeOK, Child, Swept, Finish
  <2>4. stash' \subseteq Child
      BY DEF WaitInv, WaitTypeOK, Swept, Finish
  <2>6. answer' \in 0..len
      BY DEF WaitInv, WaitTypeOK, Child, Swept, Finish
  <2>5. start' \in Nat /\ wake' \in Nat
      BY DEF WaitInv, WaitTypeOK, Never, Lesser, Bounded, Swept, Finish
  <2> QED
      BY <2>1, <2>2, <2>3, <2>4, <2>5, <2>6 DEF WaitInv, WaitTypeOK, Child
<1>2. Given'
    BY DEF Swept, Finish, outside, WaitInv, Given
<1>3. Zero'
    BY DEF Swept, Finish, outside, WaitInv, Zero
<1>4. Waits'
    BY DEF Swept, Finish, outside, WaitInv, WaitTypeOK, Child, Bounded, Never, Zero, Waits,
       CapSuffices
<1>5. Seen'
    BY DEF Swept, Finish, outside, WaitInv, WaitTypeOK, Child, Bounded, Never, Zero, Waits,
       Seen
<1>6. Collected'
    BY DEF Swept, Finish, outside, WaitInv, WaitTypeOK, Child, Collected, PolledAreOurs,
       SomeIsRetrievable
<1>7. TimedOut'
    BY DEF Swept, Finish, outside, WaitInv, WaitTypeOK, Child, Bounded, Never, Zero, Waits,
       TimedOut, NoneIsTimeout, CapSuffices
<1> QED
    BY <1>1, <1>2, <1>3, <1>4, <1>5, <1>6, <1>7 DEF WaitInv

\* A new sweep begins.
LEMMA SweepsAgainInv ==
    ASSUME WaitInv, SweepsAgain
    PROVE  WaitInv'
<1>1. WaitTypeOK'
    BY DEF SweepsAgain, outside, WaitInv, WaitTypeOK, Child, Bounded, Never
<1>2. Given'
    BY DEF SweepsAgain, outside, WaitInv, Given
<1>3. Zero'
    BY DEF SweepsAgain, outside, WaitInv, Zero
<1>4. Waits'
    BY DEF SweepsAgain, outside, WaitInv, WaitTypeOK, Child, Bounded, Never, Zero, Waits,
       CapSuffices
<1>5. Seen'
  <2>1. \A c \in ended : c >= 1
      BY DEF WaitInv, WaitTypeOK, Child
  <2> QED
      BY <2>1 DEF WaitInv, WaitTypeOK, Waits, Seen, outside, SweepsAgain
<1>6. Collected'
    BY DEF SweepsAgain, outside, WaitInv, WaitTypeOK, Child, Collected, PolledAreOurs,
       SomeIsRetrievable
<1>7. TimedOut'
    BY DEF SweepsAgain, outside, WaitInv, WaitTypeOK, Child, Bounded, Never, Zero, Waits,
       TimedOut, NoneIsTimeout, CapSuffices
<1> QED
    BY <1>1, <1>2, <1>3, <1>4, <1>5, <1>6, <1>7 DEF WaitInv

\* An error is returned.
LEMMA FailsInv ==
    ASSUME WaitInv, Fails
    PROVE  WaitInv'
<1>1. WaitTypeOK'
    BY DEF Fails, Finish, outside, WaitInv, WaitTypeOK, Child, Bounded, Never
<1>2. Given'
    BY DEF Fails, Finish, outside, WaitInv, Given
<1>3. Zero'
    BY DEF Fails, Finish, outside, WaitInv, Zero
<1>4. Waits'
    BY DEF Fails, Finish, outside, WaitInv, WaitTypeOK, Child, Bounded, Never, Zero, Waits,
       CapSuffices
<1>5. Seen'
    BY DEF Fails, Finish, outside, WaitInv, WaitTypeOK, Child, Bounded, Never, Zero, Waits,
       Seen
<1>6. Collected'
    BY DEF Fails, Finish, outside, WaitInv, WaitTypeOK, Child, Collected, PolledAreOurs,
       SomeIsRetrievable
<1>7. TimedOut'
    BY DEF Fails, Finish, outside, WaitInv, WaitTypeOK, Child, Bounded, Never, Zero, Waits,
       TimedOut, NoneIsTimeout, CapSuffices
<1> QED
    BY <1>1, <1>2, <1>3, <1>4, <1>5, <1>6, <1>7 DEF WaitInv

\* Time passes only while the call is blocked.
LEMMA TimePassesInv ==
    ASSUME WaitInv, TimePasses
    PROVE  WaitInv'
<1>1. WaitTypeOK'
    BY DEF TimePasses, Blocked, WaitInv, WaitTypeOK, Child, Bounded, Never
<1>2. Given'
    BY DEF TimePasses, Blocked, WaitInv, Given
<1>3. Zero'
    BY DEF TimePasses, Blocked, WaitInv, Zero
<1>4. Waits'
    BY DEF TimePasses, Blocked, WaitInv, WaitTypeOK, Child, Bounded, Never, Zero, Waits,
       CapSuffices
<1>5. Seen'
  <2>1. CASE stage = "polling"
      BY <2>1 DEF Seen, TimePasses, Blocked
  <2>2. CASE stage \in {"sleep", "rest"}
      BY <2>2 DEF WaitInv, WaitTypeOK, Seen, TimePasses
  <2> QED
      BY <2>1, <2>2 DEF TimePasses, Blocked
<1>6. Collected'
    BY DEF TimePasses, Blocked, WaitInv, WaitTypeOK, Child, Collected, PolledAreOurs,
       SomeIsRetrievable
<1>7. TimedOut'
    BY DEF TimePasses, Blocked, WaitInv, WaitTypeOK, Child, Bounded, Never, Zero, Waits,
       TimedOut, NoneIsTimeout, CapSuffices
<1> QED
    BY <1>1, <1>2, <1>3, <1>4, <1>5, <1>6, <1>7 DEF WaitInv

\* A child ends.
LEMMA EndsInv ==
    ASSUME WaitInv, NEW c \in Child, Ends(c)
    PROVE  WaitInv'
<1>1. WaitTypeOK'
    BY DEF Ends, WaitInv, WaitTypeOK, Child, Bounded, Never
<1>2. Given'
    BY DEF Ends, WaitInv, Given
<1>3. Zero'
    BY DEF Ends, WaitInv, Zero
<1>4. Waits'
    BY DEF Ends, WaitInv, WaitTypeOK, Child, Bounded, Never, Zero, Waits, CapSuffices
<1>5. Seen'
    BY DEF Ends, WaitInv, WaitTypeOK, Child, Bounded, Never, Zero, Waits, Seen
<1>6. Collected'
    BY DEF Ends, WaitInv, WaitTypeOK, Child, Collected, PolledAreOurs, SomeIsRetrievable
<1>7. TimedOut'
    BY DEF Ends, WaitInv, WaitTypeOK, Child, Bounded, Never, Zero, Waits, TimedOut,
       NoneIsTimeout, CapSuffices
<1> QED
    BY <1>1, <1>2, <1>3, <1>4, <1>5, <1>6, <1>7 DEF WaitInv

\* The invariant holds at the start.
LEMMA InitInv == WaitInit => WaitInv
<1> SUFFICES ASSUME WaitInit PROVE WaitInv
    OBVIOUS
<1>1. WaitTypeOK
  <2>1. /\ len \in 1..N /\ ended \subseteq Child /\ stash \subseteq Child
        /\ foreign \subseteq Child /\ timeout \in 0..Never
      BY DEF WaitInit, Never
  <2>2. /\ now \in 0..MaxTime /\ firstEnd \in 0..MaxTime
        /\ idx \in 1..(len + MAXIMUM_WAIT_OBJECTS) /\ answer \in 0..len
      BY <2>1 DEF WaitInit
  <2> QED
      BY <2>1, <2>2 DEF WaitInit, WaitTypeOK
<1>2. Given /\ Zero /\ Waits
    BY DEF WaitInit, Given, Zero, Waits, Never, Bounded
<1>3. Seen
    BY <1>1 DEF WaitInit, Seen, WaitTypeOK, Child
<1>4. Collected
    BY <1>1 DEF WaitInit, Collected, PolledAreOurs, SomeIsRetrievable, WaitTypeOK, Child
<1>5. TimedOut
    BY DEF WaitInit, TimedOut, NoneIsTimeout
<1> QED
    BY <1>1, <1>2, <1>3, <1>4, <1>5 DEF WaitInv

\* Every step keeps the invariant.
LEMMA StepInv == WaitInv /\ [WaitNext]_waitvars => WaitInv'
<1> SUFFICES ASSUME WaitInv, [WaitNext]_waitvars PROVE WaitInv'
    OBVIOUS
<1>1. CASE UNCHANGED waitvars
    BY <1>1 DEF waitvars, WaitInv, WaitTypeOK, Given, Zero, Waits, Seen, Collected, TimedOut,
       PolledAreOurs, SomeIsRetrievable, NoneIsTimeout, CapSuffices, Child, Bounded
<1> QED
    BY <1>1, ScanInv, ScannedInv, WakesInv, FastInv, OpenPidfdsInv, PollInv,
       InterruptedInv, wait_manyInv, HitInv, TimesOutInv, SweepInv, SweptInv,
       SweepsAgainInv, FailsInv, TimePassesInv, EndsInv DEF WaitNext

-----------------------------------------------------------------------------
(* Theorems                                                                *)

\* The inductive invariant holds throughout.
LEMMA Invariance == WaitSpec => []WaitInv
BY InitInv, StepInv, PTL DEF WaitSpec

\* Every reachable state of a wait_any call has its type.
THEOREM WaitTypeCorrect == WaitSpec => []WaitTypeOK
<1>1. WaitInv => WaitTypeOK
    BY DEF WaitInv
<1> QED
    BY <1>1, Invariance, PTL

\* Whatever the backend, the child that is named has ended and its status
\* can be retrieved.
THEOREM WinnerIsRetrievable == WaitSpec => []SomeIsRetrievable
<1>1. WaitInv => SomeIsRetrievable
    BY DEF WaitInv, Collected
<1> QED
    BY <1>1, Invariance, PTL

\* No child that was already reaped is handed to the system by its pid.
THEOREM NoStalePidIsPolled == WaitSpec => []PolledAreOurs
<1>1. WaitInv => PolledAreOurs
    BY DEF WaitInv, Collected
<1> QED
    BY <1>1, Invariance, PTL

\* None means that the timeout is over, as long as every timeout fits into
\* one system call.
THEOREM NoneMeansTimeout ==
    ASSUME CapSuffices PROVE WaitSpec => []NoneIsTimeout
<1>1. WaitInv => NoneIsTimeout
    BY CapSuffices DEF WaitInv, TimedOut
<1> QED
    BY <1>1, Invariance, PTL

\* The call outlasts neither a child's end nor the timeout by more than a
\* tick.
THEOREM AlwaysPrompt == WaitSpec => []Prompt
<1>1. ASSUME WaitInv PROVE Prompt
  <2>1. /\ now \in Nat /\ firstEnd \in Nat /\ timeout \in Nat /\ wake \in Nat
        /\ stage \in {"fast", "scan", "sleep", "poll", "polling", "sweep", "rest",
                   "some", "none", "err"}
      BY <1>1 DEF WaitInv, WaitTypeOK, Never
  <2>2. stage \notin {"some", "none", "err"} /\ ended # {} => now <= firstEnd + TICK
      BY <1>1, <2>1 DEF WaitInv, Waits, Seen
  <2>3. stage \notin {"some", "none", "err"} /\ Bounded => now <= timeout + TICK
      BY <1>1, <2>1 DEF WaitInv, Waits, Zero
  <2> QED
      BY <2>2, <2>3 DEF Prompt
<1> QED
    BY <1>1, Invariance, PTL
=============================================================================
