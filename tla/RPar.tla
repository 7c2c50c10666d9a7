-------------------------------- MODULE RPar --------------------------------
(***************************************************************************)
(* rpar (coreutils): spawns commands, then waits for whichever ends next,  *)
(* and looks for a deferred signal between two waits.  With it, the signal *)
(* slot it uses (platform-linux signals): the handler stores the signal    *)
(* into PENDING, take() swaps it out, and a signal without a handler does  *)
(* what signals do by default.  Spawner::wait_any is used by its contract: *)
(* the index of a child that ended, or nothing when the tick is over and   *)
(* none had ended when the call began.                                     *)
(***************************************************************************)
EXTENDS Naturals, Sequences

CONSTANTS
    Commands,      \* how many commands there are on the command line
    MaxSignals     \* bound: the signals sent to rpar

ParParameters == Commands \in Nat /\ MaxSignals \in Nat
ASSUME ParAssumption == ParParameters

VARIABLES
    step,            \* the step rpar is at
    next,          \* the command the spawn loop is at
    children,      \* the vector of children, by the number of the command
    labels,        \* the vector of labels, likewise
    failed,        \* some command failed
    hit,           \* what wait_any returned; 0: nothing
    before,        \* the children that had ended when wait_any was called
    event,         \* the signal that was taken
    code,          \* rpar's exit code
    events,        \* the events install has yet to install
    installed,     \* signals that have the handler
    PENDING,       \* the slot: the pending signal, or "none"
    sent,          \* how many signals were sent (bound)
    proc,          \* the commands' processes
    reaped,        \* the commands that were waited for
    reports,       \* what rpar printed (history)
    gaveUp         \* a wait or a kill was refused by the system (history)

parvars == <<step, next, children, labels, failed, hit, before, event, code, events,
          installed, PENDING, sent, proc, reaped, reports, gaveUp>>
main == <<next, children, labels, failed, hit, before, event, code, events,
          reports, gaveUp>>
world == <<installed, PENDING, sent, proc, reaped>>

Command == 1..Commands
Signals == {"Interrupt", "Terminate", "Hangup"}
Outcomes == {"ok", "bad", "killed"}
HasEnded(c) == proc[c] \in Outcomes

\* Vec::remove: what follows moves up.
remove(s, i) == [j \in 1..(Len(s) - 1) |-> IF j < i THEN s[j] ELSE s[j + 1]]

\* Vec::swap_remove: the last element takes the place of the removed one.
swap_remove(s, i) == [j \in 1..(Len(s) - 1) |-> IF j = i THEN s[Len(s)] ELSE s[j]]

-----------------------------------------------------------------------------
(* Spawning the commands                                                   *)

Spawn ==
    /\ step = "spawn" /\ next \in Command
    /\ labels' = Append(labels, next)
    /\ children' = Append(children, next)
    /\ proc' = [proc EXCEPT ![next] = "running"]
    /\ next' = next + 1
    /\ UNCHANGED <<step, failed, hit, before, event, code, events, installed, PENDING,
                   sent, reaped, reports, gaveUp>>

SpawnFails ==
    /\ step = "spawn" /\ next \in Command
    /\ failed' = TRUE
    /\ next' = next + 1
    /\ UNCHANGED <<step, children, labels, hit, before, event, code, events, reports,
                   gaveUp>>
    /\ UNCHANGED world

Spawned ==
    /\ step = "spawn" /\ next \notin Command
    /\ step' = "install"
    /\ UNCHANGED main /\ UNCHANGED world

-----------------------------------------------------------------------------
(* The signal slot                                                         *)

\* install: one event after the other.
Install ==
    /\ step = "install" /\ events # <<>>
    /\ installed' = installed \cup {Head(events)}
    /\ events' = Tail(events)
    /\ UNCHANGED <<step, next, children, labels, failed, hit, before, event, code,
                   PENDING, sent, proc, reaped, reports, gaveUp>>

\* The first failure ends it; rpar goes on with what is installed.
InstallFails ==
    /\ step = "install" /\ events # <<>>
    /\ events' = <<>>
    /\ UNCHANGED <<step, next, children, labels, failed, hit, before, event, code,
                   reports, gaveUp>>
    /\ UNCHANGED world

Installed ==
    /\ step = "install" /\ events = <<>>
    /\ step' = "loop"
    /\ UNCHANGED main /\ UNCHANGED world

\* The handler: one store, the latest signal wins.
record(s) == PENDING' = s /\ step' = step

\* Someone sends rpar a signal: the handler runs, or the default action.
Signal(s) ==
    /\ step \notin {"done", "dead"}
    /\ sent < MaxSignals
    /\ sent' = sent + 1
    /\ IF s \in installed THEN record(s) ELSE step' = "dead" /\ UNCHANGED PENDING
    /\ UNCHANGED main /\ UNCHANGED <<installed, proc, reaped>>

\* take: swap the slot with none.
take == PENDING' = "none"

-----------------------------------------------------------------------------
(* The loop                                                                *)

Exit(c) == step' = "done" /\ code' = c

AllDone ==
    /\ step = "loop" /\ children = <<>>
    /\ Exit(IF failed THEN 1 ELSE 0)
    /\ UNCHANGED <<next, children, labels, failed, hit, before, event, events, reports,
                   gaveUp>>
    /\ UNCHANGED world

SignalSeen ==
    /\ step = "loop" /\ children # <<>>
    /\ PENDING # "none"
    /\ take
    /\ event' = PENDING
    /\ hit' = 1
    /\ step' = "stop"
    /\ UNCHANGED <<next, children, labels, failed, before, code, events, installed,
                   sent, proc, reaped, reports, gaveUp>>

\* Nothing pending: wait_any is called.
wait_any ==
    /\ step = "loop" /\ children # <<>>
    /\ PENDING = "none"
    /\ before' = {children[i] : i \in {j \in DOMAIN children : HasEnded(children[j])}}
    /\ step' = "wait_any"
    /\ UNCHANGED <<next, children, labels, failed, hit, event, code, events, reports,
                   gaveUp>>
    /\ UNCHANGED world

Waited ==
    /\ step = "wait_any"
    /\ \E i \in DOMAIN children : HasEnded(children[i]) /\ hit' = i
    /\ step' = "reap"
    /\ UNCHANGED <<next, children, labels, failed, before, event, code, events, reports,
                   gaveUp>>
    /\ UNCHANGED world

\* A wait without a timeout.
TickNever == FALSE /\ UNCHANGED parvars

\* The tick is over.
Tick ==
    /\ step = "wait_any"
    /\ before = {}
    /\ step' = "loop"
    /\ UNCHANGED main /\ UNCHANGED world

WaitAnyFails ==
    /\ step = "wait_any"
    /\ Exit(1)
    /\ gaveUp' = TRUE
    /\ UNCHANGED <<next, children, labels, failed, hit, before, event, events, reports>>
    /\ UNCHANGED world

\* The label is taken out the ordinary way.
ReapRemove ==
    /\ step = "reap"
    /\ LET child == children[hit] IN
       /\ reports' = reports \cup {<<labels[hit], proc[child]>>}
       /\ failed' = (failed \/ proc[child] # "ok")
       /\ reaped' = reaped \cup {child}
    /\ labels' = remove(labels, hit)
    /\ children' = swap_remove(children, hit)
    /\ hit' = 0
    /\ step' = "loop"
    /\ UNCHANGED <<next, before, event, code, events, installed, PENDING, sent, proc,
                   gaveUp>>

\* Both vectors lose the entry, and the child's wait gives its status.
Reap ==
    /\ step = "reap"
    /\ LET child == children[hit] IN
       /\ reports' = reports \cup {<<labels[hit], proc[child]>>}
       /\ failed' = (failed \/ proc[child] # "ok")
       /\ reaped' = reaped \cup {child}
    /\ labels' = swap_remove(labels, hit)
    /\ children' = swap_remove(children, hit)
    /\ hit' = 0
    /\ step' = "loop"
    /\ UNCHANGED <<next, before, event, code, events, installed, PENDING, sent, proc,
                   gaveUp>>

\* The consuming wait fails.
ReapFails ==
    /\ step = "reap"
    /\ labels' = swap_remove(labels, hit)
    /\ children' = swap_remove(children, hit)
    /\ failed' = TRUE
    /\ gaveUp' = TRUE
    /\ hit' = 0
    /\ step' = "loop"
    /\ UNCHANGED <<next, before, event, code, events, reports>> /\ UNCHANGED world

-----------------------------------------------------------------------------
(* After a signal: every child is killed, then every child is waited for   *)

KillNext ==
    IF hit < Len(children) THEN hit' = hit + 1 /\ step' = step
                           ELSE hit' = 1 /\ step' = "collect"

kill_single ==
    /\ step = "stop"
    /\ proc' = [proc EXCEPT ![children[hit]] = IF @ = "running" THEN "killed" ELSE @]
    /\ KillNext
    /\ UNCHANGED <<next, children, labels, failed, before, event, code, events,
                   installed, PENDING, sent, reaped, reports, gaveUp>>

\* The error is ignored.
KillFails ==
    /\ step = "stop"
    /\ KillNext
    /\ gaveUp' = TRUE
    /\ UNCHANGED <<next, children, labels, failed, before, event, code, events, reports>>
    /\ UNCHANGED world

ExitOf(e) == IF e = "Interrupt" THEN 130 ELSE 143

CollectNext ==
    IF hit < Len(children) THEN hit' = hit + 1 /\ UNCHANGED <<step, code>>
                           ELSE hit' = 0 /\ Exit(ExitOf(event))

Collect ==
    /\ step = "collect"
    /\ HasEnded(children[hit])
    /\ reaped' = reaped \cup {children[hit]}
    /\ CollectNext
    /\ UNCHANGED <<next, children, labels, failed, before, event, events, installed,
                   PENDING, sent, proc, reports, gaveUp>>

CollectFails ==
    /\ step = "collect"
    /\ CollectNext
    /\ gaveUp' = TRUE
    /\ UNCHANGED <<next, children, labels, failed, before, event, events, reports>>
    /\ UNCHANGED world

\* A command ends by itself, well or badly.
ChildEnds(c) ==
    /\ proc[c] = "running"
    /\ \E o \in {"ok", "bad"} : proc' = [proc EXCEPT ![c] = o]
    /\ UNCHANGED <<step, installed, PENDING, sent, reaped>> /\ UNCHANGED main

-----------------------------------------------------------------------------
ParInit ==
    /\ step = "spawn"
    /\ next = 1
    /\ children = <<>> /\ labels = <<>>
    /\ failed = FALSE
    /\ hit = 0 /\ before = {}
    /\ event = "none"
    /\ code = 0
    /\ events = <<"Interrupt", "Terminate">>
    /\ installed = {}
    /\ PENDING = "none"
    /\ sent = 0
    /\ proc = [c \in Command |-> "none"]
    /\ reaped = {}
    /\ reports = {}
    /\ gaveUp = FALSE

Work == \/ Spawn \/ Spawned \/ Install \/ Installed \/ AllDone \/ SignalSeen
        \/ wait_any \/ Waited \/ Tick \/ Reap \/ kill_single \/ Collect

Errors == \/ SpawnFails \/ InstallFails \/ WaitAnyFails \/ ReapFails
          \/ KillFails \/ CollectFails

ParNext == Work \/ Errors \/ (\E s \in Signals : Signal(s)) \/ (\E c \in Command : ChildEnds(c))

\* rpar keeps running and the tick ends; nothing need fail, and a command
\* need never end.
ParSpec == ParInit /\ [][ParNext]_parvars /\ WF_parvars(Work)

-----------------------------------------------------------------------------
(* Properties                                                              *)

\* Every variable has its type; an index always names an entry.
ParTypeOK ==
    /\ step \in {"spawn", "install", "loop", "wait_any", "reap", "stop", "collect",
               "done", "dead"}
    /\ next \in 1..(Commands + 1)
    /\ children \in Seq(Command) /\ labels \in Seq(Command)
    /\ failed \in BOOLEAN /\ gaveUp \in BOOLEAN
    /\ hit \in 0..Len(children)
    /\ step \in {"reap", "stop", "collect"} => hit > 0
    /\ before \subseteq Command
    /\ event \in {"none", "Interrupt", "Terminate"}
    /\ code \in {0, 1, 130, 143}
    /\ events \in Seq(Signals)
    /\ installed \subseteq Signals
    /\ PENDING \in installed \cup {"none"}
    /\ sent \in 0..MaxSignals
    /\ proc \in [Command -> {"none", "running"} \cup Outcomes]
    /\ reaped \subseteq Command
    /\ reports \subseteq Command \X Outcomes

\* Each child is reported under its own name and with its own status,
\* whatever the order in which they end.
ReportsAreTrue == \A r \in reports : proc[r[1]] = r[2]

\* "Exits 0 only if every command did."
ZeroMeansAll ==
    step = "done" /\ code = 0 =>
        \A c \in Command : proc[c] = "ok" /\ <<c, "ok">> \in reports

\* rpar does not leave a command behind, running or unreaped, unless the
\* system refused it something.
NothingLeftBehind ==
    step = "done" /\ ~gaveUp =>
        \A c \in Command : proc[c] # "none" => HasEnded(c) /\ c \in reaped

\* What rpar prints, how it exits and what it leaves behind are all true of the
\* commands, whatever fails on the way.
RParIsHonest == ParTypeOK /\ ReportsAreTrue /\ ZeroMeansAll /\ NothingLeftBehind

\* "A pending signal is noticed even while every child keeps running": once
\* recorded, rpar ends, although no command need ever end by itself.
SignalAnswered ==
    PENDING # "none" ~> (step \in {"done", "dead"} \/ gaveUp)
=============================================================================
