------------------------------ MODULE Terminals ------------------------------
(***************************************************************************)
(* LinuxTerminal and WindowsTerminal (platform::term): raw mode with the   *)
(* state it saves, echo, the handover of the terminal between process      *)
(* groups, and the consoles a Windows process acquires and gives up.  The  *)
(* modes belong to the terminal and not to the process: anybody may change *)
(* them between the read and the write of one call.  On Windows the        *)
(* standard handles, and not the console, are what the calls go through.   *)
(***************************************************************************)
EXTENDS Integers

CONSTANTS
    MaxConsoles,     \* consoles the process has in turn
    Group, Own       \* process groups, and this process's own among them

\* There is room for the first console.
Consoles == MaxConsoles \in Nat \ {0}
ASSUME ConsoleAssumption == Consoles

VARIABLES
    backend,     \* "linux" or "windows"
    modes,       \* what is switched on, for each terminal or console
    console,     \* the one the process is attached to, or 0
    made,        \* consoles so far
    slot,        \* where the standard handles lead: a console or 0
    saved,       \* LinuxTerminal::saved, WindowsTerminal::saved
    doing,       \* a call that has read the modes and not yet written them
    cur,         \* what it read
    state,       \* WindowsTerminal::console_state
    halfway,     \* an acquisition failed after the console was there
    foreground,  \* the group that has the terminal
    sigttou,     \* this process's disposition: "default" or "ignored"
    stopped,     \* a handover stopped this process
    before,      \* the modes found when raw mode was entered, and where
    left         \* raw mode has just been left

tvars == <<backend, modes, console, made, slot, saved, doing, cur, state, halfway,
           foreground, sigttou, stopped, before, left>>
acquisition == <<console, made, slot, state, halfway>>
jobs == <<foreground, sigttou, stopped>>

Streams == {"stdin", "stdout", "stderr"}
Cooked == [line |-> TRUE, echo |-> TRUE, vt |-> FALSE]
None == [from |-> 0, line |-> TRUE, echo |-> TRUE, vt |-> "unsaved"]

\* A console is there from the start, or (GUI subsystem) none; a standard
\* handle may be redirected.
TermInit ==
    /\ backend \in {"linux", "windows"}
    /\ modes = [c \in 1..MaxConsoles |-> Cooked]
    /\ console \in 0..1 /\ made = console /\ (backend = "linux" => console = 1)
    /\ \E out \in {0, console} : slot = [stdin |-> console, stdout |-> out, stderr |-> console]
    /\ saved = None /\ doing = "nothing" /\ cur = Cooked
    /\ state = (IF console = 0 THEN "None" ELSE "Inherited") /\ halfway = FALSE
    /\ foreground \in Group /\ sigttou = "default" /\ stopped = FALSE
    /\ before = None /\ left = FALSE

\* A standard handle of a console that was given up leads nowhere.
is_tty(s) == slot[s] # 0 /\ slot[s] = console

\* tcsetattr by a group in the background stops it, unless SIGTTOU is ignored.
MayChange == backend = "linux" => foreground = Own \/ sigttou = "ignored"

-----------------------------------------------------------------------------
(* Raw mode                                                                 *)

\* A second enter_raw that saves what the first one made of the terminal.
EnterAgain ==
    /\ doing = "nothing" /\ is_tty("stdin") /\ MayChange
    /\ doing' = "enter_raw" /\ cur' = modes[slot["stdin"]] /\ left' = FALSE
    /\ UNCHANGED <<backend, modes, acquisition, saved, jobs, before>>

\* Raw mode that this handle has entered is not entered again.  Otherwise the
\* modes are read (an error if standard input is no terminal),
BeginEnter ==
    /\ doing = "nothing" /\ saved = None /\ is_tty("stdin") /\ MayChange
    /\ doing' = "enter_raw" /\ cur' = modes[slot["stdin"]] /\ left' = FALSE
    /\ UNCHANGED <<backend, modes, acquisition, saved, jobs, before>>

\* changed, and kept.  The first change may fail, and nothing is kept then; on
\* Windows the second one, of the output, is only tried.
linux_enter_raw ==
    /\ backend = "linux" /\ doing = "enter_raw"
    /\ \/ /\ modes' = [modes EXCEPT ![slot["stdin"]] = [cur EXCEPT !.line = FALSE, !.echo = FALSE]]
          /\ saved' = [from |-> slot["stdin"], line |-> cur.line, echo |-> cur.echo, vt |-> "unsaved"]
          /\ before' = (IF saved = None THEN saved' ELSE before)
       \/ UNCHANGED <<modes, saved, before>>
    /\ doing' = "nothing"
    /\ UNCHANGED <<backend, acquisition, cur, jobs, left>>

windows_enter_raw ==
    LET c == slot["stdin"]
        Raw(v) == [line |-> FALSE, echo |-> FALSE, vt |-> v] IN
    /\ backend = "windows" /\ doing = "enter_raw"
    /\ \/ /\ modes' = [modes EXCEPT ![c] = Raw(modes[c].vt)]
          /\ saved' = [from |-> c, line |-> cur.line, echo |-> cur.echo, vt |-> "unsaved"]
       \/ /\ is_tty("stdout")
          /\ modes' = [modes EXCEPT ![c] = Raw(TRUE)]
          /\ saved' = [from |-> c, line |-> cur.line, echo |-> cur.echo,
                       vt |-> IF modes[c].vt THEN "on" ELSE "off"]
       \/ UNCHANGED <<modes, saved>>
    /\ before' = (IF saved = None THEN saved' ELSE before)
    /\ doing' = "nothing"
    /\ UNCHANGED <<backend, acquisition, cur, jobs, left>>

\* restore: the input's modes; the output's, where they were changed, are only
\* tried.
Restored(m) ==
    {[line |-> saved.line, echo |-> saved.echo, vt |-> v] :
        v \in {m.vt} \cup (IF saved.vt # "unsaved" /\ is_tty("stdout")
                          THEN {saved.vt = "on"} ELSE {})}

\* What was saved is taken before it is put back: if that fails, it is lost.
leave_raw ==
    /\ doing = "nothing" /\ saved # None /\ MayChange
    /\ \/ /\ is_tty("stdin")
          /\ \E m \in Restored(modes[slot["stdin"]]) : modes' = [modes EXCEPT ![slot["stdin"]] = m]
          /\ left' = TRUE
       \/ left' = FALSE /\ UNCHANGED modes
    /\ saved' = None
    /\ UNCHANGED <<backend, acquisition, doing, cur, jobs, before>>

\* Echo is changed in what was read, and all of that is written back.
BeginEcho ==
    /\ doing = "nothing" /\ is_tty("stdin") /\ MayChange
    /\ doing' = "set_echo" /\ cur' = modes[slot["stdin"]] /\ left' = FALSE
    /\ UNCHANGED <<backend, modes, acquisition, saved, jobs, before>>

set_echo(on) ==
    /\ doing = "set_echo"
    /\ \/ modes' = [modes EXCEPT ![slot["stdin"]].echo = on, ![slot["stdin"]].line = cur.line]
       \/ UNCHANGED modes
    /\ doing' = "nothing"
    /\ UNCHANGED <<backend, acquisition, saved, cur, jobs, before, left>>

\* Another process on the terminal, stty for one.
Outsider ==
    /\ console # 0
    /\ \E on \in BOOLEAN : modes' = [modes EXCEPT ![console].line = on, ![console].echo = on]
    /\ left' = FALSE
    /\ UNCHANGED <<backend, acquisition, saved, doing, cur, jobs, before>>

-----------------------------------------------------------------------------
(* Handing over the terminal (Linux)                                        *)

\* SIG_IGN is installed on every call.
ignore_sigttou == sigttou' = "ignored"

\* tcsetpgrp stops a caller in the background that has not ignored SIGTTOU.
tcsetpgrp(g, disposition) ==
    IF foreground # Own /\ disposition = "default"
    THEN stopped' = TRUE /\ UNCHANGED foreground
    ELSE UNCHANGED stopped /\ foreground' \in {g, foreground}

give_terminal(g) ==
    /\ backend = "linux" /\ doing = "nothing" /\ ~stopped
    /\ ignore_sigttou /\ tcsetpgrp(g, sigttou')
    /\ left' = FALSE
    /\ UNCHANGED <<backend, modes, acquisition, saved, doing, cur, before>>

\* The application may restore the disposition, or its shell take the terminal.
Elsewhere ==
    /\ backend = "linux" /\ doing = "nothing"
    /\ sigttou' = "default" /\ foreground' \in Group /\ left' = FALSE
    /\ UNCHANGED <<backend, modes, acquisition, saved, doing, cur, stopped, before>>

-----------------------------------------------------------------------------
(* Consoles (Windows)                                                       *)

\* The handles are opened first, and installed one after the other; any of
\* these may fail.
reopen_std_handles(c, n) ==
    LET Order == <<"stdin", "stdout", "stderr">> IN
    slot' = [s \in Streams |-> IF \E i \in 1..n : Order[i] = s THEN c ELSE slot[s]]

\* AllocConsole or AttachConsole fail while there is a console.  Output modes
\* of the new one are tried; the state is changed last.
Acquire(kind) ==
    /\ backend = "windows" /\ doing = "nothing" /\ console = 0 /\ made < MaxConsoles
    /\ made' = made + 1 /\ console' = made' /\ left' = FALSE
    /\ \/ /\ reopen_std_handles(made', 3) /\ state' = kind /\ UNCHANGED halfway
          /\ \E v \in BOOLEAN : modes' = [modes EXCEPT ![made'].vt = v]
       \/ /\ \E n \in 0..2 : reopen_std_handles(made', n)
          /\ halfway' = TRUE /\ UNCHANGED <<state, modes>>
    /\ UNCHANGED <<backend, saved, doing, cur, jobs, before>>

alloc_console == Acquire("Allocated")
attach_console == Acquire("Attached")

\* Nothing is done in the state None, whatever console there is.
free_console ==
    /\ backend = "windows" /\ doing = "nothing" /\ state # "None"
    /\ console' = 0 /\ state' = "None" /\ left' = FALSE
    /\ UNCHANGED <<backend, modes, made, slot, saved, doing, cur, halfway, jobs, before>>

-----------------------------------------------------------------------------
TermNext ==
    \/ BeginEnter \/ linux_enter_raw \/ windows_enter_raw \/ leave_raw
    \/ BeginEcho \/ (\E on \in BOOLEAN : set_echo(on))
    \/ Outsider \/ Elsewhere \/ (\E g \in Group : give_terminal(g))
    \/ alloc_console \/ attach_console \/ free_console

TermSpec == TermInit /\ [][TermNext]_tvars

-----------------------------------------------------------------------------
\* leave_raw puts back exactly what the first enter_raw found, however often
\* raw mode was asked for and the terminal changed in between, as long as
\* standard input is still the terminal it was (and is what enter_raw read: a
\* change between its read and its write is lost).
LeaveRestores ==
    left /\ before.from = slot["stdin"] =>
        modes[before.from].line = before.line /\ modes[before.from].echo = before.echo

\* A handover never stops its caller, in the background or not, even after the
\* application has taken SIGTTOU back.
NeverStopped == ~stopped

\* console_state does not promise a console that is not there, and denies one
\* that is only after an acquisition that failed half-way.
StateIsHonest ==
    backend = "windows" =>
        /\ state # "None" => console # 0
        /\ console # 0 /\ state = "None" => halfway

\* After an acquisition that succeeded all three standard streams are the
\* console, until it is given up (ConsoleAcquisition's ordering contract).
AcquiredIsUsable ==
    state \in {"Allocated", "Attached"} => \A s \in Streams : is_tty(s)

\* What a program borrows of its terminal it gives back, and is told the truth
\* about it: the four together (enter_raw and leave_raw, give_terminal,
\* console_state, alloc_console and attach_console).
TerminalIsGivenBack == LeaveRestores /\ NeverStopped /\ StateIsHonest /\ AcquiredIsUsable
=============================================================================
