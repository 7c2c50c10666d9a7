-------------------------------- MODULE Pty --------------------------------
(***************************************************************************)
(* A child on a pseudo-terminal (platform::pty), as the Linux and the      *)
(* Windows backend host one.  Four actors meet here: the caller, who       *)
(* spawns, reads, resizes and finally drops the master; the child, with    *)
(* what it starts itself; conhost, which on Windows stands between the     *)
(* child and the output pipe; and the exit watcher, the thread that closes *)
(* the pseudo console when the child has exited, because nothing else      *)
(* would end the pipe.  ClosePseudoConsole must be called once, by either  *)
(* the watcher or the drop, and blocks until conhost has passed on what it *)
(* holds.  Bytes are counted, since a pipe keeps their order.              *)
(***************************************************************************)
EXTENDS Integers

CONSTANTS
    Output,      \* how much is written to the terminal at most
    Room,        \* what the output pipe, or the terminal's buffer, takes
    Sizes        \* window sizes, as the caller may ask for them: a dimension, u16

VARIABLES
    os,          \* the backend
    holder,      \* where the caller is: "idle", with a "pair" and a "child" in spawn,
                 \* "open", "reading", "draining", "closing" or "gone"
    asked,       \* the size it asked for
    size,        \* the terminal's, or 0 while nobody has set it
    inside,      \* the child: "none", "running" or "exited"
    heir,        \* whether a process that the child started has the terminal open
    written,     \* bytes written to the terminal
    pending,     \* of these, what conhost has not put into the pipe
    buffered,    \* what is in the pipe, or in the terminal's buffer
    taken,       \* what the caller's reads returned
    eof,         \* whether one of them returned 0
    hpc,         \* the pseudo console: "none", "live", "closing", "closed"
    closes,      \* calls of ClosePseudoConsole
    closed,      \* the flag that the watcher and the drop share
    watcher      \* "none", "waiting", "won", "closing" or "done"

caller == <<os, holder, asked, size, taken, eof>>
terminal == <<inside, heir, written, pending, buffered>>
console == <<hpc, closes, closed, watcher>>
pvars == <<caller, terminal, console>>

PtyInit ==
    /\ os \in {"linux", "windows"} /\ holder = "idle"
    /\ asked \in Sizes /\ size = 0
    /\ inside = "none" /\ heir = FALSE
    /\ written = 0 /\ pending = 0 /\ buffered = 0 /\ taken = 0 /\ eof = FALSE
    /\ hpc = "none" /\ closes = 0 /\ closed = FALSE /\ watcher = "none"

\* The terminal is still open somewhere on the child's side.
Attached == inside = "running" \/ heir

\* Nothing more will be written to it.
Quiet == written = Output \/ ~Attached

\* The caller still has its end of the output.
MasterOpen == holder \notin {"idle", "gone"}

-----------------------------------------------------------------------------
(* Spawning.  A request to join a group is refused before anything happens, *)
(* as are a program that is not found and arguments that cannot be passed.  *)

refuse ==
    /\ holder = "idle"
    /\ holder' = "gone"
    /\ UNCHANGED <<os, asked, size, taken, eof, terminal, console>>

\* posix_openpt, grantpt, unlockpt, ptsname_r: whichever fails, the master is
\* closed again.
open_pty_pair ==
    /\ os = "linux" /\ holder = "idle"
    /\ holder' \in {"pair", "gone"}
    /\ UNCHANGED <<os, asked, size, taken, eof, terminal, console>>

\* The session leader opens the slave by its name.
linux_spawn_attached ==
    /\ os = "linux" /\ holder = "pair"
    /\ \/ holder' = "child" /\ inside' = "running"
       \/ holder' = "gone" /\ UNCHANGED inside
    /\ UNCHANGED <<os, asked, size, taken, eof, heir, written, pending, buffered, console>>

\* The size is set while the child already runs.  A failure returns without
\* the child's handle: the child stays.
initial_resize ==
    /\ holder = "child"
    /\ \/ holder' = "open" /\ size' = asked
       \/ holder' = "gone" /\ UNCHANGED size
    /\ UNCHANGED <<os, asked, taken, eof, terminal, console>>

\* A COORD is of signed numbers, and `as` keeps the bits.
as_i16(s) == IF s < 32768 THEN s ELSE s - 65536

\* Two pipes and CreatePseudoConsole.
create_pty ==
    /\ os = "windows" /\ holder = "idle"
    /\ \/ holder' = "pair" /\ hpc' = "live" /\ size' = as_i16(asked)
       \/ holder' = "gone" /\ UNCHANGED <<hpc, size>>
    /\ UNCHANGED <<os, asked, taken, eof, terminal, closes, closed, watcher>>

\* The attribute list and CreateProcessW, with no standard handles of the
\* caller's; the list is deleted on every path.
windows_spawn_attached(ok) == inside' = (IF ok THEN "running" ELSE inside)

\* The thread starts if the process handle can be duplicated for it.
spawn_exit_watcher == watcher' \in {"waiting", "none"}

\* A failure closes the console directly: nobody else knows of it.
windows_spawn ==
    /\ os = "windows" /\ holder = "pair"
    /\ \/ windows_spawn_attached(TRUE) /\ spawn_exit_watcher /\ holder' = "open"
       \/ windows_spawn_attached(FALSE) /\ holder' = "draining" /\ UNCHANGED watcher
    /\ UNCHANGED <<os, asked, size, taken, eof, heir, written, pending, buffered,
                   hpc, closes, closed>>

-----------------------------------------------------------------------------
(* The child, what it starts, and conhost                                   *)

\* On Linux a write waits for room; on Windows conhost takes it.
ChildWrites ==
    /\ Attached /\ written < Output
    /\ IF os = "linux"
       THEN MasterOpen /\ buffered < Room /\ buffered' = buffered + 1 /\ UNCHANGED pending
       ELSE hpc = "live" /\ pending' = pending + 1 /\ UNCHANGED buffered
    /\ written' = written + 1
    /\ UNCHANGED <<caller, inside, heir, console>>

\* It may leave a process behind that has the terminal open.
ChildExits ==
    /\ inside = "running"
    /\ inside' = "exited" /\ heir' \in BOOLEAN
    /\ UNCHANGED <<caller, written, pending, buffered, console>>

HeirExits ==
    /\ heir
    /\ heir' = FALSE
    /\ UNCHANGED <<caller, inside, written, pending, buffered, console>>

ConhostWrites ==
    /\ hpc \in {"live", "closing"} /\ pending > 0 /\ MasterOpen /\ buffered < Room
    /\ pending' = pending - 1 /\ buffered' = buffered + 1
    /\ UNCHANGED <<caller, inside, heir, written, console>>

\* ClosePseudoConsole ends the processes on the console,
ClosePseudoConsole ==
    /\ hpc' = "closing" /\ closes' = closes + 1
    /\ inside' = (IF inside = "running" THEN "exited" ELSE inside) /\ heir' = FALSE

\* and returns when conhost has nothing more to write, or nobody to write to.
CloseReturns ==
    /\ hpc = "closing" /\ (pending = 0 \/ ~MasterOpen)
    /\ hpc' = "closed"
    /\ holder' = (IF holder = "closing" THEN "gone" ELSE holder)
    /\ watcher' = (IF watcher = "closing" THEN "done" ELSE watcher)
    /\ UNCHANGED <<os, asked, size, taken, eof, terminal, closes, closed>>

-----------------------------------------------------------------------------
(* The exit watcher                                                         *)

\* compare_exchange: the loser does nothing.
WatcherSees ==
    /\ watcher = "waiting" /\ inside = "exited"
    /\ closed' = TRUE /\ watcher' = (IF closed THEN "done" ELSE "won")
    /\ UNCHANGED <<caller, terminal, hpc, closes>>

\* One that drains first, as an earlier version of the code did.
WatcherDrains ==
    /\ watcher = "won"
    /\ ClosePseudoConsole /\ buffered' = 0 /\ watcher' = "closing"
    /\ UNCHANGED <<caller, written, pending, closed>>

WatcherCloses ==
    /\ watcher = "won"
    /\ ClosePseudoConsole /\ watcher' = "closing"
    /\ UNCHANGED <<caller, written, pending, buffered, closed>>

-----------------------------------------------------------------------------
(* The master                                                               *)

BeginRead ==
    /\ holder = "open"
    /\ holder' = "reading"
    /\ UNCHANGED <<os, asked, size, taken, eof, terminal, console>>

\* What there is; or 0, when nobody can write any more: EIO on Linux, a broken
\* pipe on Windows.
read ==
    /\ holder = "reading"
    /\ \/ \E n \in 1..buffered :
             buffered' = buffered - n /\ taken' = taken + n /\ UNCHANGED eof
       \/ /\ buffered = 0 /\ (IF os = "linux" THEN ~Attached ELSE hpc = "closed")
          /\ eof' = TRUE /\ UNCHANGED <<buffered, taken>>
    /\ holder' = "open"
    /\ UNCHANGED <<os, asked, size, inside, heir, written, pending, console>>

\* TIOCSWINSZ on the master.
linux_resize(s) ==
    /\ os = "linux" /\ holder = "open"
    /\ asked' = s /\ size' = s
    /\ UNCHANGED <<os, holder, taken, eof, terminal, console>>

\* ResizePseudoConsole.  Nothing keeps a caller from it after the watcher has
\* closed the console; what it does then is not modelled.
windows_resize(s) ==
    /\ os = "windows" /\ holder = "open" /\ hpc = "live"
    /\ asked' = s /\ size' = as_i16(s)
    /\ UNCHANGED <<os, holder, taken, eof, terminal, console>>

\* On Linux, the descriptor is closed.
drop_linux ==
    /\ os = "linux" /\ holder = "open"
    /\ holder' = "gone"
    /\ UNCHANGED <<os, asked, size, taken, eof, terminal, console>>

\* On Windows, the loser of the compare_exchange leaves the console alone.
drop_windows ==
    /\ os = "windows" /\ holder = "open"
    /\ closed' = TRUE /\ holder' = (IF closed THEN "gone" ELSE "draining")
    /\ UNCHANGED <<os, asked, size, taken, eof, terminal, hpc, closes, watcher>>

\* close: what is in the pipe is read and forgotten, for two seconds.
Drain ==
    /\ holder = "draining" /\ buffered > 0
    /\ buffered' = 0
    /\ UNCHANGED <<caller, inside, heir, written, pending, console>>

\* No draining before the close.
CloseAtOnce ==
    /\ holder = "draining"
    /\ ClosePseudoConsole /\ holder' = "closing"
    /\ UNCHANGED <<os, asked, size, taken, eof, written, pending, buffered, closed, watcher>>

\* Two seconds are enough to empty the pipe after somebody who has stopped
\* writing, and not after somebody who goes on.
DrainDeadline ==
    /\ holder = "draining" /\ (Quiet => pending = 0 /\ buffered = 0)
    /\ ClosePseudoConsole /\ holder' = "closing"
    /\ UNCHANGED <<os, asked, size, taken, eof, written, pending, buffered, closed, watcher>>

-----------------------------------------------------------------------------
PtyNext ==
    \/ refuse
    \/ open_pty_pair \/ linux_spawn_attached \/ initial_resize
    \/ create_pty \/ windows_spawn
    \/ ChildWrites \/ ChildExits \/ HeirExits \/ ConhostWrites
    \/ CloseReturns \/ WatcherSees \/ WatcherCloses
    \/ BeginRead \/ read \/ (\E s \in Sizes : linux_resize(s) \/ windows_resize(s))
    \/ drop_linux \/ drop_windows \/ Drain \/ DrainDeadline

PtySpec == PtyInit /\ [][PtyNext]_pvars

-----------------------------------------------------------------------------
\* The pseudo console is closed once, whoever comes first, the exit of the
\* child or the drop of the master: a second ClosePseudoConsole would be of a
\* handle that is gone.
ClosedOnce == closes <= 1

\* Once a read has returned 0, everything that was written to the terminal has
\* been returned before: nobody else reads the pipe while the caller may, and
\* the console is closed only when it is empty.
EndIsComplete == eof => taken = written

\* A child on a pseudo console finds the size that was asked for from its first
\* instruction on, and the master has it when spawn returns; on Linux the size
\* is set only after the child has started.  A console is given another size
\* than asked if that does not fit into an i16.
SizedAtStart ==
    /\ (os = "windows" /\ inside = "running") \/ holder = "open"
    /\ os = "windows" => asked < 32768
    => size = asked

\* A pseudo console is closed once, has its size before its child runs, and ends
\* for its reader after everything that was written to it.
TerminalIsWhole == ClosedOnce /\ EndIsComplete /\ SizedAtStart

\* A read returns when the child has exited and nobody else has the terminal
\* open, if on Windows there is a watcher: the pseudo console would not end by
\* itself.
TerminalEnds ==
    holder = "reading" /\ ~Attached /\ (os = "windows" => watcher # "none")
        ~> holder # "reading"

\* Dropping a master that nobody has read, of a child that has stopped writing,
\* comes back: the pipe is drained before ClosePseudoConsole waits for conhost,
\* which waits for room in the pipe.
DropReturns == holder = "draining" /\ Quiet ~> holder = "gone"
=============================================================================
