# A verification of rustils in TLA+

rustils is a set of portable system interfaces in Rust: one crate of traits
(`platform`), one crate for each operating system that implements them
(`platform-linux`, `platform-windows`, `platform-bsd`), a scripted double
(`platform-mock`), the quoting of Windows command lines (`winargv`), and small
programs built on top (`coreutils`). This directory holds TLA+ models of its
parts, the TLC runs that check them on small instances, and proofs, checked by
TLAPS, that hold for every instance. `PROJECT.json` lists components, runs, the
lines every definition stands for, findings, hazards and theorems.

    tlc -config MCFiles.cfg MCFiles      # a run
    tlapm UnixListenProofs.tla           # the proofs of a module

## 1. The system

| Part | State it keeps | Operations | What is hard |
|---|---|---|---|
| processes (`process.rs`, `sys/spawn.rs`, `sys/proc.rs`) | a handle: pid or process handle, group or job, the stashed status | spawn, wait, try_wait, wait_job, try_wait_job, kill_single, kill_tree, is_alive, disown, wait_any, adopt | `WNOHANG` reaps, so a status can be lost; pids are recycled; a grouped Windows child must be in its job before it runs; inheritable handles leak into another thread's child; interrupted waits |
| deferred signals (`events.rs`, `sys/signals.rs`, `sys/csignals.rs`) | one atomic slot | install, the handler, take | the handler runs between any two steps; signals coalesce; before install the default action applies |
| file system (`fs.rs`, `sys/fdio.rs`, `sys/fileio.rs`, the mock's `fs.rs`) | directory capabilities, open files with their positions, a process-wide counter for temporary names | open, open_dir, create_dir, rename, remove, symlink, read_link, list, metadata, set_times, sync_dir, write_atomic, read, write, clone | crash between two system calls; durability of entries; resolution that must not leave the directory, while others rename in it; operations that are one call on Linux and three on Windows |
| network (`net.rs`, `sys/net.rs`, the mock's `net.rs`) | sockets; for Unix sockets a path in the file system; in the mock a registry and channels | connect, listen, accept, send, receive, timeouts, unix_listen | every script can stop in the middle and must close what it opened; conversions of addresses, error codes and durations; a path that outlives its listener; probe, unlink and bind are separate calls |
| terminal (`term.rs`, `termios.rs`, `console.rs`) | saved modes, the console attached to | raw mode, echo, size, the terminal's process group, acquiring and giving up a console | modes belong to the terminal, which others change too; a background process is stopped; half-done acquisitions |
| pseudo-terminals (`pty.rs`) | a controlling side, a child, on Windows a watcher thread | open, spawn, resize, read, write, drop | the console must be closed once, by one of two threads, and closing blocks until somebody reads; end of file as an error code |
| secret service (`secret_service.rs`, `dbus/`) | a connection to the bus, its serial counter, bytes not yet parsed | available, get, set | replies that belong to other calls; messages that arrive in pieces; alignment of the wire format; a store others change and lock |
| `winargv` | none | command lines for executables and batch files, words for a shell | runs of backslashes before a quote; cmd's own characters |
| TUN, random bytes and sandbox, certificates, caller identity | a descriptor at most | one system call each | nothing that takes several steps |
| mock (`platform-mock`) | scripted trees, queues and children | all of the above | must not promise more than the backends do |
| programs (`coreutils`) | what their loops keep | rpar, rtee, rls, rcp, ... | a pipe that fills while its reader waits; vectors shortened while children end |

The parts meet in few places. A program holds `Box<dyn Child>` handles and hands
them to `Spawner::wait_any`; a backend that does not know a handle falls back
to the portable loop. `rpar` combines the spawner with the signal slot; `rtee`
combines a child, the pipe to it and a file. `write_atomic` is a default method
of the `Dir` trait over the backend's `open`, `rename` and `sync_dir`. A
pseudo-terminal hosts a child, a terminal is handed over to a child's group, and
Windows command lines are what a spawn passes on.

What makes each part correct, in a sentence:

- a handle's status is how that very process ended, whichever call asked first,
  and a signal sent through a handle reaches nobody else;
- a Windows group contains its whole tree from the first instruction on, a
  spawn that fails leaves nothing, and a detached child outlives its parent;
- `wait_any` names only a child that has ended and says `None` only when the
  time is over, and promptly, however often it is interrupted;
- a name that `write_atomic` replaces is at every moment, and after every
  crash, one complete content, and the one acknowledged last or a later one;
- a directory capability leads to nothing outside its directory through a link,
  and no entry is lost, clobbered, listed twice or missed by an operation on another one;
- `unix_listen` takes a path from nobody who answers, is never reachable with
  a wide mode, and recovers from a dead listener;
- a socket call that fails closes what it opened; what it returns says the same
  on every backend;
- raw mode is undone completely, and whoever reads a pseudo-terminal gets all
  of it and then its end;
- an argument, a secret and a message arrive as they were given;
- a program reports each child's own outcome, leaves nothing running, and ends.

## 2. Modules

| Module | Models | Role |
|---|---|---|
| `ChildContract` | `platform/src/process.rs` | what a handle promises about statuses (abstract) |
| `LinuxProcess` | `platform-linux/src/process.rs`, `sys/spawn.rs` | the Linux handle over a kernel that recycles pids; implements `ChildContract` |
| `WindowsProcess` | `platform-windows/src/process.rs`, `sys/proc.rs` | spawns of several threads, jobs, handles; implements `ChildContract` |
| `WaitAny` | `wait_any` in `platform`, `platform-linux`, `platform-windows` | one call, three implementations |
| `AtomicFile` | the contract of `Dir::write_atomic` | one file, replaced atomically (abstract) |
| `WriteAtomic` | `platform/src/fs.rs`, `platform-linux/src/fs.rs`, `sys/fdio.rs` | every system call a step, over a disk that forgets; implements `AtomicFile` |
| `Directories` | `fs.rs`, `sys/fdio.rs`, `sys/fileio.rs` of Linux and Windows, the mock's `fs.rs` | a shared tree under operations of one or several steps |
| `FileHandles` | the same files, the `File` half | positions, clones, short transfers |
| `UnixListen` | `sys/net.rs` of Linux, BSD and Windows | callers that race for one path |
| `Sockets` | `net.rs` and `sys/net.rs` of Linux, BSD and Windows (both arms) | every operation a script of system calls, any of which fails |
| `ByteStream` | `platform/src/net.rs` | one direction of a stream (abstract) |
| `MockNet` | `platform-mock/src/net.rs` | the registry and the channels; its connections implement `ByteStream` |
| `Terminals` | `term.rs`, `sys/termios.rs`, `sys/console.rs` | modes, groups and consoles shared with others |
| `Pty` | `pty.rs`, `sys/pty.rs` of Linux and Windows | caller, child, conhost and watcher |
| `SecretService` | `sys/secret_service.rs`, `dbus/transport.rs` | one operation, made of up to six calls on the bus |
| `DBusWire` | `dbus/value.rs`, `dbus/wire.rs`, `dbus/message.rs` | encoding and parsing, against each other |
| `WinArgv` | `winargv/src/lib.rs` | quoting, against reference parsers |
| `RPar` | `coreutils/src/bin/rpar.rs` with `sys/signals.rs` | the wait loop with the signal slot |
| `RTee` | `coreutils/src/bin/rtee.rs` | the copy loop beside the command and the pipe |

`<module>Proofs` holds a module's theorems; `FileProofs` holds those of
`WriteAtomic` and `FileHandles`, `ProgramProofs` those of `RPar`, `RTee`, `Pty`
and `WaitAny`, `SessionProofs` those of `Terminals` and `SecretService`,
`NetworkProofs` those of `MockNet` and `Sockets`. `MC<module>` instantiates a module
for TLC. Four MC modules put several modules side by side, so that one run
answers one question about all of them: `MCFiles` (how files and directories
behave), `MCNetwork` (how sockets and listeners do), `MCLiveness` (what must come
to an end) and `MCSessions` (what a session of processes, terminals and secrets
relies on). In these a variable
`part` is chosen at first and never changes; only the chosen module's actions
are taken, and the other modules stay in one of their initial states. The state
graph is therefore the disjoint union of the parts' own graphs, and a module's
invariant is checked as that module, and its theorem, states it.

A definition named like another with a suffix, placed just before it
(`decodeExitOnly` before `decode`), is a mutated form of it: a plausible
mistake, which the property it is paired with in `PROJECT.json` must catch. The
specifications never use these.

### LinuxProcess

The kernel is the environment: a table from pid to state, process group, wait
status word and pending job event. Processes exit, are killed, fork, and
strangers come and go, so a free pid may be given out again. Each process has an
incarnation number that no code sees; it is what the properties use to say
"this very process". `child[h]` is a `LinuxChild`: pid, group, and `reaped`, the
stashed status. A blocking wait is two steps: the call, after which the thread
is blocked, and the return of `waitpid`. Status words are encoded and decoded
bit by bit (`Words`, `decode`, `decode_job`), because a confusion of exit code,
signal and core-dump bit is one of the things that can go wrong.

### WindowsProcess

`pc[h]` is how far a spawn call has come: pipes made, `CreateProcessW` done (which
copies every inheritable handle of the process at that moment, those of another
thread's spawn included), the job created, the child assigned and resumed; any
step may fail, and what has been done is then undone as the code does it. A
kernel object lives as long as somebody has a handle on it, and with it the pid.
Jobs are kill-on-close: the last handle kills the members. The whole process may
end between any two steps, which closes all it holds. `TrackW` chooses between
the two builds of `make_pipe`, which mark the ends of a pipe the other way
round; the runs have the default one. Exit code 259 is among the codes, since `STILL_ACTIVE` has the same
value.

### WaitAny

One call over children that end when they like. `stage` is the step of the call:
`fast` is the first pass with `try_wait`, `scan`/`sleep` the portable loop,
`poll`/`polling` the pidfd poll or the single Windows wait, `sweep`/`rest` the
chunks. Time is a counter that moves only while the call is blocked, and a
blocked call is woken no later than it asked for; the time between
system calls is not counted. `Granted` is the conversion to whole milliseconds
and the cut to what the system call can be given.

### WriteAtomic

`dir` is the directory as the running system sees it, `disk` the set of
directories a power failure may bring back: each entry changes on disk at any
time until the directory is synced. A file has a length and a synced prefix. A
thread's call goes through open (with `create_new`), short writes, sync, rename
and sync of the directory, each of which may fail; a process may die and the
power may fail between any two steps. `published` and `acked` number the
contents (history).

### Directories and FileHandles

`Directories` is a tree of numbered nodes (files, directories, links) that
threads change through the capabilities they hold. A system call is one step.
Where the code makes several, the call is several steps: the parents of
`create_dir`, the open-then-set-information of the Windows `rename` and
`remove_file`, the listing in batches, the growing buffer of `read_link`, the
mock's `open`. A path is one name or two. Resolution knows links and the flags
the code passes to `openat2`, `RESOLVE_NO_SYMLINKS` and `RESOLVE_NO_XDEV`;
`Kernels` says whether `openat2` exists, since without it the code falls back to
a walk that follows links. `..` is not modelled: the code has no check for it,
neither flag stops it, and `docs/behavior/fs.md:99-104` says that it is not
prevented, so `Confined` is about links alone. Calls that fail without effect
are no steps. `FileHandles` is what an opened file does: descriptions with a position and an access, handles that
share one after a clone, append, reads that return less, and the cut of lengths
to 32 bits on Windows. Every byte has a number of its own, so that a lost, a
repeated and a misplaced one are told apart.

### UnixListen

Every caller goes through bind, probe, unlink, second bind, chmod and listen;
`path` is the inode the name leads to and `node` what is at each inode. A
listener that dies leaves its inode behind. The Windows variant has no chmod,
repeats its probe, and knows a bind that fails with code 0. Any caller may be
between any two of its system calls. `RefusesFull` says what a connect to a full
backlog is told: Linux waits, the BSDs refuse, and a refusal is what the probe
takes for a dead listener.

### Sockets, MockNet and ByteStream

`Sockets` translates each operation of `Net` into its script of system calls,
for each of the four arms (`linux`, `bsd`, `windows`, `trackw`); a thread
executes its script one call at a time and any call may fail, which leads to
the code's own clean-up. In between other threads spawn children, which inherit
what is not marked otherwise. Addresses, error codes and durations go through
the conversions of the arm in question, into the kernel's form and back.
`MockNet` is the in-memory network: a registry under a lock, a channel for each
listener and two for each connection; a connect sends after the unlock.
`ByteStream` is the contract of one direction, which every connection of
`MockNet` is shown to implement but for one step, `FalseEnd`: the read that
meets an empty write returns zero although the stream has not ended.

### Terminals and Pty

`Terminals` keeps the modes with the terminal and not with the process, so that
anybody changes them between the read and the write of one call. On Windows the
standard handles are separate from the console the process is attached to.
`Pty` counts bytes from the child through conhost and the pipe to the reader.
`ClosePseudoConsole` blocks until conhost has passed on what it holds; it is
called by the exit watcher or by the drop, whoever comes first. A size goes
through `as i16` into a `COORD`; `windows_resize` is taken only while the console
is live, since the code does not look and what the system does then is open.

### SecretService, DBusWire and WinArgv

`SecretService` is one operation over one connection: the handshake, then calls
that send a request under a serial and read until a message answers it. A
message arrives in two pieces, signals come in between, the bus closes, and
others change, lock or stop the store. `DBusWire` is the format underneath:
values are marshalled after their signature with alignment, messages are parsed
from what has arrived. Its states are messages, and the properties read each of
them back, complete and cut at every byte. `WinArgv` is checked in the same way:
its states are lists of arguments, and three reference parsers, written from
the documented rules of `CommandLineToArgvW`, cmd and the POSIX shell, take the
result apart again. Both use recursive operators and are for TLC alone.

### RPar and RTee

`RPar` has one action for each arm of the loop, with the two vectors as
sequences and `swap_remove` as it is; `wait_any` is used by its contract. A
signal is recorded if its handler is installed and otherwise ends rpar. `RTee`
counts bytes: the command writes into a pipe of limited capacity, rtee reads
chunks and writes them to two places, short writes included. That a spawned
child has no pipe although one was asked for (`rtee.rs:66`) is not modelled: no
backend does it.

## 3. Runs

| Run | What it shows | Bounds |
|---|---|---|
| `sessions` | two Linux children among strangers with recycled pids; terminals and consoles; command lines; secrets; messages | 2 handles, 2 pids, 3 processes in all: enough for a pid to be reused while a handle still holds it, and for a group to outlive its leader; 2 consoles in turn; 2 arguments of together 4 units, out of 7 kinds; 1 signal from the bus, 1 change by others; bodies of 2 values, one of each type and shape |
| `windows_process` | groups, failed spawns, detached children, and statuses, for two threads that spawn at the same time, in the default build | 2 spawns, 2 pids, 3 processes (a grandchild), exit code 259 |
| `network` | no socket leaks, sockets stay out of children, conversions are faithful, a timed read ends; `unix_listen` on the POSIX backends is never reachable wide, its probe protects, a lone caller heals the path | 2 threads, 2 open sockets, 4 arms; durations below and above each unit; paths at and above the limit of `sun_path`; 2 callers, 4 inodes, so that each is overtaken between two of its steps and binds twice (the theorems are for any number) |
| `files` | `write_atomic` through crashes; directories of four backends under two threads; handles on one file | 3 threads in 2 processes, 2 calls for each process, 2 bytes (a short write), 3 inodes; 2 threads, 2 names, 3 trees, 3 calls, 7 nodes; 3 handles, 3 bytes, transfers of at most 2 |
| `endings` | what must come to an end, with the right answer: `wait_any`, rpar, rtee, a killed child, repeated probes, the mock's connections, a pseudo-terminal | 3 children, 2 wait objects, so that 3 children need two chunks, a timeout that is no whole number of milliseconds and longer than two ticks; 3 commands (the removed entry, the moved one and another), 1 signal; up to 6 bytes through a pipe of 3 and a buffer of 2, exit codes of eight bits and one above; 1 child with all deaths and job signals; 2 callers with 2 repetitions; 2 listeners, 1 connection, writes of 0 and 2 bytes read one by one; 3 bytes through a pipe of 2, a size that fits an `i16` and one that does not |
| `linux_process_stale_pid` | *violation*: kill_single after the reap hits a stranger | 1 handle, 2 processes |
| `unix_listen_overlap` | *violation*: two callers at one stale socket | 2 callers |
| `write_atomic_subdirectory` | *violation*: the wrong directory is synced | 2 threads |
| `rtee_closed` | *violation*: it blocks when its own reader goes away | as in `endings` |
| `windows_reuse` | *violation*: two listeners at one address | 2 threads |
| `windows_rename` | *violation*: a rename moves what the link leads to | 1 thread, 3 calls |
| `windows_pipe_race` | *violation*: a spawn takes another one's parent end along | 2 spawns, 2 processes |

TLC's deadlock check is off in the passing runs: calls, processes and programs
end by themselves, or their number is bounded. That nobody waits for ever is what
`ProgramsEnd`, `WaitsEnd`, `ReadsEnd` and `ReadEnds` say.

Several properties of a run are conjunctions of named parts, one for each idea:

| Property | Its parts |
|---|---|
| `TerminalIsGivenBack` | `LeaveRestores`: leaving raw mode restores what entering found; `NeverStopped`: a handover does not stop its caller; `StateIsHonest`: `console_state` tells whether there is a console; `AcquiredIsUsable`: an acquired console is what the standard handles lead to |
| `SecretIsTrue` | `RepliesMatch`, `GetIsTruthful`, `SetIsStored`, `AvailableIsUsable` of `SecretService` |
| `EncodingsSurvive` | `ArgvRoundTrip`, `ShellRoundTrip`: the reference parser returns the arguments; `BatchIsInert`: cmd expands and executes nothing in them; `ValuesSurvive`, `MessagesSurvive`, `PrefixIsIncomplete` of `DBusWire` |
| `GroupsHold` | `GroupedFromTheStart`, `GoneMeansGone`, `ProbesAgree` |
| `SpawnIsClean` | `FailedSpawnLeavesNothing`; `ParentEndStaysHome`: a child does not hold the parent's end of its own pipe, nor does what it starts (nor, with Track W, anybody); and the type invariant |
| `SocketsAreOwned` | `NoSocketLeaks`, and the type invariant |
| `ConversionsAreFaithful` | `AddressesAreFaithful`, `KindsAreHonest`, `TimeoutsBound` |
| `NamesAreKept` | `NothingVanishes`; `DeletesComplete`: a name marked for deletion goes when its last handle does |
| `LookupsAreExact` | `ListingComplete`: entries that stay are listed; `LinksWhole`: no link is read cut off; `LookupContract`: which calls follow links (the mock's `access` knows no modes and is exempt); `ConversionsExact`: times and paths |
| `BytesAreKept` | `NoClobber`: appends and clones overwrite nothing; `ReadOnce`; `MovesOrEnds` |
| `RParIsHonest`, `RTeeIsHonest` | the reports, statuses and copies of the two programs |
| `ListenerIsSafe` | `ProbeProtects` of the Windows variant, and the type invariant |
| `TerminalIsWhole` | `ClosedOnce`, `EndIsComplete`, `SizedAtStart` of `Pty` |
| `MockKeepsItsWord` | `StreamsAreStreams` (the refinement of `ByteStream`), `RegistryAgrees`, `NoOrphans` |
| `ProgramsEnd`, `WaitsEnd`, `ReadsEnd` | `SignalAnswered`, `Terminates`; `KilledChildIsReaped`, `ProbingEnds`; `ReadReturns`, `TerminalEnds`, `DropReturns` |

### Fairness

Fairness is assumed only for steps the code takes as soon as it can, never for
failures, signals or the choices of others.

- `LinuxProcess`: a process that is dying dies, and a `waitpid` that can return
  does. Nothing else: nobody need be killed, and no child need exit.
- `UnixListen` (the Windows variant): a caller that can take its next system
  call takes it. The answers of the system stay arbitrary.
- `RPar`: rpar's own successful steps. Among them is `Tick`, the end of the
  200 ms that `wait_any` is given; `WaitAny`'s `Prompt` is why that is
  justified. Commands need never end.
- `RTee`: its own successful steps, and a command that writes as long as it can
  and ends when it has written all. Without that no program that waits would
  end.
- `Sockets`: a read that has data, or whose timeout is over, returns. No
  fairness for whoever sends.
- `MockNet`: a `recv` on a channel that has a message or no sender returns.
- `Pty`: conhost writes what it holds while the pipe has room, a close that may
  return does, the watcher is scheduled, the reader reads on, and the drop
  drains for two seconds at most. The child need not write or exit.

## 4. Findings

Where the code does something else than its comments or documents say, a run
with `"expect": "violation"` exhibits it (`PROJECT.json`, `findings`):

1. `kill_single` and `kill_tree` signal a pid that is no longer the child's
   after the status was stashed.
2. `unix_listen`: two callers at one stale socket; the slower one removes the
   faster one's live socket.
3. `write_atomic` with a `rel` in a subdirectory syncs the wrong directory.
4. `rtee` blocks for ever when its own standard output is closed early and the
   command has more to write than the pipe holds.
5. On Windows a second `tcp_listen` on a live listener's address succeeds,
   because `SO_REUSEADDR` means something else to Winsock.
6. On Windows `rename` follows a symbolic link: its target is moved and the
   link stays.
7. On Windows, in the default build, the parent's end of a pipe is inheritable
   until `SetHandleInformation`: a child that another thread creates meanwhile
   takes it along, and the comment of `make_pipe` says that there is no race in
   either arm.

More limits were met while modelling. The properties and theorems exclude them
by an assumption, a constant or an exception that their comments name, or they
lie outside of the bounds.

Processes and programs:

- `JoinGroup(0)` puts the child into a group of its own, but `kill_tree` then
  signals the caller's group (`KillTreeIsPrecise` assumes `0 \notin JoinTargets`);
- `wait_any` says `None` too early for timeouts longer than `i32::MAX` ms
  (`NoneMeansTimeout` assumes `CapSuffices`), and `Instant::now() + t` panics
  for `Duration::MAX` (`spawn.rs:469`);
- a Windows child inherits the child ends of pipes that another thread's spawn
  has just made, and a process that dies between `CreateProcessW` and the
  assignment to the job leaves a suspended child;
- rpar leaves its commands running when `wait_any` fails, and dies without
  stopping them on a signal before its handlers are installed;
- `rtee` keeps eight bits of the exit code, and Windows has 32: a command that
  fails with 256 passes for one that succeeded (`ZeroMeansComplete` says so).

Files:

- a rename that fails in `write_atomic` leaves the temporary file, complete and
  synced (`NoLitter` says so), and a process
  with the pid of one that crashed meets its leftover names;
- without `openat2` links out of the directory are followed (`Confined` is about
  kernels that have it);
- a `readdir` error looks like the end of the listing with libc;
- a Windows `symlink` that fails after its first step leaves an empty file;
- the mock's `create_new` looks up and creates under two locks, against
  `docs/behavior/fs.md:17`, and its `write` ignores the position.

Network:

- where a full backlog is refused, the probe of `unix_listen` takes a busy
  listener for a dead one and removes its path (`ProbeProtects` and
  `TurnsAreSafe` name the exception);
- a mode change refused on Track W is `Other` even where the portable kind would
  be `PermissionDenied`: it goes through the table of Win32 codes, which has no
  Winsock codes (`KindsAreHonest` names the exception);
- `unix_listen` on Linux takes a regular file at the path for a dead listener's
  socket and removes it;
- timeouts below the unit of the system (a microsecond, a millisecond) become
  none at all;
- on Windows `raw_accept_unix` leaks the accepted socket when the peer's path is
  not UTF-8, a path with a NUL is bound up to it, and a datagram that does not
  fit is an error, where it is cut off elsewhere;
- the mock's reader takes an empty write for the end of the stream
  (`StreamsAreStreams` names the exception, `FalseEnd`), and its ephemeral ports
  wrap into ports in use.

Terminals and the bus:

- `leave_raw` forgets the saved modes although restoring them failed, and
  restores them on another console if there is one by then;
- an acquisition that fails half-way leaves a console the state denies;
- a size of 32768 or more becomes negative in a `COORD` (`SizedAtStart` exempts
  it); `resize` after the pseudo console was closed uses its handle; a drop drains
  for two seconds and no longer; a child whose first resize fails on Linux is
  not reaped;
- a call on the bus has no deadline; a malformed header is taken for an
  incomplete one; an array of empty structs is read without end.

## 5. Proofs

All theorems are for every value of the constants that meets the ASSUMEs. The
bounds of the models (`MaxBorn`, `MaxNodes`, `MaxFiles`, `MaxCalls`, `MaxOps`,
`MaxBytes`, `MaxTime`, `MaxSignals`, `MaxConsoles`, `MaxListeners`, `MaxConns`)
are constants too, so the theorems hold for behaviours of any length. An ASSUME
gives a constant its type, or states a fact of the system the code runs on
(Linux exit codes have eight bits, a FILETIME tick is a whole number of
nanoseconds, the name a peer is bound to fits into `sun_path`); TLC evaluates
each of them in the passing run of its module. Three narrow what a caller may
give, and are choices of the model rather than guarantees of the code: the
buffers of `FileHandles`, and those `MockNet` reads into, are not empty (a zero
that such a call returns means nothing), the paths of `Directories` have one
name or two, and timeouts of `WaitAny` end within `MaxTime`. Elsewhere, where
the code does not keep its promise for some input, the property says so itself.
Where a theorem is about one arm of the code, its hypothesis names the arm.

**LinuxProcessProofs.** `IndInv` adds to the type invariant that incarnation
numbers are given once (`Incarnations`), that a thread is blocked only while
nothing is stashed, that an unreaped handle's pid names its child
(`UnreapedIsTheChild`), and that a zombie's status word encodes its fate
(`FateIsInTheTable`). None of these is inductive alone: that a reaped status is
true needs that the pid still names the child, which needs that nobody else
reaps it, which needs that numbers are not reused. The theorem about `kill_tree`
needs `GroupInv` in addition (one founder for each group number) and assumes
that no caller joins group 0. The refinement of `ChildContract`
(`KeepsTheContract`) needs one more fact, that a wait that consumed its handle
has told a status (`WaitedWasTold`): a spawn, the end of a child, a poll or wait
that reports it and a drop are the contract's steps, and whatever else the
processes, other callers and the system do is a stutter.

**UnixListenProofs.** `IndInv` says that inodes are numbered in order and that a
caller past its chmod that still owns the path has narrowed it. For callers that
take turns (`Serial`), `TurnsInv` says who owns the path at each step, and
`TurnsAreSafe` is the counterpart of finding 2: without overlap, and where a full
backlog is not refused, nobody loses a live listener. `LonelyCallersSucceed` (the POSIX backends, where one probe must
do) needs `LonelyInv`: a caller that has met no rival is alone in its call, the
path is taken at its probe and its chmod and free at its second bind, and
whatever listens belongs to a caller that serves; so neither `AddrInUse` nor
`NotFound` can be its answer.

**FileProofs**, `write_atomic`. `IInv`: call numbers, and with them temporary
names, are unique among running calls (`Numbered`); a call's temporary file is
its own and is completely synced when it is renamed (`Owned`); each directory
that a power failure may bring back leads to a completely synced file (`Kept`);
and each of them leads to a content at least as new as the one acknowledged last
(`Promised`). `NoLitter` comes from `Tended`: a temporary file is a running call's, or
what a failed rename left, complete and synced. The refinement is proved from it: only the rename publishes, only
the sync of the directory commits, everything else is a stutter.

**FileProofs**, handles. `HandleInv`: a description is opened once, and whoever
asked to append does (`Opened`); bytes are numbered as they are written and none
is in the file twice (`Fresh`); what a description has read is not in front of
its position (`Consumed`, from which `ReadOnce`); and while writers are orderly,
that is, one description writes or all append, the file is what was written, in
that order, and a writer that does not append is at its end (`InOrder`, from
which `NoClobber`): a short write moves the position by what it wrote, so that
the next one meets the end of the file again. Lemmas about sequences say what
overwriting the middle of a sequence does to its length, its elements and its
prefixes.

**WindowsProcessProofs.** `IInv` follows a spawn through its system calls: which
pipe ends are open and inheritable at each (`Pipes`), who holds the process and
the job (`Ownership`, `Adopted`), that a child is suspended until it is in its
job (`Suspended`), that a group's job kills on close before it has a member
(`JobsAreArmed`), that nothing of a failed spawn runs (`NothingRuns`), and that
pids and stashed statuses are a child's own (`PidsAreUnique`, `StashIsTrue`).
`GroupsHold`, `SpawnIsClean`, the action property `DetachedOutlives` and the
refinement of `ChildContract` follow from it, in either build. That no process at
all holds the parent's end of a pipe is `TrackWNeverLeaks`, whose hypothesis is
the build with that arm of `make_pipe`; finding 7 is that the other arm, the
default, does not keep it.

**DirectoriesProofs.** `DirInv`: entries lead to objects and none of them
outside, and what exists and was not removed has a name (`Rooted`); no
capability is for the outside where the kernel has `openat2` (`Inside`); what a
call in flight holds still means what its next step takes it for (`CallsMean`,
one case for each call of several steps); only Windows marks for deletion.
`LookInv` adds what links and modes were given and that answers are of what the
call saw. The changes of the tree (a new object, an unlink, a move) are lemmas
of their own, each used by the actions of all four backends. The conversions of
times and paths are proved for every instant and for paths of any length; the
last slash and the last solid character of a path are found with the
least-element theorem of a well-founded order, not by induction.

**ProgramProofs.** rpar's `ParInv`: the two vectors are equal and hold a command
once (`Aligned`); a command that was spawned is in them, or was reaped and
reported (`Accounted`); the child that `wait_any` named has ended (`Rounds`); a
failure is remembered (`Failures`). `Aligned` is the heart of it: a `remove` in
one vector beside a `swap_remove` in the other would print one command's status
under another's name. rtee's `TeeInv` counts bytes: what the command wrote is in
the pipe, in the buffer or in both copies, and the exit code is computed after
the end of the pipe. A signal's code is never zero, and the command's own is cut
to eight bits (`ExitCodes`). `PtyInv`: one party closes the pseudo console
(`OneCloser`), output that was written is still to be read or was read
(`NoByteIsLost`), nothing follows the end (`EndIsFinal`).

**ProgramProofs**, `wait_any`. `WaitInv` bounds the moment the call is blocked
until, by the timeout and by the tick (`Waits`), and says of a child that has
ended that it is still to be asked in this round, or ended too late for it
(`Seen`); `Collected` says that the children the fast pass has gone by are not
reaped. `NoneMeansTimeout` assumes that every timeout fits into one system call.

**SessionProofs.** `TermInv`: consoles are numbered as they are made, and while
a call is between its read of the modes and its write nothing is saved
(`Saves`), so what `leave_raw` writes back is what `enter_raw` found and not a
state in between. `SecretInv`: a serial is given out once, every message on the
wire or in the buffer that bears the awaited serial answers the call being made,
and what a return on its way says is so or was since the operation began
(`Sound`); how far an operation comes depends on what it was told (`Staged`).

**NetworkProofs**, the mock. `MockInv`: a connection that was not accepted is in
the queue of a listener that is still to be dropped (`QueuedAreWaiting`, from
which `NoOrphans`); a connect between its lookup and its send holds the sender
of a listener of streams, dropped or not (`DialsAreStreams`); and what was sent
to an end has been got, is the rest of a chunk, or is in the channel, in this
order and each byte once (`StreamsFlow`). The last one is what the refinement
of `ByteStream` needs: that a read returns the next bytes, and that it reports
the end only when sender, channel and rest are gone. Each action is shown to be
a step or a stutter of either direction of each connection.

**NetworkProofs**, the sockets. `SocketInv` says where in its script every
operation is (`CallsAreStaged`): about to make its socket (`Acquiring`), with a
socket of its own and a suffix of the script left (`Creating`), before or after
the system's accept (`Accepting`, `Accepted`), or in a read. A suffix is
described by what it begins with (`BindLeft`, `CloexecLeft`, ...), so that the
same facts serve the scripts of all four arms. With it come that a socket is
made by one operation (`OneCallEach`), that its name in the kernel is its address
converted and its timeout the one asked for converted (`SocketsAreGood`), and
that none is without an owner. Leaks and inheritance (`NoSocketLeaks`,
`SocketsStayHome`) are part of the invariant, since an unmarked descriptor on the
BSDs is harmless only while the call that marks it is still ahead. What the last
operation returned is kept honest beside it (`HonestResult`): each error table
is shown to give the portable conditions their kinds, and each conversion to be
undone by its counterpart, `sun_path` for paths of any length, with and without
the NUL counted. TLC checked both on all states of `network` before they were
proved. `ListenersAreAlone` adds that a bound address is bound once (`SoleNames`)
on the POSIX backends, the counterpart of finding 5. `SocketAssumption` and
`MockAssumption` give the constants their types; of the sockets it says besides
that the name a peer is bound to fits into `sun_path` and has no NUL in it, which
the kernel sees to, and of the mock that a read's buffer is not empty and that a
Unix address is a path, never a request for one. Writes may be empty: `FalseEnd`
is then a step of its own beside those of `ByteStream`, which loses no byte.

The proofs changed the model in one point: in `Script` and `unix_addr` the arms
of a CASE overlapped, which TLC settles by their order and the logic does not;
they are now disjoint, with the same values.

Only model-checked:

- liveness: `ProgramsEnd`, `WaitsEnd`, `ReadsEnd`, and `ReadEnds` of `Sockets`;
  they need fairness, which the prover does not treat;
- `EncodingsSurvive`: `WinArgv` and `DBusWire` are recursive, and that a parser
  undoes an encoder for every input takes an induction over data;
- what the violation runs show, by a counterexample each.

## 6. What is not modelled, and the plan

The parts with status `not_modelled` or `partly` in `PROJECT.json`, with the
reason there. What may still be added, in order:

1. `MockProcess`: the scripted child against `ChildContract`.
2. The console handlers of Windows beside the signal slot of Linux.

Left out for good: tables of error codes that no property tells apart, reading
certificate stores, identity queries, sandbox and random bytes, TUN devices (one
system call each, without state), output formats, the text and file utilities'
option parsing, `rterm`, and the parity suites and fuzz targets.
