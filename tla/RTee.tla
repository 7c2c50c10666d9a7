-------------------------------- MODULE RTee --------------------------------
(***************************************************************************)
(* rtee (coreutils): runs a command with its standard output in a pipe,    *)
(* copies every chunk it reads to its own standard output and to a file,   *)
(* and then waits.  The command and the pipe between the two run beside    *)
(* it: a write to a full pipe blocks, a read from an empty one too, until  *)
(* the writer has ended.  Bytes are counted, since a pipe keeps their      *)
(* order.                                                                  *)
(***************************************************************************)
EXTENDS Integers

CONSTANTS
    Bytes,        \* the command writes at most so many
    Capacity,     \* of the pipe
    Chunk,        \* of the buffer
    Codes         \* exit codes the command may end with

\* Sizes are numbers, and exit codes what the system reports: eight bits of
\* WEXITSTATUS, and on Windows any 32.
TeeParameters ==
    /\ Bytes \in Nat /\ Capacity \in Nat /\ Chunk \in Nat
    /\ Codes \subseteq Int
ASSUME TeeAssumption == TeeParameters

VARIABLES
    at,       \* the step rtee is at
    got,      \* n, the bytes of buf in the current round
    left,     \* the part of them still to go to the file
    broken,   \* whoever reads our standard output has gone away (history)
    out,      \* bytes standard output has taken (its own buffer included)
    file,     \* bytes written to the file
    exit,     \* rtee's exit code
    total,    \* what the command is going to write
    wrote,    \* what it has written
    pipe,     \* what of it is in the pipe
    status    \* none before the spawn, running, or how the command ended

teevars == <<at, got, left, broken, out, file, exit, total, wrote, pipe, status>>
copying == <<got, left, broken, out, file>>
command == <<total, wrote, pipe, status>>

Smaller(a, b) == IF a < b THEN a ELSE b
SIGKILL == 9
Endings == [kind : {"Code"}, n : Codes] \cup [kind : {"Signaled"}, n : {SIGKILL}]
None == [kind |-> "none", n |-> 0]
Running == [kind |-> "running", n |-> 0]
Ended == status \in Endings

-----------------------------------------------------------------------------
\* What rtee makes of a decoded ExitStatus.
exit_code(s) ==
    IF s.kind = "Code" THEN s.n % 256 ELSE (128 + (s.n % 128)) % 256

Leave(c) == at' = "done" /\ exit' = c

\* No arguments, no working directory, no file, or no such command.
Refuse ==
    /\ at = "start"
    /\ \E c \in {1, 2, 127} : Leave(c)
    /\ UNCHANGED copying /\ UNCHANGED command

SpawnCommand ==
    /\ at = "start"
    /\ at' = "read"
    /\ status' = Running
    /\ UNCHANGED copying /\ UNCHANGED <<exit, total, wrote, pipe>>

\* A loop that leaves as soon as the command has ended.
ReadUntilExit ==
    /\ at = "read"
    /\ \/ /\ ~Ended
          /\ pipe > 0
          /\ \E n \in 1..Smaller(Chunk, pipe) :
                got' = n /\ left' = n /\ pipe' = pipe - n
          /\ at' = "stdout"
       \/ /\ Ended
          /\ at' = "wait"
          /\ UNCHANGED <<got, left, pipe>>
    /\ UNCHANGED <<broken, out, file, exit, total, wrote, status>>

\* Some of what is in the pipe, or its end once the writer has ended.
Read ==
    /\ at = "read"
    /\ \/ /\ pipe > 0
          /\ \E n \in 1..Smaller(Chunk, pipe) :
                got' = n /\ left' = n /\ pipe' = pipe - n
          /\ at' = "stdout"
       \/ /\ pipe = 0 /\ Ended
          /\ at' = "wait"
          /\ UNCHANGED <<got, left, pipe>>
    /\ UNCHANGED <<broken, out, file, exit, total, wrote, status>>

ReadFails ==
    /\ at = "read"
    /\ Leave(1)
    /\ UNCHANGED copying /\ UNCHANGED command

WriteStdout ==
    /\ at = "stdout"
    /\ out' = out + got
    /\ at' = "file"
    /\ UNCHANGED <<got, left, broken, file, exit>> /\ UNCHANGED command

\* The loop is left, the pipe is not: it is dropped at the end of main.
StdoutFails ==
    /\ at = "stdout"
    /\ broken' = TRUE
    /\ \E n \in 0..(got - 1) : out' = out + n
    /\ at' = "wait"
    /\ UNCHANGED <<got, left, file, exit>> /\ UNCHANGED command

\* One round of the loop; the last one goes back to reading.
write_all ==
    /\ at = "file"
    /\ \E n \in 1..left :
          /\ file' = file + n
          /\ left' = left - n
          /\ at' = IF left = n THEN "read" ELSE at
    /\ UNCHANGED <<got, broken, out, exit>> /\ UNCHANGED command

FileFails ==
    /\ at = "file"
    /\ Leave(1)
    /\ UNCHANGED copying /\ UNCHANGED command

wait ==
    /\ at = "wait"
    /\ Ended
    /\ Leave(exit_code(status))
    /\ UNCHANGED copying /\ UNCHANGED command

\* wait may fail as well, whatever became of the command.
WaitFails ==
    /\ at = "wait"
    /\ Leave(1)
    /\ UNCHANGED copying /\ UNCHANGED command

-----------------------------------------------------------------------------
(* The command                                                             *)

\* Blocks while the pipe is full and rtee holds its end.
CommandWrites ==
    /\ status = Running /\ at # "done"
    /\ \E n \in 1..Smaller(Capacity - pipe, total - wrote) :
          wrote' = wrote + n /\ pipe' = pipe + n
    /\ UNCHANGED <<at, exit, total, status>> /\ UNCHANGED copying

CommandEnds ==
    /\ status = Running
    /\ wrote = total
    /\ \E c \in Codes : status' = [kind |-> "Code", n |-> c]
    /\ UNCHANGED <<at, exit, total, wrote, pipe>> /\ UNCHANGED copying

\* By a signal: from outside, or because rtee is gone and nobody reads.
CommandKilled ==
    /\ status = Running
    /\ status' = [kind |-> "Signaled", n |-> SIGKILL]
    /\ UNCHANGED <<at, exit, total, wrote, pipe>> /\ UNCHANGED copying

-----------------------------------------------------------------------------
TeeInit ==
    /\ at = "start"
    /\ broken = FALSE
    /\ got = 0 /\ left = 0 /\ out = 0 /\ file = 0
    /\ exit = 0
    /\ total \in 0..Bytes
    /\ wrote = 0 /\ pipe = 0
    /\ status = None

Tee == \/ Refuse \/ SpawnCommand \/ Read \/ ReadFails \/ WriteStdout \/ StdoutFails
       \/ write_all \/ FileFails \/ wait \/ WaitFails

TheCommand == CommandWrites \/ CommandEnds \/ CommandKilled

TeeNext == Tee \/ TheCommand

\* rtee's own steps are taken when they can be, errors apart; the command
\* writes what it has and ends, but nobody need ever kill it.
Fairness ==
    /\ WF_teevars(SpawnCommand) /\ WF_teevars(Read) /\ WF_teevars(WriteStdout)
    /\ WF_teevars(write_all) /\ WF_teevars(wait)
    /\ WF_teevars(CommandWrites) /\ WF_teevars(CommandEnds)

TeeSpec == TeeInit /\ [][TeeNext]_teevars /\ Fairness

-----------------------------------------------------------------------------
(* Properties                                                              *)

\* Every variable has its type: the buffer, the pipe and the exit code never
\* run over.
TeeTypeOK ==
    /\ at \in {"start", "read", "stdout", "file", "wait", "done"}
    /\ broken \in BOOLEAN
    /\ got \in 0..Chunk /\ left \in 0..got
    /\ out \in 0..Bytes /\ file \in 0..Bytes
    /\ exit \in 0..255
    /\ total \in 0..Bytes /\ wrote \in 0..total /\ pipe \in 0..Capacity
    /\ status \in {None, Running} \cup Endings

\* "Copying every byte to both our own stdout and file": between two rounds
\* both have exactly what was taken out of the pipe, however short the
\* writes.
CopiesInStep == at = "read" => out = wrote - pipe /\ file = wrote - pipe

\* After an exit code of zero the command has exited by itself, with zero if its
\* code has eight bits: a larger one of Windows is cut to them and passes for
\* zero when they are, 256 for one.  By then, unless nobody is left to read our
\* standard output, all its output is at both places.
ZeroMeansComplete ==
    at = "done" /\ exit = 0 =>
        /\ status \in Endings /\ status.kind = "Code"
        /\ status.n \in 0..255 => status.n = 0
        /\ broken \/ (out = total /\ file = total)

\* The copies and the exit code are true of the command, and nothing runs over.
RTeeIsHonest == TeeTypeOK /\ CopiesInStep /\ ZeroMeansComplete

\* As long as our own standard output is read, rtee ends: the pipe is
\* emptied while the command runs.
Terminates == <>(at = "done" \/ broken)

\* "The ordering that cannot deadlock regardless of how much the child
\* writes", as the comment has it: rtee ends.
CannotDeadlock == <>(at = "done")
=============================================================================
