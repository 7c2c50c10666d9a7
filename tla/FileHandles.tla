---------------------------- MODULE FileHandles ----------------------------
(***************************************************************************)
(* The File of platform::fs: handles on one file or one pipe, opened with  *)
(* different options and cloned, on the Linux, Windows and mock backends.  *)
(* A clone shares its original's open-file description, and with it the    *)
(* position.  Every byte written has a number of its own.                  *)
(***************************************************************************)
EXTENDS Integers, Sequences, FiniteSets

CONSTANTS
    Systems,    \* of "linux", "windows", "trackw", "mock"
    OpenModes,  \* the OpenOptions of open
    Handles,    \* bound: handles ever made
    Lengths,    \* the lengths of buffers
    MaxU32,     \* the largest length ReadFile and WriteFile take
    MaxBytes    \* bound: bytes ever written

\* What may be assumed of the constants: handles are numbered, and no buffer is
\* empty, as no length of ReadFile and WriteFile is.
HandleParameters ==
    /\ IsFiniteSet(Handles) /\ Handles = 1..Cardinality(Handles)
    /\ Systems \subseteq {"linux", "windows", "trackw", "mock"}
    /\ OpenModes \subseteq [read : BOOLEAN, write : BOOLEAN, append : BOOLEAN, truncate : BOOLEAN]
    /\ Lengths \subseteq Nat \ {0}
    /\ MaxU32 \in Nat \ {0}
ASSUME HandleAssumption == HandleParameters

VARIABLES
    system, pipe,
    data,    \* the bytes in the file, or waiting in the pipe
    desc,    \* descriptions: position, access; one per open
    handle,  \* handle -> its description, 0 before, -1 once dropped
    bytes,   \* how many bytes have been written
    wrote,   \* description -> the bytes written through it
    got,     \* description -> the bytes read through it
    cleared, \* a truncating open came after a write
    result   \* of the last read or write of a non-empty buffer

fvars == <<system, pipe, data, desc, handle, bytes, wrote, got, cleared, result>>

Windows == system \in {"windows", "trackw"}
NoDesc == [open |-> FALSE, pos |-> 0, readable |-> FALSE, writable |-> FALSE, append |-> FALSE,
           asked |-> FALSE]  \* append: what it does, asked: what it was opened for
Lesser(x, y) == IF x < y THEN x ELSE y

-----------------------------------------------------------------------------
(* What each backend grants                                                *)

linux_grants(o) == [NoDesc EXCEPT !.open = TRUE, !.readable = o.read,
                                  !.writable = o.write \/ o.append, !.append = o.append]

\* FILE_GENERIC_WRITE with its FILE_WRITE_DATA, although the open is for append.
windows_grantsAnywhere(o) == [NoDesc EXCEPT !.open = TRUE, !.readable = o.read, !.writable = o.write \/ o.append]
\* Without FILE_WRITE_DATA, what is left of write access appends.
windows_grants(o) == [NoDesc EXCEPT !.open = TRUE, !.readable = o.read,
                                    !.writable = o.write \/ o.append, !.append = o.append]
\* No position for writing at all: a mock write always appends.
mock_grants(o) == [NoDesc EXCEPT !.open = TRUE, !.readable = o.read,
                                 !.writable = o.write \/ o.append, !.append = TRUE]

NewHandle(h) == handle[h] = 0 /\ \A k \in 1..(h - 1) : handle[k] # 0

open_file(h, o) ==
    /\ ~pipe /\ NewHandle(h)
    /\ o.read \/ o.write \/ o.append
    /\ LET granted == IF system = "linux" THEN linux_grants(o)
                      ELSE IF Windows THEN windows_grants(o) ELSE mock_grants(o)
       IN desc' = [desc EXCEPT ![h] = [granted EXCEPT !.asked = o.append]]
    /\ handle' = [handle EXCEPT ![h] = h]
    /\ data' = IF o.truncate THEN <<>> ELSE data
    /\ cleared' = (cleared \/ (o.truncate /\ bytes > 0))
    /\ UNCHANGED <<system, pipe, bytes, wrote, got, result>>

\* A clone is the same open file, and has one position with it.
dup_cloexec(h) == handle[h]
duplicate(h) == handle[h]
mock_try_clone(h) == handle[h]

try_clone(h, c) ==
    /\ handle[h] > 0 /\ NewHandle(c)
    /\ handle' = [handle EXCEPT ![c] = IF system = "linux" THEN dup_cloexec(h)
                                       ELSE IF Windows THEN duplicate(h) ELSE mock_try_clone(h)]
    /\ UNCHANGED <<system, pipe, data, desc, bytes, wrote, got, cleared, result>>

\* The description goes with its last handle.
drop(h) ==
    /\ handle[h] > 0
    /\ handle' = [handle EXCEPT ![h] = -1]
    /\ desc' = [desc EXCEPT ![handle[h]].open = \E k \in Handles : k # h /\ handle[k] = handle[h]]
    /\ UNCHANGED <<system, pipe, data, bytes, wrote, got, cleared, result>>

-----------------------------------------------------------------------------
(* Reading and writing                                                     *)

\* How much of a buffer one call is given.
linux_len(n) == n
windows_len(n) == Lesser(n, MaxU32)
trackw_len(n) == Lesser(n, MaxU32)
Given(n) == IF system = "windows" THEN windows_len(n)
            ELSE IF system = "trackw" THEN trackw_len(n) ELSE linux_len(n)

Writers == {d \in Handles : desc[d].open /\ desc[d].writable}

\* ERROR_BROKEN_PIPE is the end of a pipe.
windows_eof(code) == IF code = "BROKEN_PIPE" THEN "end" ELSE "error"
trackw_eof(code) == IF code = "BROKEN_PIPE" THEN "end" ELSE "error"
\* What a read of a pipe without writers returns.
AtEnd == IF system = "windows" THEN windows_eof("BROKEN_PIPE")
         ELSE IF system = "trackw" THEN trackw_eof("BROKEN_PIPE") ELSE "end"

read_file(h, n) ==
    LET d == handle[h]
        rest == SubSeq(data, desc[d].pos + 1, Len(data))
        k == Lesser(Given(n), Len(rest))
    IN /\ got' = [got EXCEPT ![d] = @ \o SubSeq(rest, 1, k)]
       /\ desc' = [desc EXCEPT ![d].pos = @ + k]
       /\ result' = IF k > 0 THEN "some" ELSE IF rest = <<>> THEN "end" ELSE "none"
       /\ UNCHANGED data

\* Blocks while there is nothing to read and somebody to write.
read_pipe(h, n) ==
    LET d == handle[h]
        k == Lesser(Given(n), Len(data))
    IN /\ data # <<>> \/ Writers = {}
       /\ got' = [got EXCEPT ![d] = @ \o SubSeq(data, 1, k)]
       /\ data' = SubSeq(data, k + 1, Len(data))
       /\ result' = IF k > 0 THEN "some" ELSE IF data = <<>> THEN AtEnd ELSE "none"
       /\ UNCHANGED desc

read(h, n) ==
    /\ handle[h] > 0 /\ desc[handle[h]].readable
    /\ IF pipe THEN read_pipe(h, n) ELSE read_file(h, n)
    /\ UNCHANGED <<system, pipe, handle, bytes, wrote, cleared>>

\* The mock moves no position; O_APPEND leaves it behind what was written.
write(h, n) ==
    /\ handle[h] > 0 /\ desc[handle[h]].writable /\ bytes + n <= MaxBytes
    /\ LET d == handle[h]
           k == Given(n)
           new == [i \in 1..k |-> bytes + i]
           pos == IF pipe \/ desc[d].append THEN Len(data) ELSE desc[d].pos
       IN
       /\ data' = SubSeq(data, 1, Lesser(pos, Len(data)))
                  \o [i \in 1..(pos - Lesser(pos, Len(data))) |-> 0]
                  \o new \o SubSeq(data, pos + k + 1, Len(data))
       /\ desc' = IF pipe \/ system = "mock" THEN desc ELSE [desc EXCEPT ![d].pos = pos + k]
       /\ bytes' = bytes + k /\ wrote' = [wrote EXCEPT ![d] = @ \o new]
       /\ result' = IF k > 0 THEN "some" ELSE "none"
       /\ UNCHANGED <<system, pipe, handle, got, cleared>>

-----------------------------------------------------------------------------
\* A pipe starts with its two ends, a file with nobody.
FInit ==
    /\ system \in Systems /\ pipe \in (IF system = "mock" THEN {FALSE} ELSE BOOLEAN)
    /\ data = <<>> /\ bytes = 0 /\ cleared = FALSE /\ result = "some"
    /\ desc = [d \in Handles |->
                 IF pipe /\ d = 1 THEN [NoDesc EXCEPT !.open = TRUE, !.readable = TRUE]
                 ELSE IF pipe /\ d = 2 THEN [NoDesc EXCEPT !.open = TRUE, !.writable = TRUE] ELSE NoDesc]
    /\ handle = [h \in Handles |-> IF pipe /\ h \in {1, 2} THEN h ELSE 0]
    /\ wrote = [d \in Handles |-> <<>>] /\ got = [d \in Handles |-> <<>>]

FNext ==
    \E h \in Handles :
        \/ \E o \in OpenModes : open_file(h, o)
        \/ \E c \in Handles : try_clone(h, c)
        \/ drop(h)
        \/ \E n \in Lengths : read(h, n) \/ write(h, n)

FSpec == FInit /\ [][FNext]_fvars

-----------------------------------------------------------------------------
(* Properties                                                              *)

Everything == {i \in 1..bytes : \E k \in DOMAIN data : data[k] = i}

\* Nothing overwrites what it must not: while all writers opened the file to
\* append, or all write through clones of one handle, every byte written to
\* the file stays in it, in the order of the writes, unless an open truncated
\* it since.
NoClobber ==
    LET writers == {d \in Handles : wrote[d] # <<>>} IN
    ~pipe /\ ~cleared /\ (Cardinality(writers) <= 1 \/ \A d \in writers : desc[d].asked)
        => /\ Everything = 1..bytes
           /\ \A i, j \in DOMAIN data : i < j /\ data[i] # 0 => data[i] < data[j]

\* Clones share the position: through a handle and its clones no byte is read
\* twice (a zero is a hole another handle's truncation left).
ReadOnce ==
    \A d \in Handles : \A i, j \in DOMAIN got[d] : i < j /\ got[d][i] # 0 => got[d][i] # got[d][j]

\* A read or write with a buffer that is not empty moves at least a byte, or
\* the reader is at the end, which a pipe without writers is too; never zero
\* for a length that wrapped, never an error for a closed pipe.
MovesOrEnds == result \in {"some", "end"}

\* Appending writers, and clones of one writer, overwrite nothing; a handle and
\* its clones read no byte twice; a read or a write moves a byte, or is at the
\* end (File's read, write and try_clone, OpenOptions' append).
BytesAreKept == NoClobber /\ ReadOnce /\ MovesOrEnds
=============================================================================
