----------------------------- MODULE WriteAtomic -----------------------------
(***************************************************************************)
(* Dir::write_atomic (platform/src/fs.rs): threads of several processes    *)
(* write the same name of one directory, each through a temporary file of  *)
(* its own that it writes, syncs and renames over the name.  Every         *)
(* operation of the Dir and File traits is one step, any of them may fail, *)
(* a process may die and the power may fail between any two of them.       *)
(*                                                                         *)
(* The disk is external.  A file's bytes are safe once they were fsynced;  *)
(* until the directory is fsynced, a power failure brings back any of the  *)
(* states it has had since the last time.  A process is known by its pid:  *)
(* one that dies may be followed by another with the same pid.             *)
(***************************************************************************)
EXTENDS Naturals

CONSTANTS
    Process,    \* the pids of the processes that write
    Thread,     \* their threads
    Of,         \* the process of each thread
    Bytes,      \* contents.len()
    Existed,    \* TRUE: the name exists before the first call
    InThisDir,  \* TRUE: rel is a plain name; FALSE: it leads into a subdirectory
    MaxCalls,   \* bound: the calls of one process
    MaxFiles    \* bound: the files ever created

ASSUME ThreadAssumption == Of \in [Thread -> Process]
ASSUME SizeAssumption == Bytes \in Nat /\ MaxCalls \in Nat /\ MaxFiles \in Nat \ {0}
ASSUME FlagAssumption == {Existed, InThisDir} \subseteq BOOLEAN

VARIABLES
    file,      \* every file ever created: bytes written, bytes safe, and its
               \* place in the order of publication (history)
    made,      \* how many there are
    dir,       \* the directory: the file behind the name, and behind each
               \* temporary name; 0 when there is none
    disk,      \* the directories a power failure may bring back
    COUNTER,   \* by process: the static counter
    pc, n, f,  \* by thread: the next step, its number, its open file
    published, \* how many files were renamed over the name (history)
    acked,     \* the last of them a caller was told is done (history)
    spoilt     \* something died or an attempted clean-up failed (history)

vars == <<file, made, dir, disk, COUNTER, pc, n, f, published, acked, spoilt>>

Files == 1..MaxFiles
Number == 0..MaxCalls
TmpName == Process \X Number
Absent == [x \in TmpName |-> 0]
NoFile == [len |-> 0, synced |-> 0, nth |-> 0]
Steps == {"idle", "open", "write", "remove", "rename", "sync_dir"}

-----------------------------------------------------------------------------
(* Names and the directory                                                 *)

\* The temporary name of the call that thread t is in: pid and counter.
tmp_name(t) == <<Of[t], n[t]>>

\* The call returns: its locals are gone.
Returns(t) ==
    /\ pc' = [pc EXCEPT ![t] = "idle"]
    /\ n' = [n EXCEPT ![t] = 0]
    /\ f' = [f EXCEPT ![t] = 0]

\* The directory changes; until it is synced the disk may hold either.
Becomes(d) == dir' = d /\ disk' = disk \union {d}

-----------------------------------------------------------------------------
(* write_atomic                                                            *)

write_atomic(t) ==
    /\ pc[t] = "idle"
    /\ COUNTER[Of[t]] < MaxCalls
    /\ n' = [n EXCEPT ![t] = COUNTER[Of[t]]]
    /\ COUNTER' = [COUNTER EXCEPT ![Of[t]] = @ + 1]
    /\ pc' = [pc EXCEPT ![t] = "open"]
    /\ UNCHANGED <<file, made, dir, disk, f, published, acked, spoilt>>

\* create_new: the name must be free.
Open(t) ==
    /\ pc[t] = "open"
    /\ dir.tmp[tmp_name(t)] = 0
    /\ made < MaxFiles
    /\ made' = made + 1
    /\ file' = [file EXCEPT ![made + 1] = NoFile]
    /\ Becomes([dir EXCEPT !.tmp[tmp_name(t)] = made + 1])
    /\ f' = [f EXCEPT ![t] = made + 1]
    /\ pc' = [pc EXCEPT ![t] = "write"]
    /\ UNCHANGED <<COUNTER, n, published, acked, spoilt>>

\* A single write, short or not, taken for all of it.
WriteOnce(t) ==
    /\ pc[t] = "write"
    /\ file[f[t]].len = 0 /\ Bytes > 0
    /\ \E k \in 1..Bytes :
          file' = [file EXCEPT ![f[t]].len = k, ![f[t]].synced = k]
    /\ pc' = [pc EXCEPT ![t] = "rename"]
    /\ UNCHANGED <<made, dir, disk, COUNTER, n, f, published, acked, spoilt>>

\* One round of the loop: a write may be short.
Write(t) ==
    /\ pc[t] = "write"
    /\ file[f[t]].len < Bytes
    /\ \E k \in 1..(Bytes - file[f[t]].len) :
          file' = [file EXCEPT ![f[t]].len = @ + k]
    /\ UNCHANGED <<made, dir, disk, COUNTER, pc, n, f, published, acked, spoilt>>

\* A writer that leaves out the sync_all.
SyncNothing(t) ==
    /\ pc[t] = "write"
    /\ file[f[t]].len = Bytes
    /\ pc' = [pc EXCEPT ![t] = "rename"]
    /\ UNCHANGED <<file, made, dir, disk, COUNTER, n, f, published, acked, spoilt>>

\* The loop is over; the bytes are made safe and the file is closed.
Sync(t) ==
    /\ pc[t] = "write"
    /\ file[f[t]].len = Bytes
    /\ file' = [file EXCEPT ![f[t]].synced = Bytes]
    /\ pc' = [pc EXCEPT ![t] = "rename"]
    /\ UNCHANGED <<made, dir, disk, COUNTER, n, f, published, acked, spoilt>>

\* A failure that is returned at once, without the clean-up.
FailsDirty(t) ==
    /\ pc[t] \in {"open", "write"}
    /\ Returns(t)
    /\ UNCHANGED <<file, made, dir, disk, COUNTER, published, acked, spoilt>>

\* The open (also when the name is taken), a write, a write of nothing or
\* the sync fails.
Fails(t) ==
    /\ pc[t] \in {"open", "write"}
    /\ pc' = [pc EXCEPT ![t] = "remove"]
    /\ UNCHANGED <<file, made, dir, disk, COUNTER, n, f, published, acked, spoilt>>

\* The clean-up goes by name.
Remove(t) ==
    /\ pc[t] = "remove"
    /\ Becomes([dir EXCEPT !.tmp[tmp_name(t)] = 0])
    /\ Returns(t)
    /\ UNCHANGED <<file, made, COUNTER, published, acked, spoilt>>

\* Its own failure is ignored.
RemoveFails(t) ==
    /\ pc[t] = "remove"
    /\ Returns(t)
    /\ spoilt' = TRUE
    /\ UNCHANGED <<file, made, dir, disk, COUNTER, published, acked>>

Rename(t) ==
    /\ pc[t] = "rename"
    /\ dir.tmp[tmp_name(t)] # 0
    /\ Becomes([rel |-> dir.tmp[tmp_name(t)],
                tmp |-> [dir.tmp EXCEPT ![tmp_name(t)] = 0]])
    /\ published' = published + 1
    /\ file' = [file EXCEPT ![dir.tmp[tmp_name(t)]].nth = published + 1]
    /\ pc' = [pc EXCEPT ![t] = "sync_dir"]
    /\ UNCHANGED <<made, COUNTER, n, f, acked, spoilt>>

\* A rename that fails is returned as it is: no clean-up is attempted and the
\* temporary file stays.
RenameFails(t) ==
    /\ pc[t] = "rename"
    /\ Returns(t)
    /\ UNCHANGED <<file, made, dir, disk, COUNTER, published, acked, spoilt>>

\* The caller is told that all is well before the directory is synced.
SyncDirLater(t) ==
    /\ pc[t] = "sync_dir"
    /\ Returns(t)
    /\ acked' = IF file[f[t]].nth > acked THEN file[f[t]].nth ELSE acked
    /\ UNCHANGED <<file, made, dir, disk, COUNTER, published, spoilt>>

\* fsync of this Dir's own directory: the entries of a subdirectory that rel
\* leads into are not among what it makes safe.
sync_dir(t) ==
    /\ pc[t] = "sync_dir"
    /\ disk' = IF InThisDir THEN {dir} ELSE disk
    /\ Returns(t)
    /\ acked' = IF file[f[t]].nth > acked THEN file[f[t]].nth ELSE acked
    /\ UNCHANGED <<file, made, dir, COUNTER, published, spoilt>>

\* The error is returned although the new content is in place.
SyncDirFails(t) ==
    /\ pc[t] = "sync_dir"
    /\ Returns(t)
    /\ UNCHANGED <<file, made, dir, disk, COUNTER, published, acked, spoilt>>

-----------------------------------------------------------------------------
(* What happens to processes and disks                                     *)

\* A process dies; another one with its pid starts counting afresh.
Die(p) ==
    /\ pc' = [t \in Thread |-> IF Of[t] = p THEN "idle" ELSE pc[t]]
    /\ n' = [t \in Thread |-> IF Of[t] = p THEN 0 ELSE n[t]]
    /\ f' = [t \in Thread |-> IF Of[t] = p THEN 0 ELSE f[t]]
    /\ COUNTER' = [COUNTER EXCEPT ![p] = 0]
    /\ spoilt' = TRUE
    /\ UNCHANGED <<file, made, dir, disk, published, acked>>

\* Every process dies, the directory is one of those the disk may hold, and
\* of each file some of the bytes that were not safe are lost.
PowerLoss ==
    /\ dir' \in disk
    /\ disk' = {dir'}
    /\ \E left \in [Files -> 0..Bytes] :
          /\ \A i \in Files : left[i] \in file[i].synced..file[i].len
          /\ file' = [i \in Files |-> [len |-> left[i], synced |-> left[i],
                                       nth |-> file[i].nth]]
    /\ pc' = [t \in Thread |-> "idle"]
    /\ n' = [t \in Thread |-> 0]
    /\ f' = [t \in Thread |-> 0]
    /\ COUNTER' = [p \in Process |-> 0]
    /\ spoilt' = TRUE
    /\ UNCHANGED <<made, published, acked>>

-----------------------------------------------------------------------------
Init ==
    /\ file = [i \in Files |-> IF i = 1 /\ Existed
                               THEN [len |-> Bytes, synced |-> Bytes, nth |-> 0]
                               ELSE NoFile]
    /\ made = IF Existed THEN 1 ELSE 0
    /\ dir = [rel |-> made, tmp |-> Absent]
    /\ disk = {dir}
    /\ COUNTER = [p \in Process |-> 0]
    /\ pc = [t \in Thread |-> "idle"]
    /\ n = [t \in Thread |-> 0]
    /\ f = [t \in Thread |-> 0]
    /\ published = 0
    /\ acked = 0
    /\ spoilt = FALSE

Step(t) == \/ write_atomic(t) \/ Open(t) \/ Write(t) \/ Sync(t) \/ Fails(t)
           \/ Remove(t) \/ RemoveFails(t) \/ Rename(t) \/ RenameFails(t)
           \/ sync_dir(t) \/ SyncDirFails(t)

Next == \/ \E t \in Thread : Step(t)
        \/ \E p \in Process : Die(p)
        \/ PowerLoss

Spec == Init /\ [][Next]_vars

-----------------------------------------------------------------------------
(* Properties                                                              *)

FileRecord == [len : 0..Bytes, synced : 0..Bytes, nth : Nat]
DirRecord == [rel : 0..MaxFiles, tmp : [TmpName -> 0..MaxFiles]]

\* Every variable has its type; the counter of a process never runs past the
\* calls it has made.
TypeOK ==
    /\ file \in [Files -> FileRecord]
    /\ made \in 0..MaxFiles
    /\ dir \in DirRecord
    /\ disk \subseteq DirRecord
    /\ COUNTER \in [Process -> Number]
    /\ pc \in [Thread -> Steps]
    /\ n \in [Thread -> Number]
    /\ f \in [Thread -> 0..MaxFiles]
    /\ published \in Nat
    /\ acked \in Nat
    /\ spoilt \in BOOLEAN

\* "Never leaves a partially-written or missing file observable at that
\* name", before and after any crash.
WholeAtRel ==
    /\ dir.rel # 0 => file[dir.rel].len = Bytes
    /\ Existed => dir.rel # 0

\* A write that a caller was told is done is never undone by a power
\* failure: the name leads to that content or to a later one.
AckedIsDurable ==
    InThisDir /\ acked > 0 => dir.rel # 0 /\ file[dir.rel].nth >= acked

\* Three things leave a temporary file behind: a death, a clean-up that fails
\* (both in spoilt), and a rename that fails, after which the code attempts
\* none.  Short of the first two, a temporary file belongs to a call that is
\* still running or is what the third leaves, complete and synced: a call
\* that fails before its rename leaves nothing, and none leaves a part.
NoLitter ==
    ~spoilt => \A x \in TmpName : dir.tmp[x] # 0 =>
        \/ \E t \in Thread : pc[t] # "idle" /\ tmp_name(t) = x
        \/ file[dir.tmp[x]].len = Bytes /\ file[dir.tmp[x]].synced = Bytes

\* As documented, without the exception for names in a subdirectory.
AckedIsDurableEverywhere ==
    acked > 0 => dir.rel # 0 /\ file[dir.rel].nth >= acked

\* The protocol as a whole behaves like one atomic file.
Whole(d) == IF d.rel # 0 /\ file[d.rel].synced < Bytes THEN MaxFiles + 1
            ELSE d.rel
Atomic == INSTANCE AtomicFile WITH
    Contents <- 0..MaxFiles,
    content <- Whole(dir),
    kept <- {Whole(d) : d \in disk}

ImplementsAtomicFile == Atomic!Spec
=============================================================================
