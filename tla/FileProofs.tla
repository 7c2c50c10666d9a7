----------------------------- MODULE FileProofs -----------------------------
(***************************************************************************)
(* Proofs about WriteAtomic, for any number of processes, threads, calls   *)
(* and bytes, and about FileHandles, for any number of handles and bytes.  *)
(*                                                                         *)
(* For WriteAtomic the inductive invariant says who owns which temporary   *)
(* name, that every directory the disk may bring back is complete, and how *)
(* the order of publication relates to what callers were told.  For        *)
(* FileHandles it says where in the file the bytes are that a description  *)
(* has written and read.                                                   *)
(***************************************************************************)
EXTENDS WriteAtomic, FileHandles, SequenceTheorems, FiniteSetTheorems, TLAPS

\* A call's number is its own within its process.
Numbered ==
    /\ \A t \in Thread : pc[t] # "idle" => n[t] < COUNTER[Of[t]]
    /\ \A t, u \in Thread :
          t # u /\ Of[t] = Of[u] /\ pc[t] # "idle" /\ pc[u] # "idle"
          => n[t] # n[u]

\* Nobody else has touched the temporary file of a call.
Owned ==
    \A t \in Thread :
        /\ pc[t] \in {"write", "rename"} =>
              f[t] \in Files /\ f[t] <= made /\ dir.tmp[tmp_name(t)] = f[t]
        /\ pc[t] = "rename" => file[f[t]].synced = Bytes

\* No byte is safe that was not written, and numbers are given in order.
Ordered ==
    \A i \in Files : file[i].synced <= file[i].len /\ file[i].nth <= published

\* Whatever the disk may bring back is complete.
Kept ==
    /\ dir \in disk
    /\ \A d \in disk :
          /\ d.rel # 0 => d.rel <= made /\ file[d.rel].synced = Bytes
          /\ Existed => d.rel # 0

\* What callers were told is on every directory the disk may bring back.
Promised ==
    /\ acked <= published
    /\ \A t \in Thread : pc[t] = "sync_dir" =>
          f[t] \in Files /\ dir.rel # 0 /\ file[f[t]].nth <= file[dir.rel].nth
    /\ InThisDir /\ acked > 0 =>
          \A d \in disk : d.rel # 0 /\ file[d.rel].nth >= acked

\* A call that will rename or remove the temporary file x is running.
HasOwner(x) ==
    \E t \in Thread : pc[t] \in {"write", "rename", "remove"} /\ tmp_name(t) = x

\* The temporary file x is complete and safe, as a failed rename leaves it.
IsSafe(x) ==
    /\ dir.tmp[x] \in Files /\ dir.tmp[x] <= made
    /\ file[dir.tmp[x]].synced = Bytes

\* Every temporary file has an owner or was left by a rename that failed.
Tended ==
    ~spoilt => \A x \in TmpName : dir.tmp[x] # 0 => HasOwner(x) \/ IsSafe(x)

IInv == TypeOK /\ Numbered /\ Owned /\ Ordered /\ Kept /\ Promised /\ Tended

-----------------------------------------------------------------------------
\* Names of different calls differ.
LEMMA NamesDiffer ==
    ASSUME Numbered, NEW t \in Thread, NEW u \in Thread, t # u,
           pc[t] # "idle", pc[u] # "idle"
    PROVE  tmp_name(t) # tmp_name(u)
BY DEF Numbered, tmp_name

\* A thread's name is a name.
LEMMA NameType ==
    ASSUME TypeOK, NEW t \in Thread
    PROVE  tmp_name(t) \in TmpName
BY ThreadAssumption DEF TypeOK, tmp_name, TmpName

\* The invariant holds at the start.
LEMMA InitInv == Init => IInv
<1> SUFFICES ASSUME Init PROVE IInv
    OBVIOUS
<1> USE SizeAssumption, FlagAssumption, ThreadAssumption DEF Init
<1>a. 0 \in Number /\ made \in 0..MaxFiles
    BY DEF Number
<1>1. TypeOK
  <2>1. file \in [Files -> FileRecord]
      BY DEF FileRecord, NoFile, Files
  <2>2. Absent \in [TmpName -> 0..MaxFiles]
      BY DEF Absent
  <2>3. dir \in DirRecord
      BY <1>a, <2>2 DEF DirRecord
  <2>4. disk \subseteq DirRecord
      BY <2>3
  <2>5. COUNTER \in [Process -> Number] /\ n \in [Thread -> Number]
      BY <1>a
  <2>6. pc \in [Thread -> Steps]
      BY DEF Steps
  <2>7. f \in [Thread -> 0..MaxFiles] /\ published \in Nat /\ acked \in Nat
      OBVIOUS
  <2>8. spoilt \in BOOLEAN
      BY Zenon
  <2> QED
      BY <1>a, <2>1, <2>3, <2>4, <2>5, <2>6, <2>7, <2>8 DEF TypeOK
<1>2. Numbered /\ Owned /\ Promised
    BY DEF Numbered, Owned, Promised
<1>3. Ordered
    BY DEF Ordered, NoFile
<1>4. Kept
    BY DEF Kept, Files
<1>5. Tended
    BY DEF Tended, Absent
<1> QED
    BY <1>1, <1>2, <1>3, <1>4, <1>5 DEF IInv

\* A new call takes a number nobody in its process has.
LEMMA StartInv ==
    ASSUME IInv, NEW t \in Thread, write_atomic(t)
    PROVE  IInv'
<1> USE SizeAssumption, FlagAssumption, ThreadAssumption
<1> USE DEF write_atomic
<1>z. /\ \A u \in Thread : Of[u] \in Process
      /\ COUNTER \in [Process -> Number] /\ n \in [Thread -> Number]
    BY DEF IInv, TypeOK
<1>a. /\ Of[t] \in Process /\ COUNTER[Of[t]] \in Number
      /\ COUNTER[Of[t]] + 1 \in Number
    BY <1>z DEF Number
<1>b. /\ COUNTER' = [COUNTER EXCEPT ![Of[t]] = COUNTER[Of[t]] + 1]
      /\ COUNTER' \in [Process -> Number]
    BY <1>a DEF IInv, TypeOK
<1>c. n' \in [Thread -> Number] /\ pc' \in [Thread -> Steps]
    BY <1>a DEF IInv, TypeOK, Steps
<1>t. TypeOK'
    BY <1>b, <1>c DEF IInv, TypeOK
<1>e. \A u \in Thread : COUNTER[Of[u]] \in Nat /\ n[u] \in Nat
    BY <1>z DEF Number
<1>f. \A u \in Thread : COUNTER'[Of[u]] = IF Of[u] = Of[t] THEN COUNTER[Of[u]] + 1
                                         ELSE COUNTER[Of[u]]
    BY <1>b DEF IInv, TypeOK
<1>g. \A u \in Thread : n'[u] = IF u = t THEN COUNTER[Of[t]] ELSE n[u]
    BY DEF IInv, TypeOK
<1>h. \A u \in Thread : u # t => pc'[u] = pc[u]
    BY DEF IInv, TypeOK
<1>n. Numbered'
    BY <1>e, <1>f, <1>g, <1>h DEF IInv, Numbered
<1>o. Owned'
    BY DEF IInv, TypeOK, Owned, tmp_name
<1>r. Ordered' /\ Kept'
    BY DEF IInv, Ordered, Kept
<1>p. Promised'
    BY DEF IInv, TypeOK, Promised
<1>d. Tended'
    BY DEF IInv, TypeOK, Tended, HasOwner, IsSafe, tmp_name
<1> QED
    BY <1>t, <1>n, <1>o, <1>r, <1>p, <1>d DEF IInv

\* A write lengthens a file that is not yet complete, and so not published.
LEMMA WriteInv ==
    ASSUME IInv, NEW t \in Thread, Write(t)
    PROVE  IInv'
<1> USE SizeAssumption, FlagAssumption, ThreadAssumption
<1> USE DEF Write
<1>a. f[t] \in Files /\ f[t] <= made /\ file[f[t]].len < Bytes
    BY DEF IInv, Owned
<1>t. TypeOK'
  <2>1. PICK k \in 1..(Bytes - file[f[t]].len) :
              file' = [file EXCEPT ![f[t]].len = @ + k]
      OBVIOUS
  <2>2. file' \in [Files -> FileRecord]
      BY <1>a, <2>1 DEF IInv, TypeOK, FileRecord
  <2> QED
      BY <2>2 DEF IInv, TypeOK
<1>s. \A i \in Files : /\ file'[i].synced = file[i].synced
                       /\ file'[i].nth = file[i].nth
                       /\ file'[i].len >= file[i].len
    BY <1>a DEF IInv, TypeOK, FileRecord
<1>n. Numbered'
    BY DEF IInv, Numbered
<1>o. Owned'
    BY <1>s DEF IInv, Owned, tmp_name
<1>r. Ordered'
    BY <1>s, <1>t DEF IInv, TypeOK, Ordered, FileRecord
<1>m. \A d \in disk : d.rel # 0 => d.rel \in Files
    BY DEF IInv, TypeOK, DirRecord, Files
<1>k. Kept'
    BY <1>s, <1>m DEF IInv, Kept
<1>p. Promised'
    BY <1>s, <1>m DEF IInv, Promised, Kept
<1>d. Tended'
    BY <1>s DEF IInv, Tended, HasOwner, IsSafe, tmp_name
<1> QED
    BY <1>t, <1>n, <1>o, <1>r, <1>k, <1>p, <1>d DEF IInv

\* The sync makes every byte of the call's file safe.
LEMMA SyncInv ==
    ASSUME IInv, NEW t \in Thread, Sync(t)
    PROVE  IInv'
<1> USE SizeAssumption, FlagAssumption, ThreadAssumption
<1> USE DEF Sync
<1>a. f[t] \in Files /\ f[t] <= made /\ file[f[t]].len = Bytes
    BY DEF IInv, Owned
<1>t. TypeOK'
  <2>1. file' \in [Files -> FileRecord]
      BY <1>a DEF IInv, TypeOK, FileRecord
  <2>2. pc' \in [Thread -> Steps]
      BY DEF IInv, TypeOK, Steps
  <2> QED
      BY <2>1, <2>2 DEF IInv, TypeOK
<1>s. \A i \in Files : /\ file'[i].synced = IF i = f[t] THEN Bytes ELSE file[i].synced
                       /\ file'[i].nth = file[i].nth
                       /\ file'[i].len = file[i].len
    BY <1>a DEF IInv, TypeOK, FileRecord
<1>n. Numbered'
    BY DEF IInv, TypeOK, Numbered
<1>o. Owned'
    BY <1>s DEF IInv, TypeOK, Owned, tmp_name
<1>r. Ordered'
    BY <1>s, <1>t, <1>a DEF IInv, TypeOK, Ordered, FileRecord
<1>m. \A d \in disk : d.rel # 0 => d.rel \in Files
    BY DEF IInv, TypeOK, DirRecord, Files
<1>k. Kept'
    BY <1>s, <1>m DEF IInv, Kept
<1>p. Promised'
    BY <1>s, <1>m DEF IInv, TypeOK, Promised, Kept
<1>d. Tended'
    BY DEF IInv, TypeOK, Tended, HasOwner, IsSafe, tmp_name
<1> QED
    BY <1>t, <1>n, <1>o, <1>r, <1>k, <1>p, <1>d DEF IInv

\* A failure only decides what comes next.
LEMMA FailsInv ==
    ASSUME IInv, NEW t \in Thread, Fails(t)
    PROVE  IInv'
<1> USE SizeAssumption, FlagAssumption, ThreadAssumption
<1> USE DEF Fails
<1>t. TypeOK'
    BY DEF IInv, TypeOK, Steps
<1>n. Numbered'
    BY DEF IInv, TypeOK, Numbered
<1>o. Owned'
    BY DEF IInv, TypeOK, Owned, tmp_name
<1>r. Ordered' /\ Kept'
    BY DEF IInv, Ordered, Kept
<1>p. Promised'
    BY DEF IInv, TypeOK, Promised
<1>d. Tended'
    BY DEF IInv, TypeOK, Tended, HasOwner, IsSafe, tmp_name
<1> QED
    BY <1>t, <1>n, <1>o, <1>r, <1>p, <1>d DEF IInv

\* The facts about the directory that every step uses.
LEMMA RelIsFile ==
    ASSUME IInv
    PROVE  /\ dir \in disk
           /\ \A d \in disk : d \in DirRecord /\ (d.rel # 0 => d.rel \in Files)
BY SizeAssumption DEF IInv, TypeOK, Kept, DirRecord, Files

\* A new file gets a name that no running call has.
LEMMA OpenInv ==
    ASSUME IInv, NEW t \in Thread, Open(t)
    PROVE  IInv'
<1> USE SizeAssumption, FlagAssumption, ThreadAssumption
<1> DEFINE i == made + 1
           x == tmp_name(t)
<1>a. /\ i \in Files /\ i > made /\ made \in Nat /\ made' = i /\ x \in TmpName
      /\ pc[t] = "open" /\ dir.tmp[x] = 0
    BY NameType DEF IInv, TypeOK, Open, Files
<1>b. /\ file' = [file EXCEPT ![i] = NoFile]
      /\ dir' = [dir EXCEPT !.tmp[x] = i]
      /\ disk' = disk \union {dir'}
      /\ f' = [f EXCEPT ![t] = i]
      /\ pc' = [pc EXCEPT ![t] = "write"]
      /\ UNCHANGED <<COUNTER, n, published, acked, spoilt>>
    BY DEF Open, Becomes
<1> HIDE DEF i, x
<1>c. dir \in disk /\ \A d \in disk : d \in DirRecord /\ (d.rel # 0 => d.rel \in Files)
    BY RelIsFile
<1>d. /\ dir' \in DirRecord /\ dir'.rel = dir.rel
      /\ \A y \in TmpName : dir'.tmp[y] = IF y = x THEN i ELSE dir.tmp[y]
    BY <1>a, <1>b, <1>c DEF DirRecord, Files
<1>e. \A j \in Files : file'[j] = IF j = i THEN NoFile ELSE file[j]
    BY <1>a, <1>b DEF IInv, TypeOK
<1>g. \A u \in Thread : /\ f'[u] = IF u = t THEN i ELSE f[u]
                        /\ pc'[u] = IF u = t THEN "write" ELSE pc[u]
                        /\ tmp_name(u)' = tmp_name(u)
                        /\ tmp_name(u) \in TmpName
    BY <1>b, NameType DEF IInv, TypeOK, tmp_name
<1>t. TypeOK'
  <2>1. NoFile \in FileRecord
      BY DEF NoFile, FileRecord
  <2>2. file' \in [Files -> FileRecord]
      BY <1>a, <1>b, <2>1 DEF IInv, TypeOK
  <2>3. made' \in 0..MaxFiles
      BY <1>a DEF Files
  <2>4. disk' \subseteq DirRecord
      BY <1>b, <1>c, <1>d
  <2>5. f' \in [Thread -> 0..MaxFiles]
      BY <1>a, <1>b DEF IInv, TypeOK, Files
  <2>6. pc' \in [Thread -> Steps]
      BY <1>b DEF IInv, TypeOK, Steps
  <2> QED
      BY <1>b, <1>d, <2>2, <2>3, <2>4, <2>5, <2>6 DEF IInv, TypeOK
<1>n. Numbered'
    BY <1>a, <1>b, <1>g DEF IInv, Numbered
<1>o. Owned'
  <2> SUFFICES ASSUME NEW u \in Thread
               PROVE  /\ pc'[u] \in {"write", "rename"} =>
                            /\ f'[u] \in Files /\ f'[u] <= made'
                            /\ dir'.tmp[tmp_name(u)'] = f'[u]
                      /\ pc'[u] = "rename" => file'[f'[u]].synced = Bytes
      BY DEF Owned
  <2>1. CASE u = t
    <3>1. f'[u] = i /\ pc'[u] = "write" /\ tmp_name(u)' = x
        BY <2>1, <1>g DEF x
    <3>2. dir'.tmp[x] = i /\ i \in Files /\ i <= made'
        BY <1>a, <1>d DEF Files
    <3> QED
        BY <3>1, <3>2
  <2>2. CASE u # t /\ pc[u] \in {"write", "rename"}
    <3>1. tmp_name(u) # x
        BY <2>2, <1>a, NamesDiffer DEF IInv, x
    <3>2. f[u] \in Files /\ f[u] <= made /\ f[u] # i
        BY <2>2, <1>a DEF IInv, Owned, Files
    <3> QED
        BY <2>2, <3>1, <3>2, <1>a, <1>d, <1>e, <1>g DEF IInv, Owned, Files
  <2>3. CASE u # t /\ pc[u] \notin {"write", "rename"}
      BY <2>3, <1>g
  <2> QED
      BY <2>1, <2>2, <2>3
<1>r. Ordered'
    BY <1>b, <1>e DEF IInv, TypeOK, Ordered, NoFile
<1>l. \A d \in disk : d.rel # 0 => d.rel \in Files /\ d.rel # i /\ file'[d.rel] = file[d.rel]
    BY <1>a, <1>c, <1>e DEF IInv, Kept, Files
<1>q. \A d \in disk' : \E e \in disk : d.rel = e.rel
    BY <1>b, <1>c, <1>d
<1>k. Kept'
  <2>1. \A e \in disk : /\ e.rel # 0 => e.rel <= made' /\ file'[e.rel].synced = Bytes
                        /\ Existed => e.rel # 0
      BY <1>a, <1>c, <1>l DEF IInv, Kept, Files
  <2>2. dir' \in disk'
      BY <1>b
  <2> QED
      BY <1>q, <2>1, <2>2 DEF Kept
<1>p. Promised'
  <2>1. \A j \in Files : file'[j].nth = file[j].nth \/ file'[j].nth = 0
      BY <1>e DEF NoFile
  <2>2. \A j \in Files : file[j].nth \in Nat
      BY DEF IInv, TypeOK, FileRecord
  <2>3. \A u \in Thread : pc'[u] = "sync_dir" =>
           f'[u] \in Files /\ dir'.rel # 0 /\ file'[f'[u]].nth <= file'[dir'.rel].nth
    <3> SUFFICES ASSUME NEW u \in Thread, pc'[u] = "sync_dir"
                 PROVE  /\ f'[u] \in Files /\ dir'.rel # 0
                        /\ file'[f'[u]].nth <= file'[dir'.rel].nth
        OBVIOUS
    <3>1. pc[u] = "sync_dir" /\ f'[u] = f[u]
        BY <1>g
    <3>2. f[u] \in Files /\ dir.rel # 0 /\ file[f[u]].nth <= file[dir.rel].nth
        BY <3>1 DEF IInv, Promised
    <3>3. file'[dir.rel] = file[dir.rel] /\ dir.rel \in Files
        BY <3>2, <1>c, <1>l
    <3> QED
        BY <3>1, <3>2, <3>3, <1>d, <2>1, <2>2
  <2>4. InThisDir /\ acked > 0 =>
           \A e \in disk : e.rel # 0 /\ file'[e.rel].nth >= acked
      BY <1>l DEF IInv, Promised
  <2> QED
      BY <1>b, <1>q, <2>3, <2>4 DEF IInv, Promised
<1>w. Tended'
  <2> SUFFICES ASSUME ~spoilt, NEW y \in TmpName, dir'.tmp[y] # 0
               PROVE  HasOwner(y)' \/ IsSafe(y)'
      BY <1>b DEF Tended
  <2>1. CASE y = x
      BY <2>1, <1>g DEF x, HasOwner
  <2>2. CASE y # x /\ HasOwner(y)
    <3>1. PICK u \in Thread : pc[u] \in {"write", "rename", "remove"} /\ tmp_name(u) = y
        BY <2>2 DEF HasOwner
    <3> QED
        BY <3>1, <1>a, <1>g DEF HasOwner
  <2>3. CASE y # x /\ IsSafe(y)
      BY <2>3, <1>a, <1>d, <1>e DEF IsSafe, Files
  <2> QED
      BY <2>1, <2>2, <2>3, <1>d DEF IInv, Tended
<1> QED
    BY <1>t, <1>n, <1>o, <1>r, <1>k, <1>p, <1>w DEF IInv
\* What a returning thread leaves behind in the variables of the threads.
LEMMA ReturnsType ==
    ASSUME TypeOK, NEW t \in Thread, Returns(t)
    PROVE  /\ pc' \in [Thread -> Steps] /\ n' \in [Thread -> Number]
           /\ f' \in [Thread -> 0..MaxFiles]
           /\ pc'[t] = "idle"
           /\ \A u \in Thread : u # t =>
                 pc'[u] = pc[u] /\ f'[u] = f[u] /\ tmp_name(u)' = tmp_name(u)
           /\ \A u \in Thread : u # t => n'[u] = n[u]
<1>1. pc' \in [Thread -> Steps] /\ pc'[t] = "idle"
    BY DEF TypeOK, Returns, Steps
<1>2. n' \in [Thread -> Number]
    BY SizeAssumption DEF TypeOK, Returns, Number
<1>3. f' \in [Thread -> 0..MaxFiles]
    BY SizeAssumption DEF TypeOK, Returns
<1>4. \A u \in Thread : u # t => pc'[u] = pc[u] /\ f'[u] = f[u] /\ n'[u] = n[u]
    BY DEF TypeOK, Returns
<1>5. \A u \in Thread : u # t => tmp_name(u)' = tmp_name(u)
    BY <1>4 DEF tmp_name
<1> QED
    BY <1>1, <1>2, <1>3, <1>4, <1>5

\* A call that gives up changes nothing but its own thread; a clean-up that
\* fails is remembered in spoilt, and a failed rename leaves a safe file.
LEMMA GivesUpInv ==
    ASSUME IInv, NEW t \in Thread, RemoveFails(t) \/ RenameFails(t) \/ SyncDirFails(t)
    PROVE  IInv'
<1>a. Returns(t) /\ UNCHANGED <<file, made, dir, disk, COUNTER, published, acked>>
    BY DEF RemoveFails, RenameFails, SyncDirFails
<1>b. spoilt' = TRUE \/ (spoilt' = spoilt /\ pc[t] \in {"rename", "sync_dir"})
    BY Zenon DEF RemoveFails, RenameFails, SyncDirFails
<1>c. /\ pc' \in [Thread -> Steps] /\ n' \in [Thread -> Number]
      /\ f' \in [Thread -> 0..MaxFiles]
      /\ pc'[t] = "idle"
      /\ \A u \in Thread : u # t =>
            pc'[u] = pc[u] /\ f'[u] = f[u] /\ tmp_name(u)' = tmp_name(u)
      /\ \A u \in Thread : u # t => n'[u] = n[u]
    BY <1>a, ReturnsType DEF IInv
<1>d. spoilt' \in BOOLEAN
    BY <1>b, Zenon DEF IInv, TypeOK
<1>t. TypeOK'
    BY <1>a, <1>c, <1>d DEF IInv, TypeOK
<1>n. Numbered'
    BY <1>a, <1>c DEF IInv, Numbered
<1>o. Owned'
    BY <1>a, <1>c DEF IInv, Owned
<1>r. Ordered' /\ Kept'
    BY <1>a DEF IInv, Ordered, Kept
<1>p. Promised'
    BY <1>a, <1>c DEF IInv, Promised
<1>w. Tended'
  <2>1. CASE spoilt' = TRUE
      BY <2>1 DEF Tended
  <2>2. CASE spoilt' = spoilt /\ pc[t] \in {"rename", "sync_dir"}
    <3> SUFFICES ASSUME ~spoilt, NEW y \in TmpName, dir.tmp[y] # 0
                 PROVE  HasOwner(y)' \/ IsSafe(y)'
        BY <1>a, <2>2 DEF Tended
    <3>1. CASE IsSafe(y)
        BY <3>1, <1>a DEF IsSafe
    <3>2. CASE HasOwner(y)
      <4>1. PICK u \in Thread : pc[u] \in {"write", "rename", "remove"} /\ tmp_name(u) = y
          BY <3>2 DEF HasOwner
      <4>2. CASE u # t
          BY <4>1, <4>2, <1>c DEF HasOwner
      <4>3. CASE u = t
        <5>1. IsSafe(y)
            BY <4>1, <4>3, <2>2 DEF IInv, Owned, IsSafe
        <5> QED
            BY <5>1, <1>a DEF IsSafe
      <4> QED
          BY <4>2, <4>3
    <3> QED
        BY <3>1, <3>2 DEF IInv, Tended
  <2> QED
      BY <1>b, <2>1, <2>2
<1> QED
    BY <1>t, <1>n, <1>o, <1>r, <1>p, <1>w DEF IInv

\* The clean-up removes no other call's file, because it goes by a name that
\* no other running call has.
LEMMA RemoveInv ==
    ASSUME IInv, NEW t \in Thread, Remove(t)
    PROVE  IInv'
<1> USE SizeAssumption, FlagAssumption
<1> DEFINE x == tmp_name(t)
<1>a. /\ Returns(t) /\ UNCHANGED <<file, made, COUNTER, published, acked, spoilt>>
      /\ pc[t] = "remove" /\ x \in TmpName
      /\ dir' = [dir EXCEPT !.tmp[x] = 0] /\ disk' = disk \union {dir'}
    BY NameType DEF Remove, Becomes, IInv
<1> HIDE DEF x
<1>b. dir \in disk /\ \A d \in disk : d \in DirRecord /\ (d.rel # 0 => d.rel \in Files)
    BY RelIsFile
<1>c. /\ pc' \in [Thread -> Steps] /\ n' \in [Thread -> Number]
      /\ f' \in [Thread -> 0..MaxFiles]
      /\ pc'[t] = "idle"
      /\ \A u \in Thread : u # t =>
            pc'[u] = pc[u] /\ f'[u] = f[u] /\ tmp_name(u)' = tmp_name(u)
      /\ \A u \in Thread : u # t => n'[u] = n[u]
    BY <1>a, ReturnsType DEF IInv
<1>d. /\ dir' \in DirRecord /\ dir'.rel = dir.rel
      /\ \A y \in TmpName : dir'.tmp[y] = IF y = x THEN 0 ELSE dir.tmp[y]
    BY <1>a, <1>b DEF DirRecord
<1>q. \A d \in disk' : \E e \in disk : d.rel = e.rel
    BY <1>a, <1>b, <1>d
<1>t. TypeOK'
  <2>1. disk' \subseteq DirRecord
      BY <1>a, <1>b, <1>d
  <2> QED
      BY <1>a, <1>c, <1>d, <2>1 DEF IInv, TypeOK
<1>n. Numbered'
    BY <1>a, <1>c DEF IInv, Numbered
<1>u. \A u \in Thread : u # t /\ pc[u] # "idle" =>
         tmp_name(u) # x /\ tmp_name(u) \in TmpName
    BY <1>a, NamesDiffer, NameType DEF IInv, x
<1>o. Owned'
    BY <1>a, <1>c, <1>d, <1>u DEF IInv, Owned
<1>r. Ordered'
    BY <1>a DEF IInv, Ordered
<1>k. Kept'
    BY <1>a, <1>q DEF IInv, Kept
<1>p. Promised'
  <2>1. InThisDir /\ acked > 0 => \A d \in disk' : d.rel # 0 /\ file[d.rel].nth >= acked
      BY <1>q DEF IInv, Promised
  <2> QED
      BY <1>a, <1>c, <1>d, <2>1 DEF IInv, Promised
<1>w. Tended'
  <2> SUFFICES ASSUME ~spoilt, NEW y \in TmpName, dir'.tmp[y] # 0
               PROVE  HasOwner(y)' \/ IsSafe(y)'
      BY <1>a DEF Tended
  <2>1. y # x /\ dir.tmp[y] # 0
      BY <1>d
  <2>2. CASE HasOwner(y)
    <3>1. PICK u \in Thread : pc[u] \in {"write", "rename", "remove"} /\ tmp_name(u) = y
        BY <2>2 DEF HasOwner
    <3>2. u # t
        BY <2>1, <3>1 DEF x
    <3> QED
        BY <3>1, <3>2, <1>c DEF HasOwner
  <2>3. CASE IsSafe(y)
      BY <2>1, <2>3, <1>a, <1>d DEF IsSafe
  <2> QED
      BY <2>1, <2>2, <2>3 DEF IInv, Tended
<1> QED
    BY <1>t, <1>n, <1>o, <1>r, <1>k, <1>p, <1>w DEF IInv

\* Syncing the directory leaves only the current one, which holds the file
\* of this call or one published after it.
LEMMA SyncDirInv ==
    ASSUME IInv, NEW t \in Thread, sync_dir(t)
    PROVE  IInv'
<1> USE SizeAssumption, FlagAssumption
<1>a. /\ Returns(t) /\ UNCHANGED <<file, made, dir, COUNTER, published, spoilt>>
      /\ pc[t] = "sync_dir"
      /\ disk' = IF InThisDir THEN {dir} ELSE disk
      /\ acked' = IF file[f[t]].nth > acked THEN file[f[t]].nth ELSE acked
    BY DEF sync_dir
<1>b. dir \in disk /\ \A d \in disk : d \in DirRecord /\ (d.rel # 0 => d.rel \in Files)
    BY RelIsFile
<1>c. /\ pc' \in [Thread -> Steps] /\ n' \in [Thread -> Number]
      /\ f' \in [Thread -> 0..MaxFiles]
      /\ pc'[t] = "idle"
      /\ \A u \in Thread : u # t =>
            pc'[u] = pc[u] /\ f'[u] = f[u] /\ tmp_name(u)' = tmp_name(u)
      /\ \A u \in Thread : u # t => n'[u] = n[u]
    BY <1>a, ReturnsType DEF IInv
<1>d. /\ f[t] \in Files /\ dir.rel \in Files /\ dir.rel # 0
      /\ file[f[t]].nth <= file[dir.rel].nth
    BY <1>a, <1>b DEF IInv, Promised
<1>e. \A j \in Files : file[j].nth \in Nat /\ file[j].nth <= published
    BY DEF IInv, TypeOK, FileRecord, Ordered
<1>g. acked \in Nat /\ published \in Nat /\ acked' \in Nat
    BY <1>a, <1>d, <1>e DEF IInv, TypeOK
<1>h. disk' \subseteq disk /\ dir \in disk'
    BY <1>a, <1>b
<1>t. TypeOK'
    BY <1>a, <1>b, <1>c, <1>g, <1>h DEF IInv, TypeOK
<1>n. Numbered'
    BY <1>a, <1>c DEF IInv, Numbered
<1>o. Owned'
    BY <1>a, <1>c DEF IInv, Owned
<1>r. Ordered'
    BY <1>a DEF IInv, Ordered
<1>k. Kept'
    BY <1>a, <1>h DEF IInv, Kept
<1>p. Promised'
  <2>1. acked' <= published'
      BY <1>a, <1>d, <1>e, <1>g DEF IInv, Promised
  <2>2. InThisDir /\ acked > 0 => file[dir.rel].nth >= acked
      BY <1>b DEF IInv, Promised
  <2>3. InThisDir /\ acked' > 0 => file[dir.rel].nth >= acked'
      BY <1>a, <1>d, <1>e, <1>g, <2>2
  <2>4. InThisDir => disk' = {dir}
      BY <1>a
  <2> QED
      BY <1>a, <1>c, <1>d, <2>1, <2>3, <2>4 DEF IInv, Promised
<1>w. Tended'
    BY <1>a, <1>c DEF IInv, Tended, HasOwner, IsSafe
<1> QED
    BY <1>t, <1>n, <1>o, <1>r, <1>k, <1>p, <1>w DEF IInv

\* The rename publishes the call's own file, complete and safe, as the
\* newest one.
LEMMA RenameInv ==
    ASSUME IInv, NEW t \in Thread, Rename(t)
    PROVE  IInv'
<1> USE SizeAssumption, FlagAssumption
<1> DEFINE x == tmp_name(t)
           i == f[t]
<1>a. /\ pc[t] = "rename" /\ x \in TmpName
      /\ i \in Files /\ i <= made /\ dir.tmp[x] = i /\ file[i].synced = Bytes
    BY NameType DEF Rename, IInv, Owned
<1>b. /\ dir' = [rel |-> i, tmp |-> [dir.tmp EXCEPT ![x] = 0]]
      /\ disk' = disk \union {dir'}
      /\ published' = published + 1
      /\ file' = [file EXCEPT ![i].nth = published + 1]
      /\ pc' = [pc EXCEPT ![t] = "sync_dir"]
      /\ UNCHANGED <<made, COUNTER, n, f, acked, spoilt>>
    BY <1>a DEF Rename, Becomes
<1> HIDE DEF x, i
<1>c. dir \in disk /\ \A d \in disk : d \in DirRecord /\ (d.rel # 0 => d.rel \in Files)
    BY RelIsFile
<1>d. /\ dir' \in DirRecord /\ dir'.rel = i /\ i # 0
      /\ \A y \in TmpName : dir'.tmp[y] = IF y = x THEN 0 ELSE dir.tmp[y]
    BY <1>a, <1>b, <1>c DEF DirRecord, Files
<1>e. \A j \in Files : /\ file'[j].nth = IF j = i THEN published + 1 ELSE file[j].nth
                       /\ file'[j].len = file[j].len
                       /\ file'[j].synced = file[j].synced
    BY <1>a, <1>b DEF IInv, TypeOK, FileRecord
<1>g. \A u \in Thread : /\ pc'[u] = IF u = t THEN "sync_dir" ELSE pc[u]
                        /\ f'[u] = f[u] /\ n'[u] = n[u]
                        /\ tmp_name(u)' = tmp_name(u)
                        /\ tmp_name(u) \in TmpName
    BY <1>b, NameType DEF IInv, TypeOK, tmp_name
<1>h. \A j \in Files : file[j].nth \in Nat /\ file[j].nth <= published
    BY DEF IInv, TypeOK, FileRecord, Ordered
<1>i. published \in Nat /\ acked \in Nat /\ acked <= published
    BY DEF IInv, TypeOK, Promised
<1>t. TypeOK'
  <2>1. file' \in [Files -> FileRecord]
      BY <1>a, <1>b, <1>i DEF IInv, TypeOK, FileRecord
  <2>2. disk' \subseteq DirRecord
      BY <1>b, <1>c, <1>d
  <2>3. pc' \in [Thread -> Steps]
      BY <1>b DEF IInv, TypeOK, Steps
  <2>4. published' \in Nat
      BY <1>b, <1>i
  <2> QED
      BY <1>b, <1>d, <2>1, <2>2, <2>3, <2>4 DEF IInv, TypeOK
<1>n. Numbered'
    BY <1>a, <1>b, <1>g DEF IInv, Numbered
<1>o. Owned'
  <2> SUFFICES ASSUME NEW u \in Thread, pc'[u] \in {"write", "rename"}
               PROVE  /\ f'[u] \in Files /\ f'[u] <= made'
                      /\ dir'.tmp[tmp_name(u)'] = f'[u]
                      /\ pc'[u] = "rename" => file'[f'[u]].synced = Bytes
      BY DEF Owned
  <2>1. u # t /\ pc[u] \in {"write", "rename"} /\ pc'[u] = pc[u]
      BY <1>g
  <2>2. tmp_name(u) # x
      BY <2>1, <1>a, NamesDiffer DEF IInv, x
  <2> QED
      BY <2>1, <2>2, <1>b, <1>d, <1>e, <1>g DEF IInv, Owned
<1>r. Ordered'
    BY <1>b, <1>e, <1>h, <1>i DEF IInv, Ordered
<1>l. \A d \in disk' : d = dir' \/ d \in disk
    BY <1>b
<1>k. Kept'
  <2>1. dir' \in disk'
      BY <1>b
  <2>2. ASSUME NEW d \in disk'
        PROVE  /\ d.rel # 0 => d.rel <= made' /\ file'[d.rel].synced = Bytes
               /\ Existed => d.rel # 0
    <3>1. CASE d = dir'
        BY <3>1, <1>a, <1>b, <1>d, <1>e
    <3>2. CASE d \in disk
        BY <3>2, <1>b, <1>c, <1>e DEF IInv, Kept
    <3> QED
        BY <3>1, <3>2, <1>l
  <2> QED
      BY <2>1, <2>2 DEF Kept
<1>p. Promised'
  <2>1. acked' <= published'
      BY <1>b, <1>i
  <2>2. ASSUME NEW u \in Thread, pc'[u] = "sync_dir"
        PROVE  f'[u] \in Files /\ dir'.rel # 0 /\ file'[f'[u]].nth <= file'[dir'.rel].nth
    <3>1. f[u] \in Files
        BY <2>2, <1>a, <1>g DEF IInv, Promised, i
    <3> QED
        BY <3>1, <1>a, <1>d, <1>e, <1>g, <1>h, <1>i
  <2>3. ASSUME InThisDir, acked > 0, NEW d \in disk'
        PROVE  d.rel # 0 /\ file'[d.rel].nth >= acked
    <3>1. CASE d = dir'
        BY <3>1, <1>a, <1>d, <1>e, <1>i
    <3>2. CASE d \in disk
      <4>1. d.rel # 0 /\ file[d.rel].nth >= acked
          BY <2>3, <3>2 DEF IInv, Promised
      <4> QED
          BY <4>1, <3>2, <1>c, <1>e, <1>h, <1>i
    <3> QED
        BY <3>1, <3>2, <1>l
  <2> QED
      BY <1>b, <2>1, <2>2, <2>3 DEF Promised
<1>w. Tended'
  <2> SUFFICES ASSUME ~spoilt, NEW y \in TmpName, dir'.tmp[y] # 0
               PROVE  HasOwner(y)' \/ IsSafe(y)'
      BY <1>b DEF Tended
  <2>1. y # x /\ dir.tmp[y] # 0
      BY <1>d
  <2>2. CASE HasOwner(y)
    <3>1. PICK u \in Thread : pc[u] \in {"write", "rename", "remove"} /\ tmp_name(u) = y
        BY <2>2 DEF HasOwner
    <3>2. u # t
        BY <2>1, <3>1 DEF x
    <3> QED
        BY <3>1, <3>2, <1>g DEF HasOwner
  <2>3. CASE IsSafe(y)
      BY <2>1, <2>3, <1>b, <1>d, <1>e DEF IsSafe
  <2> QED
      BY <2>1, <2>2, <2>3 DEF IInv, Tended
<1> QED
    BY <1>t, <1>n, <1>o, <1>r, <1>k, <1>p, <1>w DEF IInv

\* A process that dies takes its calls with it and leaves their files.
LEMMA DieInv ==
    ASSUME IInv, NEW p \in Process, Die(p)
    PROVE  IInv'
<1> USE SizeAssumption, FlagAssumption, ThreadAssumption
<1>a. /\ UNCHANGED <<file, made, dir, disk, published, acked>>
      /\ spoilt' = TRUE /\ COUNTER' = [COUNTER EXCEPT ![p] = 0]
    BY DEF Die
<1>b. \A u \in Thread : \/ Of[u] = p /\ pc'[u] = "idle"
                        \/ /\ Of[u] # p /\ pc'[u] = pc[u] /\ n'[u] = n[u]
                           /\ f'[u] = f[u] /\ COUNTER'[Of[u]] = COUNTER[Of[u]]
                           /\ tmp_name(u)' = tmp_name(u)
    BY DEF Die, IInv, TypeOK, tmp_name
<1>t. TypeOK'
  <2>1. pc' \in [Thread -> Steps]
      BY DEF Die, IInv, TypeOK, Steps
  <2>2. 0 \in Number
      BY DEF Number
  <2>3. n' \in [Thread -> Number] /\ COUNTER' \in [Process -> Number]
      BY <2>2 DEF Die, IInv, TypeOK
  <2>4. f' \in [Thread -> 0..MaxFiles]
      BY DEF Die, IInv, TypeOK
  <2>5. spoilt' \in BOOLEAN
      BY <1>a, Zenon
  <2> QED
      BY <1>a, <2>1, <2>3, <2>4, <2>5 DEF IInv, TypeOK
<1>n. Numbered'
    BY <1>b DEF IInv, Numbered
<1>o. Owned'
    BY <1>a, <1>b DEF IInv, Owned
<1>r. Ordered' /\ Kept'
    BY <1>a DEF IInv, Ordered, Kept
<1>p. Promised'
    BY <1>a, <1>b DEF IInv, Promised
<1>w. Tended'
    BY <1>a DEF Tended
<1> QED
    BY <1>t, <1>n, <1>o, <1>r, <1>p, <1>w DEF IInv

\* A power failure brings back one of the directories that are kept, all of
\* them complete and none older than what callers were told.
LEMMA PowerLossInv ==
    ASSUME IInv, PowerLoss
    PROVE  IInv'
<1> USE SizeAssumption, FlagAssumption
<1>a. /\ UNCHANGED <<made, published, acked>> /\ spoilt' = TRUE
      /\ dir' \in disk /\ disk' = {dir'}
      /\ \A u \in Thread : pc'[u] = "idle"
    BY DEF PowerLoss
<1>b. PICK left \in [Files -> 0..Bytes] :
          /\ \A i \in Files : left[i] \in file[i].synced..file[i].len
          /\ file' = [i \in Files |-> [len |-> left[i], synced |-> left[i],
                                       nth |-> file[i].nth]]
    BY DEF PowerLoss
<1>c. \A i \in Files : /\ file[i].synced \in 0..Bytes /\ file[i].len \in 0..Bytes
                       /\ file[i].nth \in Nat
    BY DEF IInv, TypeOK, FileRecord
<1>d. \A i \in Files : /\ file'[i].nth = file[i].nth
                       /\ file'[i].synced = file'[i].len
                       /\ file[i].synced = Bytes => file'[i].synced = Bytes
                       /\ file'[i].len \in 0..Bytes
  <2> SUFFICES ASSUME NEW i \in Files
               PROVE  /\ file'[i].nth = file[i].nth
                      /\ file'[i].synced = file'[i].len
                      /\ file[i].synced = Bytes => file'[i].synced = Bytes
                      /\ file'[i].len \in 0..Bytes
      OBVIOUS
  <2>1. file'[i] = [len |-> left[i], synced |-> left[i], nth |-> file[i].nth]
      BY <1>b
  <2>2. /\ left[i] \in 0..Bytes /\ left[i] \in file[i].synced..file[i].len
        /\ file[i].synced \in 0..Bytes /\ file[i].len \in 0..Bytes
      BY <1>b, <1>c
  <2>3. file[i].synced = Bytes => left[i] = Bytes
      BY <2>2
  <2> QED
      BY <2>1, <2>2, <2>3
<1>e. dir \in disk /\ \A d \in disk : d \in DirRecord /\ (d.rel # 0 => d.rel \in Files)
    BY RelIsFile
<1>t. TypeOK'
  <2>1. file' \in [Files -> FileRecord]
      BY <1>b, <1>c DEF FileRecord
  <2>2. pc' \in [Thread -> Steps]
      BY DEF PowerLoss, Steps
  <2>3. n' \in [Thread -> Number] /\ COUNTER' \in [Process -> Number]
      BY DEF PowerLoss, Number
  <2>4. f' \in [Thread -> 0..MaxFiles]
      BY DEF PowerLoss
  <2>5. spoilt' \in BOOLEAN
      BY <1>a, Zenon
  <2>6. dir' \in DirRecord /\ disk' \subseteq DirRecord
      BY <1>a, <1>e
  <2> QED
      BY <1>a, <2>1, <2>2, <2>3, <2>4, <2>5, <2>6 DEF IInv, TypeOK
<1>n. Numbered' /\ Owned'
    BY <1>a DEF Numbered, Owned
<1>r. Ordered'
    BY <1>a, <1>d DEF IInv, Ordered
<1>k. Kept'
    BY <1>a, <1>d, <1>e DEF IInv, Kept
<1>p. Promised'
    BY <1>a, <1>d, <1>e DEF IInv, Promised
<1>w. Tended'
    BY <1>a DEF Tended
<1> QED
    BY <1>t, <1>n, <1>r, <1>k, <1>p, <1>w DEF IInv

\* Every step keeps the invariant.
LEMMA StepInv == IInv /\ [Next]_vars => IInv'
<1> SUFFICES ASSUME IInv, [Next]_vars PROVE IInv'
    OBVIOUS
<1>1. ASSUME NEW t \in Thread, Step(t) PROVE IInv'
    BY <1>1, StartInv, OpenInv, WriteInv, SyncInv, FailsInv, RemoveInv, GivesUpInv,
       RenameInv, SyncDirInv DEF Step
<1>2. CASE UNCHANGED vars
    BY <1>2 DEF vars, IInv, TypeOK, Numbered, Owned, Ordered, Kept, Promised, Tended,
       HasOwner, IsSafe, tmp_name
<1> QED
    BY <1>1, <1>2, DieInv, PowerLossInv DEF Next

-----------------------------------------------------------------------------
(* Theorems                                                                *)

\* The inductive invariant holds throughout.
LEMMA Invariance == Spec => []IInv
BY InitInv, StepInv, PTL DEF Spec

\* Every reachable state has its type; no write runs past the contents.
THEOREM TypeCorrect == Spec => []TypeOK
<1>1. IInv => TypeOK
    BY DEF IInv
<1> QED
    BY <1>1, Invariance, PTL

\* The name never leads to a part of a content, and once it existed it never
\* goes missing, through any interleaving and any crash.
THEOREM AlwaysWhole == Spec => []WholeAtRel
<1>1. ASSUME IInv PROVE WholeAtRel
  <2>1. \A i \in Files : file[i].synced \in 0..Bytes /\ file[i].len \in 0..Bytes
      BY <1>1 DEF IInv, TypeOK, FileRecord
  <2>2. dir \in disk /\ (dir.rel # 0 => dir.rel \in Files)
      BY <1>1, RelIsFile
  <2> QED
      BY <1>1, <2>1, <2>2, SizeAssumption DEF IInv, Kept, Ordered, WholeAtRel
<1> QED
    BY <1>1, Invariance, PTL

\* What a caller was told is done survives every power failure, when rel is
\* a name of the directory itself.
THEOREM AckedSurvives == Spec => []AckedIsDurable
<1>1. IInv => AckedIsDurable
    BY DEF IInv, Kept, Promised, AckedIsDurable
<1> QED
    BY <1>1, Invariance, PTL

\* Unless something died or a clean-up failed, no call that failed before its
\* rename leaves a temporary file; one whose rename fails leaves its own,
\* complete and synced.
THEOREM NothingLeftBehind == Spec => []NoLitter
<1>1. ASSUME IInv PROVE NoLitter
  <2>1. \A i \in Files : /\ file[i].synced \in 0..Bytes /\ file[i].len \in 0..Bytes
                         /\ file[i].synced <= file[i].len
      BY <1>1 DEF IInv, TypeOK, FileRecord, Ordered
  <2>2. \A x \in TmpName : IsSafe(x) =>
           file[dir.tmp[x]].len = Bytes /\ file[dir.tmp[x]].synced = Bytes
      BY <2>1, SizeAssumption DEF IsSafe
  <2>3. \A x \in TmpName : HasOwner(x) =>
           \E t \in Thread : pc[t] # "idle" /\ tmp_name(t) = x
      BY DEF HasOwner
  <2> QED
      BY <1>1, <2>2, <2>3 DEF IInv, Tended, NoLitter
<1> QED
    BY <1>1, Invariance, PTL

\* A directory of the disk shows the file it names.
Shows ==
    dir \in disk /\ \A d \in disk : Whole(d) = d.rel /\ d.rel \in 0..MaxFiles

\* It follows from the invariant, which keeps unsafe files away from the name.
LEMMA ShowsItsFile == IInv => Shows
<1> SUFFICES ASSUME IInv PROVE Shows
    OBVIOUS
<1>1. \A d \in disk : d.rel # 0 => d.rel \in Files /\ file[d.rel].synced = Bytes
    BY RelIsFile DEF IInv, Kept
<1>2. dir \in disk
    BY RelIsFile
<1> QED
    BY <1>1, <1>2, SizeAssumption DEF Shows, Whole, Files

\* The protocol as a whole behaves like one atomic file: of all its steps
\* only the rename publishes, and only the sync of the directory commits.
THEOREM BehavesAtomically == Spec => ImplementsAtomicFile
<1> USE SizeAssumption
<1>1. Init => Atomic!Init
  <2> SUFFICES ASSUME Init PROVE Atomic!Init
      OBVIOUS
  <2>1. IInv
      BY InitInv
  <2>2. disk = {dir} /\ Whole(dir) \in 0..MaxFiles
      BY <2>1, ShowsItsFile DEF Init, Shows
  <2> QED
      BY <2>2 DEF Atomic!Init
<1>2. ASSUME IInv, IInv', [Next]_vars PROVE [Atomic!Next]_(Atomic!vars)
  <2> DEFINE content == Whole(dir)
             kept == {Whole(d) : d \in disk}
  <2>a. dir \in disk /\ content = dir.rel /\ kept = {d.rel : d \in disk}
      BY <1>2, ShowsItsFile DEF Shows
  <2>b. /\ dir' \in disk' /\ content' = dir'.rel /\ kept' = {d.rel : d \in disk'}
        /\ dir'.rel \in 0..MaxFiles
    <3>1. Shows'
        BY <1>2, ShowsItsFile, PTL
    <3> QED
        BY <3>1 DEF Shows
  <2> HIDE DEF content, kept
  <2>c. ASSUME content' = content, kept' = kept
        PROVE  [Atomic!Next]_(Atomic!vars)
      BY <2>c DEF Atomic!vars, content, kept
  <2>d. ASSUME dir'.rel = dir.rel, disk' = disk \/ disk' = disk \union {dir'}
        PROVE  content' = content /\ kept' = kept
    <3>1. \A d \in disk' : \E e \in disk : d.rel = e.rel
        BY <2>a, <2>d
    <3> QED
        BY <2>a, <2>b, <2>d, <3>1
  <2>1. ASSUME NEW t \in Thread, Rename(t) PROVE Atomic!Next
    <3>1. disk' = disk \union {dir'} /\ dir'.rel # 0
        BY <2>1 DEF Rename, Becomes
    <3>2. kept' = kept \union {content'}
        BY <2>a, <2>b, <3>1
    <3> QED
        BY <2>b, <3>1, <3>2 DEF Atomic!Next, Atomic!Publish, content, kept
  <2>2. ASSUME NEW t \in Thread, sync_dir(t) PROVE [Atomic!Next]_(Atomic!vars)
    <3>1. dir' = dir /\ (disk' = {dir} \/ disk' = disk)
        BY <2>2 DEF sync_dir
    <3>2. CASE disk' = disk
        BY <3>1, <3>2, <2>c, <2>d
    <3>3. CASE disk' = {dir}
      <4>1. kept' = {content} /\ content' = content
          BY <3>1, <3>3, <2>a, <2>b
      <4> QED
          BY <4>1 DEF Atomic!Next, Atomic!Commit, content, kept
    <3> QED
        BY <3>1, <3>2, <3>3
  <2>3. CASE PowerLoss
    <3>1. dir' \in disk /\ disk' = {dir'}
        BY <2>3 DEF PowerLoss
    <3>2. content' \in kept /\ kept' = {content'}
        BY <3>1, <2>a, <2>b
    <3> QED
        BY <3>2 DEF Atomic!Next, Atomic!PowerLoss, content, kept
  <2>4. ASSUME NEW t \in Thread, Open(t) \/ Remove(t)
        PROVE  [Atomic!Next]_(Atomic!vars)
    <3>1. disk' = disk \union {dir'} /\ dir'.rel = dir.rel
      <4>1. dir \in DirRecord
          BY <1>2 DEF IInv, TypeOK
      <4> QED
          BY <2>4, <4>1 DEF Open, Remove, Becomes, DirRecord
    <3> QED
        BY <3>1, <2>c, <2>d
  <2>5. CASE UNCHANGED <<dir, disk>>
      BY <2>5, <2>c, <2>d
  <2>6. ASSUME NEW t \in Thread, Step(t) PROVE [Atomic!Next]_(Atomic!vars)
    <3>1. \/ Rename(t) \/ sync_dir(t) \/ Open(t) \/ Remove(t)
          \/ UNCHANGED <<dir, disk>>
        BY <2>6 DEF Step, write_atomic, Write, Sync, Fails, RemoveFails, RenameFails,
           SyncDirFails
    <3> QED
        BY <3>1, <2>1, <2>2, <2>4, <2>5
  <2>7. ASSUME NEW p \in Process, Die(p) PROVE [Atomic!Next]_(Atomic!vars)
      BY <2>7, <2>5 DEF Die
  <2>8. CASE UNCHANGED vars
      BY <2>8, <2>5 DEF vars
  <2> QED
      BY <1>2, <2>3, <2>6, <2>7, <2>8 DEF Next
<1> QED
    BY <1>1, <1>2, Invariance, PTL DEF Spec, ImplementsAtomicFile, Atomic!Spec

-----------------------------------------------------------------------------
(* FileHandles                                                             *)

DescRecord ==
    [open : BOOLEAN, pos : Nat, readable : BOOLEAN, writable : BOOLEAN,
     append : BOOLEAN, asked : BOOLEAN]

HandleType ==
    /\ system \in {"linux", "windows", "trackw", "mock"}
    /\ pipe \in BOOLEAN /\ cleared \in BOOLEAN
    /\ data \in Seq(Nat) /\ bytes \in Nat
    /\ desc \in [Handles -> DescRecord]
    /\ handle \in [Handles -> Handles \cup {0, -1}]
    /\ wrote \in [Handles -> Seq(Nat)] /\ got \in [Handles -> Seq(Nat)]

\* A description is opened before it is used, and once; who asked to append
\* does, and on the mock everybody.
Opened ==
    /\ \A h \in Handles : handle[h] > 0 => handle[handle[h]] # 0
    /\ \A h \in Handles : handle[h] = 0 => got[h] = <<>> /\ wrote[h] = <<>>
    /\ \A d \in Handles : desc[d].asked => desc[d].append
    /\ system = "mock" => ~pipe
    /\ system = "mock" => \A h \in Handles : handle[h] > 0 => desc[handle[h]].append

\* No byte has a number that is still to be given, and none is there twice.
Distinct(s) == \A i, j \in 1..Len(s) : i < j /\ s[i] # 0 => s[i] # s[j]
Below(s, b) == \A i \in 1..Len(s) : s[i] <= b
Fresh ==
    /\ Below(data, bytes) /\ Distinct(data)
    /\ \A d \in Handles : Below(got[d], bytes) /\ Distinct(got[d])

\* What was read through a description is not in front of it.
Place(d) == IF pipe THEN 0 ELSE desc[d].pos
Behind(g, s, p) == \A i \in 1..Len(g), j \in 1..Len(s) : g[i] # 0 /\ j > p => g[i] # s[j]
Consumed == \A d \in Handles : Behind(got[d], data, Place(d))

\* While writers are orderly the file is what was written, and a writer that
\* does not append is at its end.
Wrote == {d \in Handles : wrote[d] # <<>>}
Orderly == ~pipe /\ ~cleared /\ (Cardinality(Wrote) <= 1 \/ \A d \in Wrote : desc[d].asked)
InOrder ==
    /\ bytes > 0 => Wrote # {}
    /\ bytes = 0 => data = <<>> /\ \A d \in Handles : desc[d].pos = 0
    /\ Orderly => /\ Len(data) = bytes /\ \A i \in 1..bytes : data[i] = i
                  /\ \A d \in Wrote : ~desc[d].append => desc[d].pos = bytes

HandleInv == HandleType /\ Opened /\ Fresh /\ Consumed /\ InOrder /\ MovesOrEnds

-----------------------------------------------------------------------------
(* Sequences                                                               *)

\* Lesser is the smaller of two numbers.
LEMMA LesserOf ==
  ASSUME NEW x \in Nat, NEW y \in Nat
  PROVE /\ Lesser(x, y) \in Nat /\ Lesser(x, y) <= x /\ Lesser(x, y) <= y
        /\ Lesser(x, y) = x \/ Lesser(x, y) = y
BY DEF Lesser

\* What write leaves of a file s when it puts k new bytes at p.
Spliced(s, p, k, b) ==
    SubSeq(s, 1, Lesser(p, Len(s))) \o [i \in 1..(p - Lesser(p, Len(s))) |-> 0]
    \o [i \in 1..k |-> b + i] \o SubSeq(s, p + k + 1, Len(s))

\* The old bytes where they were, a hole up to p, and the new bytes.
Splices(out, s, p, k, b) ==
    /\ out \in Seq(Nat)
    /\ Len(out) = IF p + k < Len(s) THEN Len(s) ELSE p + k
    /\ \A i \in 1..Len(out) :
          out[i] = IF i <= p THEN (IF i <= Len(s) THEN s[i] ELSE 0)
                   ELSE IF i <= p + k THEN b + (i - p) ELSE s[i]

\* That is what the concatenation in write makes.
LEMMA Overwritten ==
  ASSUME NEW s \in Seq(Nat), NEW p \in Nat, NEW k \in Nat, NEW b \in Nat
  PROVE Splices(Spliced(s, p, k, b), s, p, k, b)
<1> DEFINE m == Lesser(p, Len(s))
<1>1. m \in Nat /\ m <= p /\ m <= Len(s) /\ (m = p \/ m = Len(s)) /\ Len(s) \in Nat
  BY LesserOf, LenProperties
<1> HIDE DEF m
<1>2. PICK A : A = SubSeq(s, 1, m)
  OBVIOUS
<1>3. A \in Seq(Nat) /\ Len(A) = m /\ \A i \in 1..m : A[i] = s[i]
  <2>1. \A i \in 1..m : s[i] \in Nat
    BY <1>1, LenProperties
  <2>2. /\ A \in Seq(Nat) /\ Len(A) = (IF 1 <= m THEN m - 1 + 1 ELSE 0)
        /\ \A i \in 1..(m - 1 + 1) : A[i] = s[1 + i - 1]
    BY <1>1, <1>2, <2>1, SubSeqProperties
  <2> QED
    BY <1>1, <2>2
<1>4. PICK Z : Z = [i \in 1..(p - m) |-> 0]
  OBVIOUS
<1>5. Z \in Seq(Nat) /\ Len(Z) = p - m /\ \A i \in 1..(p - m) : Z[i] = 0
  <2>1. p - m \in Nat /\ Z \in [1..(p - m) -> Nat]
    BY <1>1, <1>4
  <2> QED
    BY <2>1, <1>4
<1>6. PICK N : N = [i \in 1..k |-> b + i]
  OBVIOUS
<1>7. N \in Seq(Nat) /\ Len(N) = k /\ \A i \in 1..k : N[i] = b + i
  <2>1. N \in [1..k -> Nat]
    BY <1>6
  <2> QED
    BY <2>1, <1>6
<1>8. PICK T : T = SubSeq(s, p + k + 1, Len(s))
  OBVIOUS
<1>9. /\ T \in Seq(Nat) /\ Len(T) = (IF p + k < Len(s) THEN Len(s) - (p + k) ELSE 0)
      /\ \A i \in 1..Len(T) : T[i] = s[p + k + i]
  <2>1. \A i \in (p + k + 1)..Len(s) : s[i] \in Nat
    BY <1>1, LenProperties
  <2>2. /\ T \in Seq(Nat) /\ Len(T) = (IF p + k + 1 <= Len(s) THEN Len(s) - (p + k + 1) + 1 ELSE 0)
        /\ \A i \in 1..(Len(s) - (p + k + 1) + 1) : T[i] = s[p + k + 1 + i - 1]
    BY <1>1, <1>8, <2>1, SubSeqProperties
  <2> QED
    BY <1>1, <2>2
<1>10. PICK B : B = A \o Z
  OBVIOUS
<1>11. /\ B \in Seq(Nat) /\ Len(B) = p
       /\ \A i \in 1..p : B[i] = IF i <= m THEN s[i] ELSE 0
  <2>1. /\ B \in Seq(Nat) /\ Len(B) = Len(A) + Len(Z)
        /\ \A i \in 1..(Len(A) + Len(Z)) : B[i] = IF i <= Len(A) THEN A[i] ELSE Z[i - Len(A)]
    BY <1>3, <1>5, <1>10, ConcatProperties
  <2>2. Len(A) = m /\ Len(Z) = p - m /\ Len(A) + Len(Z) = p
    BY <1>1, <1>3, <1>5
  <2>3. ASSUME NEW i \in 1..p PROVE B[i] = IF i <= m THEN s[i] ELSE 0
    <3>1. B[i] = IF i <= m THEN A[i] ELSE Z[i - m]
      BY <2>1, <2>2
    <3>2. CASE i <= m
      BY <3>1, <3>2, <1>3
    <3>3. CASE ~(i <= m)
      <4>1. i - m \in 1..(p - m)
        BY <1>1, <3>3
      <4> QED
        BY <4>1, <3>1, <3>3, <1>5
    <3> QED
      BY <3>2, <3>3
  <2> QED
    BY <2>1, <2>2, <2>3
<1>12. PICK C : C = B \o N
  OBVIOUS
<1>13. /\ C \in Seq(Nat) /\ Len(C) = p + k
       /\ \A i \in 1..(p + k) : C[i] = IF i <= p THEN B[i] ELSE b + (i - p)
  <2>1. /\ C \in Seq(Nat) /\ Len(C) = Len(B) + Len(N)
        /\ \A i \in 1..(Len(B) + Len(N)) : C[i] = IF i <= Len(B) THEN B[i] ELSE N[i - Len(B)]
    BY <1>11, <1>7, <1>12, ConcatProperties
  <2> QED
    BY <1>11, <1>7, <2>1
<1>14. PICK out : out = C \o T
  OBVIOUS
<1>15. out = Spliced(s, p, k, b)
  BY <1>2, <1>4, <1>6, <1>8, <1>10, <1>12, <1>14, Zenon DEF m, Spliced
<1>16. /\ out \in Seq(Nat) /\ Len(out) = Len(C) + Len(T)
       /\ \A i \in 1..(Len(C) + Len(T)) : out[i] = IF i <= Len(C) THEN C[i] ELSE T[i - Len(C)]
  BY <1>13, <1>9, <1>14, ConcatProperties
<1>17. /\ Len(C) = p + k /\ Len(C) \in Nat /\ Len(T) \in Nat /\ Len(s) \in Nat
       /\ Len(T) = IF p + k < Len(s) THEN Len(s) - (p + k) ELSE 0
  BY <1>1, <1>13, <1>9
<1>18. /\ p + k < Len(s) => Len(T) = Len(s) - (p + k)
       /\ ~(p + k < Len(s)) => Len(T) = 0
  BY <1>17, Zenon
<1>19. PICK c \in Nat, e \in Nat, l \in Nat :
          /\ c = Len(C) /\ e = Len(T) /\ l = Len(s) /\ c = p + k
          /\ p + k < l => e = l - (p + k)
          /\ ~(p + k < l) => e = 0
  BY <1>17, <1>18, Zenon
<1>20. Len(out) = IF p + k < Len(s) THEN Len(s) ELSE p + k
  <2>1. Len(out) = c + e
    BY <1>16, <1>19
  <2>2. c + e = IF p + k < l THEN l ELSE p + k
    BY <1>19
  <2> QED
    BY <2>1, <2>2, <1>19
<1>21. ASSUME NEW i \in 1..Len(out)
       PROVE out[i] = IF i <= p THEN (IF i <= Len(s) THEN s[i] ELSE 0)
                      ELSE IF i <= p + k THEN b + (i - p) ELSE s[i]
  <2>1. CASE i <= p + k
    <3>1. i \in 1..(p + k) /\ out[i] = C[i]
      <4>1. i \in 1..(Len(C) + Len(T)) /\ i <= Len(C)
        BY <1>16, <1>19, <2>1
      <4>2. out[i] = C[i]
        BY <4>1, <1>16, <1>19
      <4> QED
        BY <4>1, <4>2, <1>19
    <3>2. CASE i <= p
      BY <3>1, <3>2, <1>13, <1>11, <1>1
    <3>3. CASE ~(i <= p)
      BY <3>1, <3>3, <1>13, <2>1
    <3> QED
      BY <3>2, <3>3
  <2>2. CASE ~(i <= p + k)
    <3>1. i - (p + k) \in 1..Len(T) /\ out[i] = T[i - (p + k)]
      <4>1. i \in 1..(c + e) /\ i - c \in 1..e /\ ~(i <= c)
        BY <1>16, <1>19, <2>2
      <4>2. out[i] = T[i - Len(C)]
        BY <4>1, <1>16, <1>19
      <4> QED
        BY <4>1, <4>2, <1>19
    <3>2. T[i - (p + k)] = s[p + k + (i - (p + k))]
      BY <3>1, <1>9
    <3>3. p + k + (i - (p + k)) = i
      OBVIOUS
    <3> QED
      BY <3>1, <3>2, <3>3, <2>2
  <2> QED
    BY <2>1, <2>2
<1> QED
  BY <1>16, <1>20, <1>21, <1>15, Zenon DEF Splices

\* What a reader takes: k bytes of s behind p.
LEMMA Taken ==
  ASSUME NEW s \in Seq(Nat), NEW p \in Nat, NEW k \in Nat
  PROVE /\ Len(SubSeq(s, p + 1, Len(s))) = (IF p < Len(s) THEN Len(s) - p ELSE 0)
        /\ SubSeq(s, p + 1, Len(s)) = <<>> => ~(p < Len(s))
        /\ ~(p < Len(s)) => SubSeq(s, p + 1, Len(s)) = <<>>
        /\ SubSeq(s, p + 1, Len(s)) \in Seq(Nat)
        /\ \A i \in 1..(Len(s) - p) : SubSeq(s, p + 1, Len(s))[i] = s[p + i]
<1>1. Len(s) \in Nat /\ \A i \in (p + 1)..Len(s) : s[i] \in Nat
  BY LenProperties
<1>2. PICK r : r = SubSeq(s, p + 1, Len(s))
  OBVIOUS
<1>3. /\ r \in Seq(Nat) /\ Len(r) = (IF p + 1 <= Len(s) THEN Len(s) - (p + 1) + 1 ELSE 0)
      /\ \A i \in 1..(Len(s) - (p + 1) + 1) : r[i] = s[p + 1 + i - 1]
  BY <1>1, <1>2, SubSeqProperties
<1>4. /\ Len(s) - (p + 1) + 1 = Len(s) - p
      /\ \A i \in 1..(Len(s) - p) : p + 1 + i - 1 = p + i
      /\ p + 1 <= Len(s) <=> p < Len(s)
  BY <1>1
<1>5. Len(r) = (IF p < Len(s) THEN Len(s) - p ELSE 0)
  BY <1>3, <1>4
<1>6. \A i \in 1..(Len(s) - p) : r[i] = s[p + i]
  BY <1>3, <1>4
<1>7. p < Len(s) => r # <<>>
  BY <1>1, <1>5
<1>8. ~(p < Len(s)) => r = <<>>
  BY <1>3, <1>5, EmptySeq
<1> QED
  BY <1>2, <1>3, <1>5, <1>6, <1>7, <1>8

\* The first k of them.
LEMMA FirstOf ==
  ASSUME NEW r \in Seq(Nat), NEW k \in Nat, k <= Len(r)
  PROVE /\ SubSeq(r, 1, k) \in Seq(Nat) /\ Len(SubSeq(r, 1, k)) = k
        /\ \A i \in 1..k : SubSeq(r, 1, k)[i] = r[i]
<1>1. \A i \in 1..k : r[i] \in Nat
  BY LenProperties
<1>2. PICK q : q = SubSeq(r, 1, k)
  OBVIOUS
<1>3. /\ q \in Seq(Nat) /\ Len(q) = (IF 1 <= k THEN k - 1 + 1 ELSE 0)
      /\ \A i \in 1..(k - 1 + 1) : q[i] = r[1 + i - 1]
  BY <1>1, <1>2, SubSeqProperties
<1>4. Len(q) = k
  BY <1>3
<1>5. ASSUME NEW i \in 1..k PROVE q[i] = r[i]
  <2>1. i \in 1..(k - 1 + 1) /\ 1 + i - 1 = i
    OBVIOUS
  <2> QED
    BY <2>1, <1>3
<1> QED
  BY <1>2, <1>3, <1>4, <1>5

\* Bytes that are new to a reader stay distinct from what it has.
LEMMA Joined ==
  ASSUME NEW g \in Seq(Nat), NEW q \in Seq(Nat), NEW b \in Nat,
         Distinct(g), Distinct(q), Below(g, b), Below(q, b),
         \A i \in 1..Len(g), j \in 1..Len(q) : g[i] # 0 => g[i] # q[j]
  PROVE /\ g \o q \in Seq(Nat) /\ Distinct(g \o q) /\ Below(g \o q, b)
        /\ \A i \in 1..Len(g \o q) :
              \/ \E x \in 1..Len(g) : (g \o q)[i] = g[x]
              \/ \E x \in 1..Len(q) : (g \o q)[i] = q[x]
<1>1. PICK u : u = g \o q
  OBVIOUS
<1>2. /\ u \in Seq(Nat) /\ Len(u) = Len(g) + Len(q)
      /\ \A i \in 1..(Len(g) + Len(q)) : u[i] = IF i <= Len(g) THEN g[i] ELSE q[i - Len(g)]
  BY <1>1, ConcatProperties
<1>3. Len(g) \in Nat /\ Len(q) \in Nat
  BY LenProperties
<1>4. ASSUME NEW i \in 1..Len(u)
      PROVE /\ i <= Len(g) => i \in 1..Len(g) /\ u[i] = g[i]
            /\ ~(i <= Len(g)) => i - Len(g) \in 1..Len(q) /\ u[i] = q[i - Len(g)]
  BY <1>2, <1>3
<1>5. Below(u, b)
  BY <1>4 DEF Below
<1>6. ASSUME NEW i \in 1..Len(u), NEW j \in 1..Len(u), i < j, u[i] # 0 PROVE u[i] # u[j]
  <2>1. CASE j <= Len(g)
    <3>1. i <= Len(g)
      BY <1>3, <1>6, <2>1, <1>2
    <3> QED
      BY <3>1, <2>1, <1>4, <1>6 DEF Distinct
  <2>2. CASE ~(j <= Len(g)) /\ i <= Len(g)
    BY <2>2, <1>4, <1>6
  <2>3. CASE ~(j <= Len(g)) /\ ~(i <= Len(g))
    <3>1. i - Len(g) < j - Len(g)
      BY <1>2, <1>3, <1>6
    <3> QED
      BY <3>1, <2>3, <1>4, <1>6 DEF Distinct
  <2> QED
    BY <2>1, <2>2, <2>3
<1>7. ASSUME NEW i \in 1..Len(u)
      PROVE \/ \E x \in 1..Len(g) : u[i] = g[x]
            \/ \E x \in 1..Len(q) : u[i] = q[x]
  BY <1>4
<1> QED
  BY <1>1, <1>2, <1>5, <1>6, <1>7 DEF Distinct

\* A set of at most one element, and what it is a superset of.
LEMMA AtMostOne ==
  ASSUME NEW S, NEW T, IsFiniteSet(T), S \subseteq T, Cardinality(T) <= 1
  PROVE Cardinality(S) <= 1 /\ \A x, y \in T : x = y
<1>1. Cardinality(T) \in Nat /\ Cardinality(S) \in Nat /\ Cardinality(S) <= Cardinality(T)
  BY FS_Subset, FS_CardinalityType
<1>2. ASSUME NEW x \in T, NEW y \in T PROVE x = y
  <2>1. Cardinality(T) # 0
    BY FS_EmptySet
  <2>2. Cardinality(T) = 1
    BY <1>1, <2>1
  <2>3. \E z : T = {z}
    BY <2>2, FS_Singleton
  <2> QED
    BY <2>3
<1> QED
  BY <1>1, <1>2

-----------------------------------------------------------------------------
(* The invariant                                                           *)

\* At first there is nothing to read, and nobody but the ends of a pipe.
LEMMA HandlesStart == ASSUME HandleParameters, FInit PROVE HandleInv
<1>1. /\ system \in {"linux", "windows", "trackw", "mock"} /\ pipe \in BOOLEAN
      /\ system = "mock" => ~pipe
  BY DEF HandleParameters, FInit
<1>2. NoDesc \in DescRecord /\ NoDesc.pos = 0 /\ ~NoDesc.asked
  BY DEF NoDesc, DescRecord
<1>3. ASSUME NEW d \in Handles PROVE desc[d] \in DescRecord /\ desc[d].pos = 0 /\ ~desc[d].asked
  BY <1>2 DEF FInit, NoDesc, DescRecord
<1>4. desc \in [Handles -> DescRecord]
  BY <1>3 DEF FInit
<1>5. handle \in [Handles -> Handles \cup {0, -1}]
  BY DEF FInit
<1>6. /\ data = <<>> /\ bytes = 0 /\ cleared = FALSE /\ result = "some"
      /\ wrote \in [Handles -> Seq(Nat)] /\ got \in [Handles -> Seq(Nat)]
      /\ \A d \in Handles : wrote[d] = <<>> /\ got[d] = <<>>
  BY DEF FInit
<1>7. HandleType
  <2>1. <<>> \in Seq(Nat) /\ 0 \in Nat
    OBVIOUS
  <2>2. data \in Seq(Nat) /\ bytes \in Nat /\ cleared \in BOOLEAN
    BY <2>1, <1>6, Zenon
  <2> QED
    BY <1>1, <1>4, <1>5, <1>6, <2>2 DEF HandleType
<1>8. Opened
  <2>1. ASSUME NEW h \in Handles, handle[h] > 0 PROVE handle[handle[h]] # 0 /\ pipe
    <3>1. pipe /\ h \in {1, 2} /\ handle[h] = h
      BY <2>1 DEF FInit
    <3> QED
      BY <3>1, <2>1
  <2> QED
    BY <2>1, <1>1, <1>3, <1>6 DEF Opened
<1>9. Fresh /\ Consumed
  BY <1>6 DEF Fresh, Consumed, Below, Distinct, Behind
<1>10. Wrote = {} /\ Len(data) = 0
  BY <1>6 DEF Wrote
<1>11. InOrder
  BY <1>3, <1>6, <1>10 DEF InOrder
<1> QED
  BY <1>6, <1>7, <1>8, <1>9, <1>11 DEF HandleInv, MovesOrEnds

\* An open handle has a description.
LEMMA Described ==
  ASSUME HandleType, NEW h \in Handles, handle[h] > 0
  PROVE handle[h] \in Handles
<1>1. handle[h] \in Handles \cup {0, -1}
  BY DEF HandleType
<1> QED
  BY <1>1

\* What a backend grants starts at the beginning, and appends where the caller
\* asked for it, on the mock always.
LEMMA Granted ==
  ASSUME NEW o \in [read : BOOLEAN, write : BOOLEAN, append : BOOLEAN, truncate : BOOLEAN],
         NEW g, g = [(IF system = "linux" THEN linux_grants(o)
                      ELSE IF Windows THEN windows_grants(o) ELSE mock_grants(o)) EXCEPT !.asked = o.append]
  PROVE /\ g \in DescRecord /\ g.pos = 0 /\ (g.asked => g.append)
        /\ system = "mock" => g.append
<1>1. o.read \in BOOLEAN /\ o.write \in BOOLEAN /\ o.append \in BOOLEAN
  OBVIOUS
<1>2. CASE system = "linux"
  BY <1>1, <1>2 DEF linux_grants, NoDesc, DescRecord
<1>3. CASE system # "linux" /\ Windows
  BY <1>1, <1>3 DEF windows_grants, NoDesc, DescRecord, Windows
<1>4. CASE system # "linux" /\ ~Windows
  BY <1>1, <1>4 DEF mock_grants, NoDesc, DescRecord
<1> QED
  BY <1>2, <1>3, <1>4

\* An open adds a description nobody has used.
LEMMA OpenKeeps ==
  ASSUME HandleParameters, HandleInv, NEW h \in Handles, NEW o \in OpenModes, open_file(h, o)
  PROVE HandleInv'
<1>1. PICK g : /\ g = [(IF system = "linux" THEN linux_grants(o)
                        ELSE IF Windows THEN windows_grants(o) ELSE mock_grants(o)) EXCEPT !.asked = o.append]
               /\ desc' = [desc EXCEPT ![h] = g]
  BY DEF open_file
<1>2. g \in DescRecord /\ g.pos = 0 /\ (g.asked => g.append) /\ (system = "mock" => g.append)
  <2>1. o \in [read : BOOLEAN, write : BOOLEAN, append : BOOLEAN, truncate : BOOLEAN]
    BY DEF HandleParameters
  <2> QED
    BY <1>1, <2>1, Granted
<1>3. /\ ~pipe /\ handle[h] = 0 /\ handle' = [handle EXCEPT ![h] = h]
      /\ data' = (IF o.truncate THEN <<>> ELSE data)
      /\ cleared' = (cleared \/ (o.truncate /\ bytes > 0))
      /\ UNCHANGED <<system, pipe, bytes, wrote, got, result>>
  BY DEF open_file, NewHandle
<1>4. HandleType /\ o.truncate \in BOOLEAN /\ Handles \subseteq Nat \ {0}
  BY FS_CardinalityType DEF HandleInv, HandleParameters
<1>5. HandleType'
  <2>1. desc' \in [Handles -> DescRecord] /\ handle' \in [Handles -> Handles \cup {0, -1}]
    BY <1>1, <1>2, <1>3, <1>4 DEF HandleType
  <2>2. data' \in Seq(Nat) /\ cleared' \in BOOLEAN
    BY <1>3, <1>4 DEF HandleType
  <2> QED
    BY <2>1, <2>2, <1>3, <1>4 DEF HandleType
<1>6. ASSUME NEW d \in Handles PROVE /\ d # h => desc'[d] = desc[d] /\ handle'[d] = handle[d]
                                     /\ desc'[h] = g /\ handle'[h] = h
  BY <1>1, <1>3, <1>4 DEF HandleType
<1>7. got[h] = <<>> /\ wrote[h] = <<>> /\ \A k \in Handles : handle[k] > 0 => handle[k] # h
  BY <1>3 DEF HandleInv, Opened
<1>8. Opened'
  <2>1. ASSUME NEW k \in Handles, handle'[k] > 0
        PROVE handle'[handle'[k]] # 0 /\ (system = "mock" => desc'[handle'[k]].append)
    <3>1. CASE k = h
      BY <3>1, <1>2, <1>4, <1>6
    <3>2. CASE k # h
      <4>1. handle'[k] = handle[k] /\ handle[k] \in Handles /\ handle[k] # h
        <5>1. handle'[k] = handle[k]
          BY <3>2, <1>6
        <5>2. handle[k] > 0 /\ handle[k] \in Handles
          BY <5>1, <2>1, <1>4, Described
        <5> QED
          BY <5>1, <5>2, <1>7
      <4>2. handle'[handle[k]] = handle[handle[k]] /\ desc'[handle[k]] = desc[handle[k]]
        BY <4>1, <1>6
      <4> QED
        BY <4>1, <4>2, <2>1 DEF HandleInv, Opened
    <3> QED
      BY <3>1, <3>2
  <2>2. ASSUME NEW k \in Handles, handle'[k] = 0 PROVE got[k] = <<>> /\ wrote[k] = <<>>
    BY <2>2, <1>6, <1>7 DEF HandleInv, Opened
  <2>3. ASSUME NEW d \in Handles, desc'[d].asked PROVE desc'[d].append
    BY <2>3, <1>2, <1>6 DEF HandleInv, Opened
  <2> QED
    BY <2>1, <2>2, <2>3, <1>3 DEF HandleInv, Opened
<1>9. Fresh'
  BY <1>3 DEF HandleInv, Fresh, Below, Distinct
<1>10. Consumed'
  <2>1. ASSUME NEW d \in Handles PROVE Behind(got[d], data', Place(d)')
    <3>1. CASE d = h
      BY <3>1, <1>7 DEF Behind
    <3>2. CASE d # h
      <4>1. Place(d)' = Place(d)
        BY <3>2, <1>3, <1>6 DEF Place
      <4>2. Behind(got[d], data, Place(d))
        BY DEF HandleInv, Consumed
      <4> QED
        BY <4>1, <4>2, <1>3 DEF Behind
    <3> QED
      BY <3>1, <3>2
  <2> QED
    BY <2>1, <1>3 DEF Consumed
<1>11. InOrder'
  <2>1. Wrote' = Wrote /\ h \notin Wrote
    BY <1>3, <1>7 DEF Wrote
  <2>2. ASSUME NEW d \in Wrote PROVE d \in Handles /\ desc'[d] = desc[d]
    BY <2>1, <1>6 DEF Wrote
  <2>3. bytes = 0 => data' = <<>> /\ \A d \in Handles : desc'[d].pos = 0
    BY <1>2, <1>3, <1>6 DEF HandleInv, InOrder
  <2>4. ASSUME Orderly' PROVE Orderly /\ data' = data
    <3>1. ~cleared /\ (o.truncate => bytes = 0)
      BY <2>4, <1>3, <1>4 DEF Orderly, HandleType
    <3>2. data' = data
      BY <3>1, <1>3 DEF HandleInv, InOrder
    <3> QED
      BY <3>1, <3>2, <2>1, <2>2, <2>4, <1>3 DEF Orderly
  <2> QED
    BY <2>1, <2>2, <2>3, <2>4, <1>3 DEF HandleInv, InOrder
<1>12. MovesOrEnds'
  BY <1>3 DEF HandleInv, MovesOrEnds
<1> QED
  BY <1>5, <1>8, <1>9, <1>10, <1>11, <1>12 DEF HandleInv

\* A clone is one more handle on the same description.
LEMMA CloneKeeps ==
  ASSUME HandleParameters, HandleInv, NEW h \in Handles, NEW c \in Handles, try_clone(h, c)
  PROVE HandleInv'
<1>1. /\ handle[h] > 0 /\ handle[c] = 0 /\ handle' = [handle EXCEPT ![c] = handle[h]]
      /\ UNCHANGED <<system, pipe, data, desc, bytes, wrote, got, cleared, result>>
  BY DEF try_clone, NewHandle, dup_cloexec, duplicate, mock_try_clone
<1>2. HandleType
  BY DEF HandleInv
<1>3. HandleType'
  BY <1>1, <1>2 DEF HandleType
<1>4. ASSUME NEW k \in Handles PROVE handle'[k] = IF k = c THEN handle[h] ELSE handle[k]
  BY <1>1, <1>2 DEF HandleType
<1>5. Opened'
  <2>1. ASSUME NEW k \in Handles, handle'[k] > 0
        PROVE handle'[handle'[k]] # 0 /\ (system = "mock" => desc[handle'[k]].append)
    <3>1. PICK m \in Handles : handle[m] > 0 /\ handle'[k] = handle[m]
      BY <2>1, <1>1, <1>4
    <3>2. handle[m] \in Handles
      BY <3>1, <1>2, Described
    <3>3. handle[handle[m]] # 0 /\ (system = "mock" => desc[handle[m]].append)
      BY <3>1 DEF HandleInv, Opened
    <3>4. handle'[handle[m]] # 0
      BY <3>2, <3>3, <1>1, <1>4
    <3> QED
      BY <3>1, <3>3, <3>4
  <2>2. ASSUME NEW k \in Handles, handle'[k] = 0 PROVE got[k] = <<>> /\ wrote[k] = <<>>
    BY <2>2, <1>1, <1>4 DEF HandleInv, Opened
  <2> QED
    BY <2>1, <2>2, <1>1 DEF HandleInv, Opened
<1>6. (Fresh /\ Consumed /\ InOrder /\ MovesOrEnds)'
  BY <1>1 DEF HandleInv, Fresh, Consumed, Place, InOrder, Orderly, Wrote, MovesOrEnds
<1> QED
  BY <1>3, <1>5, <1>6 DEF HandleInv

\* A drop changes no position, and nobody gets its handle again.
LEMMA DropKeeps ==
  ASSUME HandleParameters, HandleInv, NEW h \in Handles, drop(h)
  PROVE HandleInv'
<1> DEFINE x == \E k \in Handles : k # h /\ handle[k] = handle[h]
<1>1. /\ handle[h] > 0 /\ handle' = [handle EXCEPT ![h] = -1]
      /\ desc' = [desc EXCEPT ![handle[h]].open = x]
      /\ UNCHANGED <<system, pipe, data, bytes, wrote, got, cleared, result>>
  BY DEF drop
<1>2. x \in BOOLEAN
  OBVIOUS
<1> HIDE DEF x
<1>3. HandleType
  BY DEF HandleInv
<1>4. desc' \in [Handles -> DescRecord]
  BY <1>1, <1>2, <1>3 DEF HandleType, DescRecord
<1>5. ASSUME NEW d \in Handles
      PROVE /\ desc'[d].pos = desc[d].pos /\ desc'[d].append = desc[d].append
            /\ desc'[d].asked = desc[d].asked
  BY <1>1, <1>3 DEF HandleType, DescRecord
<1>6. HandleType'
  BY <1>1, <1>3, <1>4 DEF HandleType
<1>7. ASSUME NEW k \in Handles PROVE handle'[k] = IF k = h THEN -1 ELSE handle[k]
  BY <1>1, <1>3 DEF HandleType
<1>8. Opened'
  <2>1. ASSUME NEW k \in Handles, handle'[k] > 0
        PROVE handle'[handle'[k]] # 0 /\ (system = "mock" => desc'[handle'[k]].append)
    <3>1. handle[k] > 0 /\ handle'[k] = handle[k]
      BY <2>1, <1>7
    <3>2. handle[k] \in Handles
      BY <3>1, <1>3, Described
    <3>3. handle[handle[k]] # 0 /\ (system = "mock" => desc[handle[k]].append)
      BY <3>1 DEF HandleInv, Opened
    <3>4. handle'[handle[k]] # 0 /\ desc'[handle[k]].append = desc[handle[k]].append
      BY <3>2, <3>3, <1>5, <1>7
    <3> QED
      BY <3>1, <3>3, <3>4
  <2>2. ASSUME NEW k \in Handles, handle'[k] = 0 PROVE got[k] = <<>> /\ wrote[k] = <<>>
    BY <2>2, <1>7 DEF HandleInv, Opened
  <2>3. ASSUME NEW d \in Handles, desc'[d].asked PROVE desc'[d].append
    BY <2>3, <1>5 DEF HandleInv, Opened
  <2> QED
    BY <2>1, <2>2, <2>3, <1>1 DEF HandleInv, Opened
<1>9. (Fresh /\ MovesOrEnds)'
  BY <1>1 DEF HandleInv, Fresh, MovesOrEnds
<1>10. Consumed'
  BY <1>1, <1>5 DEF HandleInv, Consumed, Place
<1>11. InOrder'
  <2>1. Wrote' = Wrote /\ Wrote \subseteq Handles
    BY <1>1 DEF Wrote
  <2>2. Orderly' => Orderly
    BY <2>1, <1>1, <1>5 DEF Orderly
  <2> QED
    BY <2>1, <2>2, <1>1, <1>5 DEF HandleInv, InOrder
<1> QED
  BY <1>6, <1>8, <1>9, <1>10, <1>11 DEF HandleInv

\* A call is given at least one byte.
LEMMA GivenSome ==
  ASSUME HandleParameters, NEW size \in Lengths
  PROVE Given(size) \in Nat \ {0} /\ Given(size) <= size
<1>1. size \in Nat \ {0} /\ MaxU32 \in Nat \ {0}
  BY DEF HandleParameters
<1> QED
  BY <1>1, LesserOf DEF Given, windows_len, trackw_len, linux_len

\* A read takes what follows its position, or the front of a pipe; it takes
\* nothing only at the end.
LEMMA ReadTakes ==
  ASSUME HandleParameters, HandleInv, NEW h \in Handles, NEW size \in Lengths, read(h, size)
  PROVE \E q \in Seq(Nat) :
          /\ got' = [got EXCEPT ![handle[h]] = @ \o q]
          /\ \A i \in 1..Len(q) : /\ Place(handle[h]) + i \in 1..Len(data)
                                  /\ q[i] = data[Place(handle[h]) + i]
          /\ result' \in {"some", "end"}
          /\ \/ ~pipe /\ data' = data /\ desc' = [desc EXCEPT ![handle[h]].pos = @ + Len(q)]
             \/ pipe /\ data' = SubSeq(data, Len(q) + 1, Len(data)) /\ desc' = desc
<1> DEFINE d == handle[h]
<1>1. HandleType /\ d \in Handles /\ Given(size) \in Nat \ {0}
  BY GivenSome, Described DEF HandleInv, read
<1>2. data \in Seq(Nat) /\ Len(data) \in Nat /\ desc[d].pos \in Nat /\ pipe \in BOOLEAN
  BY <1>1, LenProperties DEF HandleType, DescRecord
<1>3. CASE ~pipe
  <2>1. PICK rest : rest = SubSeq(data, desc[d].pos + 1, Len(data))
    OBVIOUS
  <2>2. PICK k : k = Lesser(Given(size), Len(rest))
    OBVIOUS
  <2>3. /\ got' = [got EXCEPT ![d] = @ \o SubSeq(rest, 1, k)]
        /\ desc' = [desc EXCEPT ![d].pos = @ + k]
        /\ result' = IF k > 0 THEN "some" ELSE IF rest = <<>> THEN "end" ELSE "none"
        /\ data' = data
    BY <1>3, <2>1, <2>2 DEF read, read_file
  <2>4. /\ rest \in Seq(Nat) /\ Len(rest) = (IF desc[d].pos < Len(data) THEN Len(data) - desc[d].pos ELSE 0)
        /\ \A i \in 1..(Len(data) - desc[d].pos) : rest[i] = data[desc[d].pos + i]
        /\ ~(desc[d].pos < Len(data)) => rest = <<>>
    BY <1>2, <2>1, Taken
  <2>5. Len(rest) \in Nat /\ (Len(rest) = 0 => rest = <<>>)
    BY <2>4, EmptySeq, LenProperties
  <2>6. k \in Nat /\ k <= Len(rest) /\ (k = 0 => Len(rest) = 0)
    BY <1>1, <2>2, <2>5, LesserOf
  <2>7. PICK q : q = SubSeq(rest, 1, k)
    OBVIOUS
  <2>8. q \in Seq(Nat) /\ Len(q) = k /\ \A i \in 1..k : q[i] = rest[i]
    BY <2>4, <2>6, <2>7, FirstOf
  <2>9. ASSUME NEW i \in 1..Len(q)
        PROVE Place(d) + i \in 1..Len(data) /\ q[i] = data[Place(d) + i]
    <3>1. Place(d) = desc[d].pos /\ i \in 1..k
      BY <1>3, <2>8 DEF Place
    <3>2. Len(rest) = Len(data) - desc[d].pos
      BY <3>1, <1>2, <2>4, <2>6
    <3>3. i \in 1..(Len(data) - desc[d].pos)
      BY <3>1, <3>2, <2>6, <2>5
    <3>4. q[i] = data[desc[d].pos + i]
      BY <3>1, <3>3, <2>4, <2>8
    <3>5. desc[d].pos + i \in 1..Len(data)
      BY <3>3, <1>2
    <3> QED
      BY <3>1, <3>4, <3>5
  <2>10. result' \in {"some", "end"}
    BY <2>3, <2>5, <2>6
  <2> QED
    BY <1>3, <2>3, <2>7, <2>8, <2>9, <2>10
<1>4. CASE pipe
  <2>1. PICK k : k = Lesser(Given(size), Len(data))
    OBVIOUS
  <2>2. /\ got' = [got EXCEPT ![d] = @ \o SubSeq(data, 1, k)]
        /\ data' = SubSeq(data, k + 1, Len(data))
        /\ result' = IF k > 0 THEN "some" ELSE IF data = <<>> THEN AtEnd ELSE "none"
        /\ desc' = desc
    BY <1>4, <2>1 DEF read, read_pipe
  <2>3. k \in Nat /\ k <= Len(data) /\ (k = 0 => Len(data) = 0)
    BY <1>1, <1>2, <2>1, LesserOf
  <2>4. k = 0 => data = <<>>
    BY <2>3, <1>2, EmptySeq
  <2>5. AtEnd = "end"
    BY DEF AtEnd, windows_eof, trackw_eof
  <2>6. PICK q : q = SubSeq(data, 1, k)
    OBVIOUS
  <2>7. q \in Seq(Nat) /\ Len(q) = k /\ \A i \in 1..k : q[i] = data[i]
    BY <1>2, <2>3, <2>6, FirstOf
  <2>8. ASSUME NEW i \in 1..Len(q)
        PROVE Place(d) + i \in 1..Len(data) /\ q[i] = data[Place(d) + i]
    <3>1. Place(d) = 0 /\ i \in 1..k /\ 0 + i = i
      BY <1>4, <2>7 DEF Place
    <3>2. i \in 1..Len(data)
      BY <3>1, <2>3, <1>2
    <3> QED
      BY <3>1, <3>2, <2>7
  <2>9. result' \in {"some", "end"}
    BY <2>2, <2>3, <2>4, <2>5
  <2> QED
    BY <1>4, <2>2, <2>6, <2>7, <2>8, <2>9
<1> QED
  BY <1>3, <1>4

\* A read keeps the invariant.
LEMMA ReadKeeps ==
  ASSUME HandleParameters, HandleInv, NEW h \in Handles, NEW size \in Lengths, read(h, size)
  PROVE HandleInv'
<1>1. PICK q \in Seq(Nat) :
          /\ got' = [got EXCEPT ![handle[h]] = @ \o q]
          /\ \A i \in 1..Len(q) : /\ Place(handle[h]) + i \in 1..Len(data)
                                  /\ q[i] = data[Place(handle[h]) + i]
          /\ result' \in {"some", "end"}
          /\ \/ ~pipe /\ data' = data /\ desc' = [desc EXCEPT ![handle[h]].pos = @ + Len(q)]
             \/ pipe /\ data' = SubSeq(data, Len(q) + 1, Len(data)) /\ desc' = desc
  BY ReadTakes
<1>2. PICK d \in Handles : d = handle[h]
  BY Described DEF HandleInv, read
<1>3. UNCHANGED <<system, pipe, handle, bytes, wrote, cleared>> /\ handle[h] > 0
  BY DEF read
<1>4. HandleType
  BY DEF HandleInv
<1>5. /\ data \in Seq(Nat) /\ Len(data) \in Nat /\ Len(q) \in Nat /\ bytes \in Nat /\ pipe \in BOOLEAN
      /\ \A e \in Handles : desc[e].pos \in Nat /\ Place(e) \in Nat
      /\ \A i \in 1..Len(data) : data[i] \in Nat
  BY <1>4, LenProperties DEF HandleType, DescRecord, Place
<1>6. ASSUME NEW e \in Handles
      PROVE /\ desc'[e].pos = IF ~pipe /\ e = d THEN desc[e].pos + Len(q) ELSE desc[e].pos
            /\ desc'[e].append = desc[e].append /\ desc'[e].asked = desc[e].asked
            /\ got'[e] = IF e = d THEN got[e] \o q ELSE got[e]
  BY <1>1, <1>2, <1>4 DEF HandleType, DescRecord
<1>7. data' \in Seq(Nat) /\ Len(data') \in Nat
  <2>1. CASE ~pipe
    BY <2>1, <1>1, <1>5
  <2>2. CASE pipe
    <3>1. data' = SubSeq(data, Len(q) + 1, Len(data))
      BY <2>2, <1>1
    <3>2. data' \in Seq(Nat)
      BY <3>1, <1>5, Taken
    <3> QED
      BY <3>2, LenProperties
  <2> QED
    BY <2>1, <2>2
\* What is left of the data was there before, further on.
<1>8. PICK s \in Nat : /\ s = (IF pipe THEN Len(q) ELSE 0)
                       /\ \A j \in 1..Len(data') : j + s \in 1..Len(data) /\ data'[j] = data[j + s]
  <2>1. CASE ~pipe
    <3>1. \A j \in 1..Len(data') : j + 0 \in 1..Len(data) /\ data'[j] = data[j + 0]
      BY <2>1, <1>1, <1>5
    <3> QED
      BY <3>1, <2>1
  <2>2. CASE pipe
    <3>1. data' = SubSeq(data, Len(q) + 1, Len(data))
      BY <2>2, <1>1
    <3>2. /\ Len(data') = (IF Len(q) < Len(data) THEN Len(data) - Len(q) ELSE 0)
          /\ \A i \in 1..(Len(data) - Len(q)) : data'[i] = data[Len(q) + i]
      BY <3>1, <1>5, Taken
    <3>3. ASSUME NEW j \in 1..Len(data')
          PROVE j + Len(q) \in 1..Len(data) /\ data'[j] = data[j + Len(q)]
      <4>1. j \in 1..(Len(data) - Len(q)) /\ Len(q) + j = j + Len(q)
        BY <3>2, <1>5
      <4> QED
        BY <4>1, <3>2, <1>5
    <3> QED
      BY <3>3, <2>2, <1>5
  <2> QED
    BY <2>1, <2>2
<1>9. /\ Below(data, bytes) /\ Distinct(data)
      /\ \A e \in Handles : got[e] \in Seq(Nat) /\ Below(got[e], bytes) /\ Distinct(got[e])
      /\ \A e \in Handles : Behind(got[e], data, Place(e))
  BY <1>4 DEF HandleInv, HandleType, Fresh, Consumed
<1>10. Below(q, bytes)
  BY <1>1, <1>9 DEF Below
<1>11. Distinct(q)
  <2> SUFFICES ASSUME NEW i \in 1..Len(q), NEW j \in 1..Len(q), i < j, q[i] # 0
               PROVE q[i] # q[j]
    BY DEF Distinct
  <2>1. PICK a \in 1..Len(data), b \in 1..Len(data) :
            a = Place(d) + i /\ b = Place(d) + j /\ q[i] = data[a] /\ q[j] = data[b]
    BY <1>1, <1>2
  <2>2. a < b
    BY <2>1, <1>5
  <2> QED
    BY <2>1, <2>2, <1>9 DEF Distinct
<1>12. ASSUME NEW i \in 1..Len(got[d]), NEW j \in 1..Len(q), got[d][i] # 0
       PROVE got[d][i] # q[j]
  <2>1. Place(d) + j > Place(d)
    BY <1>5
  <2> QED
    BY <2>1, <1>1, <1>2, <1>9, <1>12 DEF Behind
<1>13. /\ got[d] \o q \in Seq(Nat) /\ Distinct(got[d] \o q) /\ Below(got[d] \o q, bytes)
       /\ \A i \in 1..Len(got[d] \o q) :
             \/ \E x \in 1..Len(got[d]) : (got[d] \o q)[i] = got[d][x]
             \/ \E x \in 1..Len(q) : (got[d] \o q)[i] = q[x]
  BY <1>5, <1>9, <1>10, <1>11, <1>12, Joined
<1>14. HandleType'
  <2>1. desc' \in [Handles -> DescRecord]
    <3>1. PICK v \in Nat : v = desc[d].pos + Len(q)
      BY <1>5
    <3>2. desc' = desc \/ desc' = [desc EXCEPT ![d].pos = v]
      BY <3>1, <1>1, <1>2
    <3>3. desc \in [Handles -> DescRecord]
      BY <1>4 DEF HandleType
    <3>4. [desc EXCEPT ![d].pos = v] \in [Handles -> DescRecord]
      BY <3>3 DEF DescRecord
    <3> QED
      BY <3>2, <3>3, <3>4, Zenon
  <2>2. got' \in [Handles -> Seq(Nat)]
    BY <1>1, <1>2, <1>4, <1>13 DEF HandleType
  <2> QED
    BY <2>1, <2>2, <1>3, <1>4, <1>7 DEF HandleType
<1>15. Opened'
  <2>1. ASSUME NEW k \in Handles, handle[k] > 0, system = "mock" PROVE desc'[handle[k]].append
    <3>1. handle[k] \in Handles /\ desc[handle[k]].append
      BY <2>1, <1>4, Described DEF HandleInv, Opened
    <3> QED
      BY <3>1, <1>6
  <2>2. ASSUME NEW k \in Handles, handle[k] = 0 PROVE got'[k] = <<>> /\ wrote[k] = <<>>
    <3>1. k # d
      BY <2>2, <1>2, <1>3 DEF HandleInv, Opened
    <3> QED
      BY <3>1, <2>2, <1>6 DEF HandleInv, Opened
  <2>3. ASSUME NEW e \in Handles, desc'[e].asked PROVE desc'[e].append
    BY <2>3, <1>6 DEF HandleInv, Opened
  <2> QED
    BY <2>1, <2>2, <2>3, <1>3 DEF HandleInv, Opened
<1>16. Fresh'
  <2>1. Below(data', bytes)
    BY <1>8, <1>9 DEF Below
  <2>2. Distinct(data')
    <3> SUFFICES ASSUME NEW i \in 1..Len(data'), NEW j \in 1..Len(data'), i < j, data'[i] # 0
                 PROVE data'[i] # data'[j]
      BY DEF Distinct
    <3>1. PICK a \in 1..Len(data), b \in 1..Len(data) :
              a = i + s /\ b = j + s /\ data'[i] = data[a] /\ data'[j] = data[b]
      BY <1>8
    <3>2. a < b
      BY <3>1, <1>7
    <3> QED
      BY <3>1, <3>2, <1>9 DEF Distinct
  <2>3. ASSUME NEW e \in Handles PROVE Below(got'[e], bytes) /\ Distinct(got'[e])
    BY <1>6, <1>9, <1>13
  <2>4. /\ Below(data', bytes') /\ Distinct(data')
        /\ \A e \in Handles : Below(got'[e], bytes') /\ Distinct(got'[e])
    BY <2>1, <2>2, <2>3, <1>3
  <2> QED
    BY <2>4 DEF Fresh, Below, Distinct
<1>17. Consumed'
  <2>1. ASSUME NEW e \in Handles, NEW j \in 1..Len(data'), j > Place(e)'
        PROVE j + s > Place(e) /\ (e = d => j + s > Place(d) + Len(q))
    <3>1. CASE pipe
      <4>1. Place(e) = 0 /\ Place(d) = 0 /\ s = Len(q)
        BY <3>1, <1>8 DEF Place
      <4> QED
        BY <4>1, <1>5, <1>7
    <3>2. CASE ~pipe
      <4>1. /\ Place(e) = desc[e].pos /\ Place(e)' = desc'[e].pos /\ s = 0
            /\ Place(d) = desc[d].pos
        BY <3>2, <1>3, <1>8 DEF Place
      <4>2. Place(e)' = IF e = d THEN Place(d) + Len(q) ELSE Place(e)
        BY <3>2, <4>1, <1>6
      <4>3. Place(e) \in Nat /\ Place(d) \in Nat /\ Len(q) \in Nat /\ j \in Nat
        BY <1>5, <1>7
      <4>4. j + s = j
        BY <4>1, <4>3
      <4> QED
        BY <2>1, <4>2, <4>3, <4>4
    <3> QED
      BY <3>1, <3>2, <1>5
  <2>2. ASSUME NEW e \in Handles, NEW i \in 1..Len(got'[e]), NEW j \in 1..Len(data'),
               got'[e][i] # 0, j > Place(e)'
        PROVE got'[e][i] # data'[j]
    <3>1. /\ j + s > Place(e) /\ (e = d => j + s > Place(d) + Len(q))
          /\ j + s \in 1..Len(data) /\ data'[j] = data[j + s]
      BY <2>1, <2>2, <1>8
    <3>2. CASE \E x \in 1..Len(got[e]) : got'[e][i] = got[e][x]
      BY <3>1, <3>2, <2>2, <1>9 DEF Behind
    <3>3. CASE e = d /\ \E x \in 1..Len(q) : got'[e][i] = q[x]
      <4>1. PICK x \in 1..Len(q) : got'[e][i] = q[x]
        BY <3>3
      <4>2. Place(d) + x \in 1..Len(data) /\ q[x] = data[Place(d) + x]
        BY <1>1, <1>2
      <4>3. PICK a \in 1..Len(data), b \in 1..Len(data) : a = Place(d) + x /\ b = j + s
        BY <4>2, <3>1
      <4>4. Place(d) \in Nat /\ Len(q) \in Nat /\ x \in Nat /\ x <= Len(q) /\ b > Place(d) + Len(q)
        BY <4>3, <3>1, <3>3, <1>5
      <4>5. a < b
        BY <4>3, <4>4
      <4> QED
        BY <4>1, <4>2, <4>3, <4>5, <3>1, <2>2, <1>9 DEF Distinct
    <3>4. CASE e # d
      BY <3>2, <3>4, <1>6
    <3>5. CASE e = d
      BY <3>2, <3>3, <3>5, <1>6, <1>13
    <3> QED
      BY <3>4, <3>5
  <2> QED
    BY <2>2 DEF Consumed, Behind
<1>18. InOrder'
  <2>1. Wrote' = Wrote /\ Wrote \subseteq Handles
    BY <1>3 DEF Wrote
  <2>2. Orderly' => Orderly
    BY <2>1, <1>3, <1>6 DEF Orderly
  <2>3. desc[d].pos = Len(data) /\ ~pipe => Len(q) = 0
    <3>1. ASSUME desc[d].pos = Len(data), ~pipe, Len(q) # 0 PROVE FALSE
      <4>1. 1 \in 1..Len(q)
        BY <3>1, <1>5
      <4>2. Place(d) + 1 \in 1..Len(data)
        BY <4>1, <1>1, <1>2
      <4> QED
        BY <4>2, <3>1, <1>5 DEF Place
    <3> QED
      BY <3>1
  <2>4. ASSUME bytes = 0 PROVE data' = <<>> /\ \A e \in Handles : desc'[e].pos = 0
    <3>1. data = <<>> /\ Len(data) = 0 /\ \A e \in Handles : desc[e].pos = 0
      BY <2>4 DEF HandleInv, InOrder
    <3>2. Len(data') = 0
      <4>1. ASSUME Len(data') # 0 PROVE FALSE
        <5>1. 1 \in 1..Len(data')
          BY <4>1, <1>7
        <5>2. 1 + s \in 1..Len(data)
          BY <5>1, <1>8
        <5> QED
          BY <5>2, <3>1
      <4> QED
        BY <4>1
    <3>3. data' = <<>>
      BY <3>2, <1>7, EmptySeq
    <3>4. ASSUME NEW e \in Handles PROVE desc'[e].pos = 0
      BY <3>1, <2>3, <1>6
    <3> QED
      BY <3>3, <3>4
  <2>5. ASSUME Orderly' PROVE /\ Len(data') = bytes /\ \A i \in 1..bytes : data'[i] = i
                              /\ \A e \in Wrote : ~desc'[e].append => desc'[e].pos = bytes
    <3>1. /\ ~pipe /\ data' = data /\ Len(data) = bytes /\ \A i \in 1..bytes : data[i] = i
          /\ \A e \in Wrote : ~desc[e].append => desc[e].pos = bytes
      BY <2>2, <2>5, <1>1 DEF HandleInv, InOrder, Orderly
    <3>2. ASSUME NEW e \in Wrote, ~desc'[e].append PROVE desc'[e].pos = bytes
      <4>1. e \in Handles /\ desc[e].pos = bytes
        BY <3>1, <3>2, <2>1, <1>6
      <4>2. e = d => Len(q) = 0
        BY <4>1, <3>1, <2>3
      <4> QED
        BY <4>1, <4>2, <1>5, <1>6
    <3> QED
      BY <3>1, <3>2
  <2> QED
    BY <2>1, <2>4, <2>5, <1>3 DEF HandleInv, InOrder
<1>19. MovesOrEnds'
  BY <1>1 DEF MovesOrEnds
<1> QED
  BY <1>14, <1>15, <1>16, <1>17, <1>18, <1>19 DEF HandleInv

\* A write keeps the invariant.
LEMMA WriteKeeps ==
  ASSUME HandleParameters, HandleInv, NEW h \in Handles, NEW size \in Lengths, write(h, size)
  PROVE HandleInv'
<1>1. PICK d \in Handles : d = handle[h]
  BY Described DEF HandleInv, write
<1>2. PICK k \in Nat \ {0} : k = Given(size)
  BY GivenSome
<1>3. PICK p : p = IF pipe \/ desc[d].append THEN Len(data) ELSE desc[d].pos
  OBVIOUS
<1>4. PICK new : new = [i \in 1..k |-> bytes + i]
  OBVIOUS
<1>5. /\ data' = Spliced(data, p, k, bytes)
      /\ desc' = (IF pipe \/ system = "mock" THEN desc ELSE [desc EXCEPT ![d].pos = p + k])
      /\ bytes' = bytes + k /\ wrote' = [wrote EXCEPT ![d] = @ \o new]
      /\ result' = IF k > 0 THEN "some" ELSE "none"
      /\ UNCHANGED <<system, pipe, handle, got, cleared>>
      /\ handle[h] > 0
  BY <1>1, <1>2, <1>3, <1>4 DEF write, Spliced
<1>6. HandleType
  BY DEF HandleInv
<1>7. /\ data \in Seq(Nat) /\ Len(data) \in Nat /\ bytes \in Nat
      /\ \A e \in Handles : desc[e].pos \in Nat /\ wrote[e] \in Seq(Nat)
  BY <1>6, LenProperties DEF HandleType, DescRecord
<1>8. p \in Nat
  BY <1>3, <1>7
<1>9. /\ data' \in Seq(Nat)
      /\ Len(data') = IF p + k < Len(data) THEN Len(data) ELSE p + k
      /\ \A i \in 1..Len(data') :
            data'[i] = IF i <= p THEN (IF i <= Len(data) THEN data[i] ELSE 0)
                       ELSE IF i <= p + k THEN bytes + (i - p) ELSE data[i]
  <2>1. k \in Nat /\ data \in Seq(Nat) /\ bytes \in Nat /\ p \in Nat
    BY <1>7, <1>8
  <2>2. Splices(Spliced(data, p, k, bytes), data, p, k, bytes)
    BY <2>1, Overwritten
  <2>3. Splices(data', data, p, k, bytes)
    BY <2>2, <1>5
  <2> QED
    BY <2>3 DEF Splices
<1>10. Len(data') \in Nat
  BY <1>9, LenProperties
\* An old byte where it was, a byte of a hole, or a new byte.
<1>11. ASSUME NEW i \in 1..Len(data')
       PROVE \/ i \in 1..Len(data) /\ (i <= p \/ i > p + k) /\ data'[i] = data[i]
             \/ data'[i] = 0
             \/ p < i /\ i <= p + k /\ data'[i] = bytes + (i - p)
  <2>1. CASE i <= p
    BY <2>1, <1>7, <1>8, <1>9
  <2>2. CASE ~(i <= p) /\ i <= p + k
    BY <2>2, <1>7, <1>8, <1>9
  <2>3. CASE ~(i <= p) /\ ~(i <= p + k)
    <3>1. i <= Len(data) /\ i > p + k
      BY <2>3, <1>7, <1>8, <1>9
    <3> QED
      BY <3>1, <2>3, <1>7, <1>9
  <2> QED
    BY <2>1, <2>2, <2>3
<1>12. new \in Seq(Nat) /\ Len(new) = k
  <2>1. new \in [1..k -> Nat]
    BY <1>4, <1>7
  <2> QED
    BY <2>1, <1>4
<1>13. wrote[d] \o new \in Seq(Nat) /\ wrote[d] \o new # <<>>
  <2>1. wrote[d] \o new \in Seq(Nat) /\ Len(wrote[d] \o new) = Len(wrote[d]) + Len(new)
    BY <1>7, <1>12, ConcatProperties
  <2>2. Len(wrote[d] \o new) # 0
    BY <2>1, <1>7, <1>12, LenProperties
  <2> QED
    BY <2>1, <2>2, EmptySeq
<1>14. ASSUME NEW e \in Handles
       PROVE /\ desc'[e].pos = IF pipe \/ system = "mock" \/ e # d THEN desc[e].pos ELSE p + k
             /\ desc'[e].append = desc[e].append /\ desc'[e].asked = desc[e].asked
             /\ wrote'[e] = IF e = d THEN wrote[e] \o new ELSE wrote[e]
  BY <1>5, <1>6 DEF HandleType, DescRecord
<1>15. HandleType'
  <2>1. desc' \in [Handles -> DescRecord]
    <3>1. PICK v \in Nat : v = p + k
      BY <1>8
    <3>2. desc' = desc \/ desc' = [desc EXCEPT ![d].pos = v]
      BY <3>1, <1>5
    <3>3. desc \in [Handles -> DescRecord]
      BY <1>6 DEF HandleType
    <3>4. [desc EXCEPT ![d].pos = v] \in [Handles -> DescRecord]
      BY <3>3 DEF DescRecord
    <3> QED
      BY <3>2, <3>3, <3>4, Zenon
  <2>2. wrote' \in [Handles -> Seq(Nat)]
    BY <1>5, <1>6, <1>13 DEF HandleType
  <2>3. bytes' \in Nat
    BY <1>5, <1>7
  <2> QED
    BY <2>1, <2>2, <2>3, <1>5, <1>6, <1>9 DEF HandleType
<1>16. Opened'
  <2>1. ASSUME NEW j \in Handles, handle[j] > 0, system = "mock" PROVE desc'[handle[j]].append
    <3>1. handle[j] \in Handles /\ desc[handle[j]].append
      BY <2>1, <1>6, Described DEF HandleInv, Opened
    <3> QED
      BY <3>1, <1>14
  <2>2. ASSUME NEW j \in Handles, handle[j] = 0 PROVE got[j] = <<>> /\ wrote'[j] = <<>>
    <3>1. j # d
      BY <2>2, <1>1, <1>5 DEF HandleInv, Opened
    <3> QED
      BY <3>1, <2>2, <1>14 DEF HandleInv, Opened
  <2>3. ASSUME NEW e \in Handles, desc'[e].asked PROVE desc'[e].append
    BY <2>3, <1>14 DEF HandleInv, Opened
  <2> QED
    BY <2>1, <2>2, <2>3, <1>5 DEF HandleInv, Opened
<1>17. Below(data, bytes) /\ Distinct(data) /\ \A e \in Handles : Below(got[e], bytes) /\ Distinct(got[e])
  BY DEF HandleInv, Fresh
<1>18. Fresh'
  <2>1. ASSUME NEW i \in 1..Len(data') PROVE data'[i] <= bytes + k
    <3>1. \A j \in 1..Len(data) : data[j] \in Nat /\ data[j] <= bytes
      BY <1>7, <1>17, LenProperties DEF Below
    <3> QED
      BY <3>1, <1>7, <1>8, <1>10, <1>11
  <2>2. ASSUME NEW i \in 1..Len(data'), NEW j \in 1..Len(data'), i < j, data'[i] # 0
        PROVE data'[i] # data'[j]
    <3>1. \A x \in 1..Len(data) : data[x] \in Nat /\ data[x] <= bytes
      BY <1>7, <1>17, LenProperties DEF Below
    <3>2. i \in Nat /\ j \in Nat
      BY <1>10
    <3>3. CASE i \in 1..Len(data) /\ data'[i] = data[i]
      <4>1. CASE j \in 1..Len(data) /\ data'[j] = data[j]
        BY <4>1, <3>3, <2>2, <1>17 DEF Distinct
      <4>2. CASE data'[j] = 0
        BY <4>2, <2>2
      <4>3. CASE p < j /\ data'[j] = bytes + (j - p)
        <5>1. data[i] < bytes + (j - p)
          BY <4>3, <3>1, <3>2, <3>3, <1>7, <1>8
        <5> QED
          BY <5>1, <4>3, <3>1, <3>3
      <4> QED
        BY <4>1, <4>2, <4>3, <1>11
    <3>4. CASE p < i /\ data'[i] = bytes + (i - p)
      <4>1. CASE j \in 1..Len(data) /\ data'[j] = data[j]
        <5>1. data[j] < bytes + (i - p)
          BY <4>1, <3>1, <3>2, <3>4, <1>7, <1>8
        <5> QED
          BY <5>1, <4>1, <3>1, <3>4
      <4>2. CASE data'[j] = 0
        BY <4>2, <2>2
      <4>3. CASE p < j /\ data'[j] = bytes + (j - p)
        BY <4>3, <3>4, <3>2, <2>2, <1>7, <1>8
      <4> QED
        BY <4>1, <4>2, <4>3, <1>11
    <3> QED
      BY <3>3, <3>4, <2>2, <1>11
  <2>3. ASSUME NEW e \in Handles PROVE Below(got[e], bytes + k) /\ Distinct(got[e])
    <3>1. \A i \in 1..Len(got[e]) : got[e][i] \in Nat /\ got[e][i] <= bytes
      BY <1>6, <1>17, LenProperties DEF Below, HandleType
    <3> QED
      BY <3>1, <1>7, <1>17 DEF Below
  <2> QED
    BY <2>1, <2>2, <2>3, <1>5 DEF Fresh, Below, Distinct
<1>19. Consumed'
  <2>1. ASSUME NEW e \in Handles, NEW i \in 1..Len(got[e]), NEW j \in 1..Len(data'),
               got[e][i] # 0, j > Place(e)'
        PROVE got[e][i] # data'[j]
    <3>1. got[e][i] \in Nat /\ got[e][i] <= bytes /\ j \in Nat
      BY <1>6, <1>10, <1>17, LenProperties DEF Below, HandleType
    <3>2. CASE j \in 1..Len(data) /\ (j <= p \/ j > p + k) /\ data'[j] = data[j]
      <4>1. j > Place(e)
        <5>1. CASE pipe
          BY <5>1, <2>1, <1>5 DEF Place
        <5>2. CASE ~pipe /\ (system = "mock" \/ e # d)
          BY <5>2, <2>1, <1>5, <1>14 DEF Place
        <5>3. CASE ~pipe /\ system # "mock" /\ e = d /\ desc[d].append
          <6>1. Place(e)' = p + k /\ p = Len(data)
            BY <5>3, <1>3, <1>5, <1>14 DEF Place
          <6>2. j <= Len(data) /\ j > p + k
            BY <6>1, <3>2, <2>1
          <6> QED
            BY <6>1, <6>2, <3>1, <1>7
        <5>4. CASE ~pipe /\ system # "mock" /\ e = d /\ ~desc[d].append
          <6>1. Place(e)' = p + k /\ p = desc[d].pos /\ Place(e) = desc[d].pos
            BY <5>4, <1>3, <1>5, <1>14 DEF Place
          <6> QED
            BY <6>1, <2>1, <3>1, <1>8
        <5> QED
          BY <5>1, <5>2, <5>3, <5>4
      <4> QED
        BY <4>1, <3>2, <2>1 DEF HandleInv, Consumed, Behind
    <3>3. CASE data'[j] = 0
      BY <3>3, <2>1
    <3>4. CASE p < j /\ j <= p + k /\ data'[j] = bytes + (j - p)
      BY <3>1, <3>4, <1>7, <1>8
    <3> QED
      BY <3>2, <3>3, <3>4, <1>11
  <2> QED
    BY <2>1, <1>5 DEF Consumed, Behind
<1>20. InOrder'
  <2>1. Wrote' = Wrote \cup {d} /\ Wrote \subseteq Handles /\ bytes' = bytes + k
    BY <1>5, <1>13, <1>14 DEF Wrote
  <2>2. IsFiniteSet(Wrote')
    <3>1. IsFiniteSet(Handles)
      BY DEF HandleParameters
    <3> QED
      BY <3>1, <2>1, FS_Subset
  <2>3. ASSUME Orderly' PROVE Orderly /\ ~pipe
    <3>1. CASE Cardinality(Wrote') <= 1
      <4>1. Cardinality(Wrote) <= 1
        BY <3>1, <2>1, <2>2, AtMostOne
      <4> QED
        BY <4>1, <2>3, <1>5 DEF Orderly
    <3>2. CASE \A e \in Wrote' : desc'[e].asked
      BY <3>2, <2>1, <2>3, <1>5, <1>14 DEF Orderly
    <3> QED
      BY <3>1, <3>2, <2>3 DEF Orderly
  <2>4. ASSUME Orderly', NEW e \in Wrote', NEW x \in Wrote', e # x PROVE desc[e].append
    <3>1. ~(Cardinality(Wrote') <= 1)
      BY <2>2, <2>4, AtMostOne
    <3>2. desc'[e].asked
      BY <3>1, <2>4 DEF Orderly
    <3> QED
      BY <3>2, <2>1, <1>14 DEF HandleInv, Opened
  <2>5. ASSUME Orderly' PROVE p = bytes /\ Len(data) = bytes /\ \A i \in 1..bytes : data[i] = i
    <3>1. /\ ~pipe /\ Len(data) = bytes /\ \A i \in 1..bytes : data[i] = i
          /\ \A e \in Wrote : ~desc[e].append => desc[e].pos = bytes
      BY <2>3, <2>5 DEF HandleInv, InOrder
    <3>2. CASE desc[d].append
      BY <3>1, <3>2, <1>3
    <3>3. CASE ~desc[d].append
      <4>1. p = desc[d].pos
        BY <3>1, <3>3, <1>3
      <4>2. CASE d \in Wrote
        BY <4>1, <4>2, <3>1, <3>3
      <4>3. CASE d \notin Wrote
        <5>1. Wrote = {}
          BY <4>3, <3>3, <2>1, <2>4, <2>5
        <5>2. bytes = 0
          BY <5>1, <1>7 DEF HandleInv, InOrder
        <5> QED
          BY <5>2, <4>1, <3>1 DEF HandleInv, InOrder
      <4> QED
        BY <4>2, <4>3
    <3> QED
      BY <3>2, <3>3
  <2>6. ASSUME Orderly'
        PROVE /\ Len(data') = bytes + k /\ \A i \in 1..(bytes + k) : data'[i] = i
              /\ \A e \in Wrote' : ~desc'[e].append => desc'[e].pos = bytes + k
    <3>1. p = bytes /\ Len(data) = bytes /\ \A i \in 1..bytes : data[i] = i
      BY <2>5, <2>6
    <3>2. Len(data') = bytes + k
      BY <3>1, <1>7, <1>9
    <3>3. ASSUME NEW i \in 1..(bytes + k) PROVE data'[i] = i
      <4>1. CASE i <= bytes
        BY <4>1, <3>1, <3>2, <1>7, <1>9
      <4>2. CASE ~(i <= bytes)
        <5>1. data'[i] = bytes + (i - bytes)
          BY <4>2, <3>1, <3>2, <1>7, <1>9
        <5> QED
          BY <5>1, <1>7
      <4> QED
        BY <4>1, <4>2
    <3>4. ASSUME NEW e \in Wrote', ~desc'[e].append PROVE desc'[e].pos = bytes + k
      <4>1. e \in Handles /\ ~desc[e].append
        BY <3>4, <2>1, <1>14
      <4>2. e = d
        BY <4>1, <2>1, <2>4, <2>6
      <4>3. system # "mock"
        BY <4>1, <4>2, <1>1, <1>5 DEF HandleInv, Opened
      <4>4. ~pipe
        BY <2>3, <2>6
      <4> QED
        BY <4>2, <4>3, <4>4, <3>1, <1>14
    <3> QED
      BY <3>2, <3>3, <3>4
  <2>7. bytes + k > 0 /\ Wrote' # {}
    BY <2>1, <1>7
  <2> QED
    BY <2>1, <2>6, <2>7 DEF InOrder
<1>21. MovesOrEnds'
  BY <1>5 DEF MovesOrEnds
<1> QED
  BY <1>15, <1>16, <1>18, <1>19, <1>20, <1>21 DEF HandleInv

-----------------------------------------------------------------------------
\* HandleInv says what is asked for: an orderly file holds every byte once, in
\* the order of the writes.
LEMMA BytesFollow == ASSUME HandleInv PROVE BytesAreKept
<1>1. HandleType /\ Fresh /\ InOrder /\ MovesOrEnds
  BY DEF HandleInv
<1>2. data \in Seq(Nat) /\ DOMAIN data = 1..Len(data) /\ bytes \in Nat
  BY <1>1, LenProperties DEF HandleType
<1>3. NoClobber
  <2>1. ASSUME ~pipe, ~cleared,
               \/ Cardinality({d \in Handles : wrote[d] # <<>>}) <= 1
               \/ \A d \in {d \in Handles : wrote[d] # <<>>} : desc[d].asked
        PROVE Orderly
    BY <2>1, Zenon DEF Orderly, Wrote
  <2>2. ASSUME Orderly
        PROVE /\ Everything = 1..bytes
              /\ \A i, j \in DOMAIN data : i < j /\ data[i] # 0 => data[i] < data[j]
    <3>1. Len(data) = bytes /\ \A i \in 1..bytes : data[i] = i
      BY <1>1, <2>2 DEF InOrder
    <3> QED
      BY <3>1, <1>2 DEF Everything
  <2> QED
    BY <2>1, <2>2 DEF NoClobber
<1>4. ReadOnce
  <2>1. ASSUME NEW d \in Handles PROVE got[d] \in Seq(Nat) /\ DOMAIN got[d] = 1..Len(got[d])
    BY <1>1, LenProperties DEF HandleType
  <2> QED
    BY <2>1, <1>1 DEF ReadOnce, Fresh, Distinct
<1> QED
  BY <1>1, <1>3, <1>4 DEF BytesAreKept

\* For any number of handles, opens, clones and bytes, on every backend:
\* appending writers and clones of one writer overwrite nothing, a handle and
\* its clones read no byte twice, and a read or write moves a byte or is at the
\* end (File's read, write and try_clone, OpenOptions' append).
THEOREM BytesAreAlwaysKept == FSpec => []BytesAreKept
<1>1. FInit => HandleInv
  BY HandlesStart, HandleAssumption
<1>2. ASSUME HandleInv, [FNext]_fvars PROVE HandleInv'
  <2>1. CASE UNCHANGED fvars
    BY <1>2, <2>1 DEF fvars, HandleInv, HandleType, Opened, Fresh, Below, Distinct, Consumed, Behind,
                      Place, InOrder, Orderly, Wrote, MovesOrEnds
  <2>2. CASE FNext
    BY <1>2, <2>2, OpenKeeps, CloneKeeps, DropKeeps, ReadKeeps, WriteKeeps,
       HandleAssumption DEF FNext
  <2> QED
    BY <1>2, <2>1, <2>2
<1>3. HandleInv => BytesAreKept
  BY BytesFollow, HandleAssumption
<1> QED
  BY <1>1, <1>2, <1>3, PTL DEF FSpec
=============================================================================
