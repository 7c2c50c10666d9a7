---------------------------- MODULE Directories ----------------------------
(***************************************************************************)
(* The directory capabilities of platform::fs on every backend: the Linux  *)
(* one over the *at calls (with libc, and as track-p over raw system       *)
(* calls), the Windows one over NtCreateFile, and the in-memory one.       *)
(* Threads share a tree and work in it through the capabilities they hold. *)
(* A system call is one step; what takes several (create_dir's parent, the *)
(* Windows rename, remove and symlink, a directory listing, the growing    *)
(* read_link, the mock's open) can be interleaved.  A call that fails and  *)
(* changes nothing is no step.  The contents of files are in FileHandles.  *)
(***************************************************************************)
EXTENDS Integers, Sequences, FiniteSets

CONSTANTS
    Backends,      \* of "linux", "trackp", "windows", "mock"
    Kernels,       \* whether the kernel has openat2: a subset of BOOLEAN
    Worker,        \* the threads
    Names,         \* the names entries can have
    Paths,         \* what open_dir and create_dir are given: one or two names
    Options,       \* the OpenOptions of open
    Targets,       \* link targets: sequences of tokens
    Trees,         \* what is there at first: root's entries
    MaxNodes,      \* bound: objects ever made
    MaxOps,        \* bound: calls ever made
    FirstCap,      \* the first and the largest buffer of read_link
    LastCap,
    Secs,          \* seconds from 1970 a stat can report, some before it
    Ticks,         \* FILETIMEs
    EpochDiff,     \* the FILETIME of 1970
    Second,        \* nanoseconds and ticks in a second, both scaled
    TickSecond,
    Rels           \* what create_dir can be given, as bytes

\* What may be assumed of the constants: they have their types, a path is one
\* name or two, and in a tree to start with the root's entries are the objects.
Parameters ==
    /\ MaxNodes \in Nat /\ MaxNodes >= 2
    /\ FirstCap \in Nat
    /\ Backends \subseteq {"linux", "trackp", "windows", "mock"}
    /\ Kernels \subseteq BOOLEAN
    /\ \A p \in Paths : p \in Seq(Names) /\ Len(p) \in {1, 2}
    /\ \A tree \in Trees :
          /\ tree.entries \in [Names -> {0} \cup (DOMAIN tree.objects \cap 3..MaxNodes)]
          /\ \A i \in DOMAIN tree.objects \cap 3..MaxNodes :
                /\ \E n \in Names : tree.entries[n] = i
                /\ tree.objects[i].type \in {"File", "Dir", "Symlink"}
\* What more may be assumed: the links there are in the beginning have targets
\* somebody stored, a second is a whole number of FILETIME ticks, a tick a whole
\* number of nanoseconds, and a path is a sequence.
LookParameters ==
    /\ Parameters
    /\ \A tree \in Trees : \A i \in DOMAIN tree.objects :
           tree.objects[i].type = "Symlink" => tree.objects[i].target \in Targets
    /\ Secs \subseteq Int /\ Ticks \subseteq Int /\ EpochDiff \in Int
    /\ TickSecond \in Nat \ {0} /\ Second \in Nat /\ Second % TickSecond = 0
    /\ Rels \subseteq Seq(STRING)
ASSUME DirectoryAssumption == LookParameters

VARIABLES
    backend, openat2,
    node,    \* the objects
    cap,     \* thread -> the directory it holds
    held,    \* thread -> the file it holds, or 0
    call,    \* thread -> the call it is in
    answer,  \* thread -> what its last listing or read_link returned
    calls

dvars == <<backend, openat2, node, cap, held, call, answer, calls>>

Linux == backend \in {"linux", "trackp"}
Root == 1
Outside == 2  \* a directory of its own, reached from Root through links only
Top == 0      \* where absolute targets start

Nothing == [type |-> "none", entries |-> [n \in Names |-> 0], target |-> <<>>, wire |-> <<>>,
            dirlink |-> FALSE, writable |-> TRUE, pending |-> FALSE, gone |-> FALSE]
Obj(type) == [Nothing EXCEPT !.type = type]
NoCall == [op |-> "none", stage |-> "", d |-> 0, h |-> 0, a |-> "", b |-> "", flag |-> FALSE,
           target |-> <<>>, size |-> 0, start |-> {}, got |-> {}]
NoAnswer == [op |-> "none", got |-> {}, missed |-> {}, failed |-> FALSE, target |-> <<>>]

-----------------------------------------------------------------------------
(* The operating systems: names and links                                  *)

At(loc) == IF loc.dir = Top THEN Outside ELSE node[loc.dir].entries[loc.name]
Is(i, type) == i # 0 /\ node[i].type = type

\* Where a link in d leads: from the top, or in d.
Absolute(w) == w # <<>> /\ Head(w) \in {"/", "\\", "??"}
Hop(loc) ==
    IF loc.dir # Top /\ Is(At(loc), "Symlink")
    THEN LET w == node[At(loc)].wire IN
         IF Absolute(w) THEN [dir |-> Top, name |-> "o"]
         ELSE IF Head(w) \in Names THEN [dir |-> loc.dir, name |-> Head(w)] ELSE loc
    ELSE loc
Final(loc) == Hop(Hop(Hop(loc)))
Entry(d, n) == At([dir |-> d, name |-> n])
Followed(d, n) == LET i == At(Final([dir |-> d, name |-> n])) IN IF Is(i, "Symlink") THEN 0 ELSE i

Alloc(i) == node[i].type = "none" /\ \A k \in 1..(i - 1) : node[k].type # "none"
Live(d) == ~node[d].gone /\ ~node[d].pending
Empty(i) == \A n \in Names : node[i].entries[n] = 0

\* A new object under a name that is free.
Make(loc, i, obj) ==
    /\ loc.dir # Top /\ At(loc) = 0 /\ Live(loc.dir) /\ Alloc(i)
    /\ node' = [node EXCEPT ![i] = obj, ![loc.dir].entries[loc.name] = i]

\* i's name is gone; the object stays while it is held.
Unlinked(nodes, i) ==
    [k \in DOMAIN nodes |->
        [nodes[k] EXCEPT !.entries = [n \in Names |-> IF @[n] = i THEN 0 ELSE @[n]],
                         !.gone = @ \/ k = i, !.pending = @ /\ k # i]]

\* i under the name to and no other; what was there is gone, if that was asked.
Moved(i, d, to, asked) ==
    LET r == node[d].entries[to]
        cut == [k \in DOMAIN node |->
                  [node[k] EXCEPT !.entries = [n \in Names |-> IF @[n] = i THEN 0 ELSE @[n]]]]
    IN [cut EXCEPT ![d].entries[to] = i, ![IF r = 0 THEN i ELSE r].gone = r \notin {0, i} /\ asked]

-----------------------------------------------------------------------------
(* Calls                                                                   *)

Starts(t) == call[t] = NoCall /\ calls < MaxOps /\ calls' = calls + 1
             /\ answer' = [answer EXCEPT ![t] = NoAnswer]
Same == UNCHANGED <<backend, openat2>>
\* The whole call in one step.
Once(t) == Starts(t) /\ UNCHANGED call /\ Same
Enter(t, c) == Starts(t) /\ call' = [call EXCEPT ![t] = c] /\ Same
Proceed(t, c) == call' = [call EXCEPT ![t] = c] /\ UNCHANGED <<calls, answer>> /\ Same
Leave(t) == Proceed(t, NoCall)
Return(t, r) == call' = [call EXCEPT ![t] = NoCall] /\ answer' = [answer EXCEPT ![t] = r]
                /\ UNCHANGED calls /\ Same

\* Who has a handle on i.
Holders(i) == {t \in Worker : held[t] = i \/ cap[t] = i \/ call[t].h = i}

\* NT's delete-on-close: the last handle takes the name with it.
Closed(nodes, i, t) ==
    IF i # 0 /\ nodes[i].pending /\ Holders(i) \subseteq {t} THEN Unlinked(nodes, i) ELSE nodes

-----------------------------------------------------------------------------
(* Opening files                                                           *)

open_flags(o) ==
    (IF o.write \/ o.append THEN {IF o.read THEN "RDWR" ELSE "WRONLY"} ELSE {"RDONLY"})
    \union (IF o.append THEN {"APPEND"} ELSE {})
    \union (IF o.create_new THEN {"CREAT", "EXCL"} ELSE IF o.create THEN {"CREAT"} ELSE {})
    \union (IF o.truncate THEN {"TRUNC"} ELSE {})

Holds(t, i) == held' = [held EXCEPT ![t] = i] /\ UNCHANGED cap

openat(t, d, n, flags) ==
    LET here == [dir |-> d, name |-> n]
        loc == IF "EXCL" \in flags THEN here ELSE Final(here)
        i == At(loc)
    IN \/ /\ i = 0 /\ "CREAT" \in flags
          /\ \E k \in 1..MaxNodes : Make(loc, k, Obj("File")) /\ Holds(t, k)
       \/ /\ Is(i, "File") /\ "EXCL" \notin flags
          /\ flags \intersect {"RDWR", "WRONLY"} # {} => node[i].writable
          /\ Holds(t, i) /\ UNCHANGED node

open_params(o) ==
    [access |-> (IF o.read THEN {"READ"} ELSE {})
                \union (IF o.append THEN {"APPEND"} ELSE IF o.write THEN {"WRITE"} ELSE {}),
     disposition |-> IF o.create_new THEN "CREATE"
                     ELSE IF o.create THEN (IF o.truncate THEN "OVERWRITE_IF" ELSE "OPEN_IF")
                     ELSE IF o.truncate THEN "OVERWRITE" ELSE "OPEN"]

\* The object NtCreateFile opens, 0 if it refuses.
NtOpen(d, n, options) ==
    LET i == IF "OPEN_REPARSE_POINT" \in options THEN Entry(d, n) ELSE Followed(d, n)
        isdir == i # 0 /\ (node[i].type = "Dir" \/ node[i].dirlink)
    IN IF i = 0 \/ ("DONT_REPARSE" \in options /\ Is(Entry(d, n), "Symlink"))
       THEN 0
       ELSE IF \/ node[i].pending
               \/ "NON_DIRECTORY_FILE" \in options /\ isdir
               \/ "DIRECTORY_FILE" \in options /\ ~isdir
       THEN 0 ELSE i

open_relative(d, n, options) == NtOpen(d, n, options)
open_relative_r2(d, n, options) == NtOpen(d, n, options \union {"DONT_REPARSE"})

windows_open(t, d, n, p) ==
    LET loc == Final([dir |-> d, name |-> n])
        i == open_relative(d, n, {"NON_DIRECTORY_FILE"})
    IN \/ /\ IF p.disposition = "CREATE" THEN Entry(d, n) = 0 ELSE At(loc) = 0
          /\ p.disposition \in {"CREATE", "OPEN_IF", "OVERWRITE_IF"}
          /\ \E k \in 1..MaxNodes : Make(loc, k, Obj("File")) /\ Holds(t, k)
       \/ /\ i # 0 /\ p.disposition # "CREATE"
          /\ Holds(t, i) /\ UNCHANGED node

\* The mock looks the name up, unlocks, and inserts later: stage "insert".
mock_open(t, n, o) ==
    LET i == Entry(cap[t], n)
    IN IF i # 0 THEN ~o.create_new /\ Holds(t, i) /\ Once(t) /\ UNCHANGED node
       ELSE /\ o.create \/ o.create_new
            /\ Enter(t, [NoCall EXCEPT !.op = "open", !.a = n, !.h = cap[t]])
            /\ UNCHANGED <<node, cap, held>>

mock_insert(t) ==
    /\ call[t].op = "open"
    /\ \E k \in 1..MaxNodes :
          /\ Alloc(k)
          /\ node' = [node EXCEPT ![k] = Obj("File"), ![call[t].h].entries[call[t].a] = k]
          /\ Holds(t, k)
    /\ Leave(t)

\* Neither read nor write nor append is InvalidInput.
open(t, n, o) ==
    /\ held[t] = 0 /\ (o.read \/ o.write \/ o.append)
    /\ \/ Linux /\ openat(t, cap[t], n, open_flags(o)) /\ Once(t)
       \/ backend = "windows" /\ windows_open(t, cap[t], n, open_params(o)) /\ Once(t)
       \/ backend = "mock" /\ mock_open(t, n, o)

drop_file(t) ==
    /\ held[t] # 0 /\ call[t] = NoCall
    /\ node' = Closed(node, held[t], t) /\ held' = [held EXCEPT ![t] = 0]
    /\ UNCHANGED <<cap, call, answer, calls>> /\ Same

-----------------------------------------------------------------------------
(* Directories: the confined resolution of open_dir and create_dir         *)

\* One component: with RESOLVE_NO_SYMLINKS a link ends the walk.  No component is
\* `..`: the code does not look for it, and neither flag keeps it from leading out.
Component(d, n, resolve) ==
    LET i == IF "NO_SYMLINKS" \in resolve THEN Entry(d, n) ELSE Followed(d, n)
    IN IF Is(i, "Dir") THEN i ELSE 0
Walk(d, p, resolve) ==
    LET i == Component(d, Head(p), resolve)
    IN IF Len(p) = 1 \/ i = 0 THEN i ELSE Component(i, p[2], resolve)

R2_RESOLVE == {"NO_SYMLINKS", "NO_XDEV"}

\* 0: an error other than ENOSYS.
openat2_raw(d, p, resolve) == Walk(d, p, resolve)
openat_r2(d, p) == IF openat2 THEN openat2_raw(d, p, R2_RESOLVE) ELSE Walk(d, p, {})

linux_open_dir(d, p) == openat_r2(d, p)
windows_open_dir(d, p) ==
    LET i == open_relative_r2(d, Head(p), {"DIRECTORY_FILE"})
    IN IF Len(p) = 1 \/ i = 0 THEN i ELSE open_relative_r2(i, p[2], {"DIRECTORY_FILE"})
\* A mock name is one component.
mock_open_dir(d, p) == IF Len(p) = 1 /\ Is(Entry(d, p[1]), "Dir") THEN Entry(d, p[1]) ELSE 0

open_dir(t, p) ==
    LET i == IF Linux THEN linux_open_dir(cap[t], p)
             ELSE IF backend = "windows" THEN windows_open_dir(cap[t], p) ELSE mock_open_dir(cap[t], p)
    IN /\ i # 0
       /\ cap' = [cap EXCEPT ![t] = i] /\ node' = Closed(node, cap[t], t)
       /\ Once(t) /\ UNCHANGED held

open_ambient(t) ==
    /\ cap[t] # Root /\ call[t] = NoCall
    /\ cap' = [cap EXCEPT ![t] = Root] /\ node' = Closed(node, cap[t], t)
    /\ UNCHANGED <<held, call, answer, calls>> /\ Same

mkdirat(d, n) == \E k \in 1..MaxNodes : Make([dir |-> d, name |-> n], k, Obj("Dir"))

\* Where rel is cut: after its last slash, trailing ones ignored.
split_last_component(rel) ==
    LET solid == {i \in DOMAIN rel : rel[i] # "/"}
        last == CHOOSE i \in solid : \A j \in solid : j <= i
        slashes == {i \in 1..last : rel[i] = "/"}
        pos == CHOOSE i \in slashes : \A j \in slashes : j <= i
    IN IF solid = {} THEN <<>>
       ELSE IF slashes = {} THEN <<>>
       ELSE <<SubSeq(rel, 1, pos - 1), SubSeq(rel, pos + 1, last)>>

\* A mkdirat that walks the whole path once more from the capability.
mkdirat_leafRewalks(t) ==
    /\ call[t].op = "create_dir"
    /\ Is(Followed(cap[t], call[t].b), "Dir") /\ mkdirat(Followed(cap[t], call[t].b), call[t].a)
    /\ Leave(t) /\ UNCHANGED <<cap, held>>

\* The leaf, in the directory that was opened.
mkdirat_leaf(t) ==
    /\ call[t].op = "create_dir"
    /\ mkdirat(call[t].h, call[t].a)
    /\ Leave(t) /\ UNCHANGED <<cap, held>>

linux_create_dir(t, p) ==
    IF Len(p) = 1 THEN mkdirat(cap[t], p[1]) /\ Once(t)
    ELSE LET d == openat_r2(cap[t], <<p[1]>>)
         IN /\ d # 0
            /\ Enter(t, [NoCall EXCEPT !.op = "create_dir", !.h = d, !.a = p[2], !.b = p[1]])
            /\ UNCHANGED node

\* One NtCreateFile, which walks the parent too.
windows_create_dir(t, p) ==
    LET d == IF Len(p) = 1 THEN cap[t] ELSE open_relative_r2(cap[t], p[1], {"DIRECTORY_FILE"})
    IN d # 0 /\ mkdirat(d, p[Len(p)]) /\ Once(t)

mock_create_dir(t, p) ==
    /\ Len(p) = 1 /\ Entry(cap[t], p[1]) = 0
    /\ \E k \in 1..MaxNodes :
          Alloc(k) /\ node' = [node EXCEPT ![k] = Obj("Dir"), ![cap[t]].entries[p[1]] = k]
    /\ Once(t)

create_dir(t, p) ==
    /\ \/ Linux /\ linux_create_dir(t, p)
       \/ backend = "windows" /\ windows_create_dir(t, p)
       \/ backend = "mock" /\ mock_create_dir(t, p)
    /\ UNCHANGED <<cap, held>>

\* mkdirat fails, the name being taken or the parent removed meanwhile.
mkdirat_fails(t) ==
    /\ call[t].op = "create_dir" /\ (Entry(call[t].h, call[t].a) # 0 \/ ~Live(call[t].h))
    /\ Leave(t) /\ UNCHANGED <<node, cap, held>>

-----------------------------------------------------------------------------
(* Removing                                                                *)

unlinkat(d, n, flags) ==
    LET i == Entry(d, n)
    IN /\ i # 0
       /\ IF "REMOVEDIR" \in flags THEN Is(i, "Dir") /\ Empty(i) ELSE ~Is(i, "Dir")
       /\ node' = Unlinked(node, i)

mock_remove(d, n, want_dir) == unlinkat(d, n, IF want_dir THEN {"REMOVEDIR"} ELSE {})

\* Opens the entry itself, whatever its name will be later.
windows_remove(t, n, want_dir) ==
    LET i == open_relative(cap[t], n, {IF want_dir THEN "DIRECTORY_FILE" ELSE "NON_DIRECTORY_FILE",
                                       "OPEN_REPARSE_POINT"})
    IN /\ i # 0
       /\ Enter(t, [NoCall EXCEPT !.op = "remove", !.h = i])
       /\ UNCHANGED node

\* Marked (a directory with entries is refused), and the handle dropped.
mark_delete(t) ==
    /\ call[t].op = "remove"
    /\ LET i == call[t].h
           refused == Is(i, "Dir") /\ ~Empty(i)
       IN node' = IF refused THEN Closed(node, i, t)
                  ELSE Closed([node EXCEPT ![i].pending = TRUE], i, t)
    /\ Leave(t) /\ UNCHANGED <<cap, held>>

RemoveEntry(t, n, want_dir) ==
    /\ \/ Linux /\ unlinkat(cap[t], n, IF want_dir THEN {"REMOVEDIR"} ELSE {}) /\ Once(t)
       \/ backend = "windows" /\ windows_remove(t, n, want_dir)
       \/ backend = "mock" /\ mock_remove(cap[t], n, want_dir) /\ Once(t)
    /\ UNCHANGED <<cap, held>>
remove_file(t, n) == RemoveEntry(t, n, FALSE)
remove_dir(t, n) == RemoveEntry(t, n, TRUE)

-----------------------------------------------------------------------------
(* Renaming, within one directory                                          *)

\* Renamed: was, what from named when the call looked, is still there.
RenameAnswer(d, from, to, was) ==
    [NoAnswer EXCEPT !.op = "rename",
                     !.missed = IF from # to /\ node'[d].entries[from] = was THEN {from} ELSE {}]

\* NOREPLACE refuses an existing to; asked: the caller wants it replaced.
renameat2_raw(d, from, to, flags, asked) ==
    LET i == Entry(d, from)
        r == Entry(d, to)
    IN /\ i # 0 /\ Live(d)
       /\ r # 0 => /\ "NOREPLACE" \notin flags
                   /\ Is(i, "Dir") <=> Is(r, "Dir")
                   /\ Is(r, "Dir") /\ r # i => Empty(r)
       /\ node' = Moved(i, d, to, asked)

\* A rename_no_replace without RENAME_NOREPLACE.
linux_renameUnflagged(t, from, to, replace) ==
    renameat2_raw(cap[t], from, to, {}, replace) /\ Once(t)

linux_rename(t, from, to, replace) ==
    renameat2_raw(cap[t], from, to, IF replace THEN {} ELSE {"NOREPLACE"}, replace) /\ Once(t)

\* The file, or else the directory, of that name; links are followed.
windows_rename(t, from, to, replace) ==
    LET f == open_relative(cap[t], from, {"NON_DIRECTORY_FILE"})
        i == IF f # 0 THEN f ELSE open_relative(cap[t], from, {"DIRECTORY_FILE"})
    IN /\ i # 0
       /\ Enter(t, [NoCall EXCEPT !.op = "rename", !.h = i, !.d = cap[t], !.a = from, !.b = to,
                                  !.flag = replace, !.size = Entry(cap[t], from)])
       /\ UNCHANGED node

\* NtSetInformationFile: refused for a directory or an open file in the way;
\* Outside is on another volume.
NtRename(t) ==
    /\ call[t].op = "rename"
    /\ LET c == call[t]
           r == Entry(c.d, c.b)
           ok == /\ c.h # Outside /\ Live(c.d) /\ Live(c.h)
                 /\ r \notin {0, c.h} => c.flag /\ ~Is(r, "Dir") /\ Holders(r) = {}
       IN IF ok THEN /\ node' = Moved(c.h, c.d, c.b, c.flag)
                     /\ Return(t, RenameAnswer(c.d, c.a, c.b, c.size))
          ELSE node' = Closed(node, c.h, t) /\ Leave(t)
    /\ UNCHANGED <<cap, held>>

mock_rename_impl(t, from, to, replace) ==
    /\ Entry(cap[t], from) # 0 /\ (replace \/ Entry(cap[t], to) = 0)
    /\ node' = Moved(Entry(cap[t], from), cap[t], to, replace)
    /\ Once(t)

RenameEntry(t, from, to, replace) ==
    /\ \/ Linux /\ linux_rename(t, from, to, replace)
       \/ backend = "windows" /\ windows_rename(t, from, to, replace)
       \/ backend = "mock" /\ mock_rename_impl(t, from, to, replace)
    /\ UNCHANGED <<cap, held>>

rename(t, from, to) == RenameEntry(t, from, to, TRUE)
rename_no_replace(t, from, to) == RenameEntry(t, from, to, FALSE)

-----------------------------------------------------------------------------
(* Links                                                                   *)

LinkObj(target, wire, dirlink) ==
    [Obj("Symlink") EXCEPT !.target = target, !.wire = wire, !.dirlink = dirlink]

symlinkat(d, target, link_name) ==
    \E k \in 1..MaxNodes : Make([dir |-> d, name |-> link_name], k, LinkObj(target, target, FALSE))

mock_symlink(d, target, link_name) ==
    \E k \in 1..MaxNodes :
        /\ Entry(d, link_name) = 0 /\ Alloc(k)
        /\ node' = [node EXCEPT ![k] = LinkObj(target, target, FALSE), ![d].entries[link_name] = k]

to_wide_nt_component(s) == [i \in DOMAIN s |-> IF s[i] = "/" THEN "\\" ELSE s[i]]
nt_substitute_name(s) ==
    IF Head(s) = "C:" THEN <<"??">> \o s
    ELSE IF Len(s) >= 2 /\ s[1] = "\\" /\ s[2] = "\\" THEN <<"??", "UNC">> \o Tail(s)
    ELSE s

\* First whether the target is a directory: the metadata of it under d.
windows_symlink(t, target, link_name) ==
    /\ Enter(t, [NoCall EXCEPT !.op = "symlink", !.stage = "create", !.d = cap[t], !.a = link_name,
                    !.target = target,
                    !.flag = Head(target) \in Names /\ Is(Entry(cap[t], Head(target)), "Dir")])
    /\ UNCHANGED node

\* Then an empty file or directory of that name, and last the reparse data.
SymlinkCreate(t) ==
    /\ call[t].op = "symlink" /\ call[t].stage = "create"
    /\ LET c == call[t] IN
       \/ \E k \in 1..MaxNodes :
             /\ Make([dir |-> c.d, name |-> c.a], k, Obj(IF c.flag THEN "Dir" ELSE "File"))
             /\ Proceed(t, [c EXCEPT !.stage = "reparse", !.h = k])
       \/ (Entry(c.d, c.a) # 0 \/ ~Live(c.d)) /\ Leave(t) /\ UNCHANGED node
    /\ UNCHANGED <<cap, held>>

\* It may be refused (without the privilege, it is): the name stays.
SymlinkReparse(t) ==
    /\ call[t].op = "symlink" /\ call[t].stage = "reparse"
    /\ LET c == call[t]
           link == LinkObj(c.target, nt_substitute_name(to_wide_nt_component(c.target)), c.flag)
       IN \/ /\ Empty(c.h)
             /\ node' = Closed([node EXCEPT ![c.h] = [link EXCEPT !.pending = node[c.h].pending]], c.h, t)
          \/ node' = Closed(node, c.h, t)
    /\ Leave(t) /\ UNCHANGED <<cap, held>>

symlink(t, target, link_name) ==
    /\ \/ Linux /\ symlinkat(cap[t], target, link_name) /\ Once(t)
       \/ backend = "windows" /\ windows_symlink(t, target, link_name)
       \/ backend = "mock" /\ mock_symlink(cap[t], target, link_name) /\ Once(t)
    /\ UNCHANGED <<cap, held>>

LinkAnswer(target) == [NoAnswer EXCEPT !.op = "read_link", !.target = target]

windows_read_link(d, n) ==
    LET i == open_relative(d, n, {"OPEN_REPARSE_POINT"})
    IN IF Is(i, "Symlink") THEN <<node[i].target>> ELSE <<>>
mock_read_link(d, n) == IF Is(Entry(d, n), "Symlink") THEN <<node[Entry(d, n)].target>> ELSE <<>>

read_link(t, n) ==
    /\ UNCHANGED <<node, cap, held>>
    /\ \/ /\ Linux
          /\ Enter(t, [NoCall EXCEPT !.op = "read_link", !.d = cap[t], !.a = n, !.size = FirstCap])
       \/ /\ ~Linux /\ call[t] = NoCall /\ calls < MaxOps
          /\ LET r == IF backend = "windows" THEN windows_read_link(cap[t], n) ELSE mock_read_link(cap[t], n)
             IN r # <<>> /\ answer' = [answer EXCEPT ![t] = LinkAnswer(r[1])]
          /\ calls' = calls + 1 /\ UNCHANGED call /\ Same

\* Each readlinkat looks the name up anew; a full buffer may be a cut target.
linux_read_link(t) ==
    /\ call[t].op = "read_link"
    /\ LET i == Entry(call[t].d, call[t].a)
           size == call[t].size
       IN IF ~Is(i, "Symlink") THEN Leave(t)
          ELSE IF Len(node[i].target) < size THEN Return(t, LinkAnswer(node[i].target))
          ELSE IF size * 4 > LastCap THEN Leave(t)
          ELSE Proceed(t, [call[t] EXCEPT !.size = size * 4])
    /\ UNCHANGED <<node, cap, held>>

-----------------------------------------------------------------------------
(* Listings                                                                *)

Bound(d) == {n \in Names : node[d].entries[n] # 0}
\* What a listing found, and what it lacks of what was there all the time.
Listing(t, got, failed) ==
    [NoAnswer EXCEPT !.op = "read_dir", !.got = got, !.failed = failed,
                     !.missed = (Bound(call[t].d) \intersect call[t].start) \ got]

mock_read_dir(t) ==
    /\ Starts(t) /\ UNCHANGED <<call, node, cap, held>> /\ Same

read_dir(t) ==
    \/ backend = "mock" /\ mock_read_dir(t)
    \/ /\ backend # "mock" /\ Live(cap[t])
       /\ Enter(t, [NoCall EXCEPT !.op = "read_dir", !.d = cap[t], !.start = Bound(cap[t])])
       /\ UNCHANGED <<node, cap, held>>

\* An enumeration on the capability's own handle, which its users share.
EnumeratedShared(t) == UNION {call[u].got : u \in {u \in Worker : call[u].op = "read_dir" /\ call[u].d = call[t].d}}
\* What the handle of this enumeration has yielded: every listing has its own.
Enumerated(t) == call[t].got

ReadEntry(t, n) ==
    /\ call[t].op = "read_dir" /\ n \in Bound(call[t].d) \ Enumerated(t)
    /\ Proceed(t, [call[t] EXCEPT !.got = @ \union {n}])
    /\ UNCHANGED <<node, cap, held>>

AllSeen(t) == (Bound(call[t].d) \intersect call[t].start) \subseteq Enumerated(t)

\* readdir's null is the end, for libc an error too.
linux_read_dir(t) ==
    \/ AllSeen(t) /\ Return(t, Listing(t, call[t].got, FALSE))
    \/ backend = "linux" /\ Return(t, Listing(t, call[t].got, TRUE))
    \/ backend = "trackp" /\ Leave(t)
\* ERROR_NO_MORE_FILES is the end, anything else an error.
read_dir_entries(t) ==
    \/ AllSeen(t) /\ Return(t, Listing(t, call[t].got, FALSE))
    \/ Leave(t)

ReadDirEnds(t) ==
    /\ call[t].op = "read_dir"
    /\ IF Linux THEN linux_read_dir(t) ELSE read_dir_entries(t)
    /\ UNCHANGED <<node, cap, held>>

-----------------------------------------------------------------------------
(* Queries: what they answer in a state, "NotFound" or a value             *)

file_type_of_attributes(i) == IF node[i].type = "Symlink" THEN "Symlink" ELSE node[i].type
linux_statat(d, n) == IF Entry(d, n) = 0 THEN "NotFound" ELSE node[Entry(d, n)].type
windows_metadata(d, n) ==
    LET i == open_relative(d, n, {"OPEN_REPARSE_POINT"})
    IN IF i = 0 THEN "NotFound" ELSE file_type_of_attributes(i)
mock_metadata(d, n) == IF Entry(d, n) = 0 THEN "NotFound" ELSE node[Entry(d, n)].type
metadata(d, n) == IF Linux THEN linux_statat(d, n)
                  ELSE IF backend = "windows" THEN windows_metadata(d, n) ELSE mock_metadata(d, n)

linux_file_id(d, n) == Entry(d, n)
windows_file_id(d, n) == open_relative(d, n, {"OPEN_REPARSE_POINT"})
mock_file_id(d, n) == Entry(d, n)
file_id(d, n) == IF Linux THEN linux_file_id(d, n)
                 ELSE IF backend = "windows" THEN windows_file_id(d, n) ELSE mock_file_id(d, n)

linux_access(d, n, mode) ==
    mode = {} \/ (Followed(d, n) # 0 /\ ("write" \in mode => node[Followed(d, n)].writable))
windows_access(d, n, mode) == mode = {} \/ open_relative(d, n, {}) # 0
mock_access(d, n, mode) == mode = {} \/ Entry(d, n) # 0
access(d, n, mode) == IF Linux THEN linux_access(d, n, mode)
                      ELSE IF backend = "windows" THEN windows_access(d, n, mode) ELSE mock_access(d, n, mode)

linux_unix_mode(d, n) == Entry(d, n) # 0

\* Unsupported on Windows and with track-p; the mock keeps no modes.
set_unix_mode(t, n, w) ==
    /\ backend = "linux" /\ Is(Followed(cap[t], n), "File")
    /\ node' = [node EXCEPT ![Followed(cap[t], n)].writable = w]
    /\ Once(t) /\ UNCHANGED <<cap, held>>

\* Times, in nanoseconds from 1970; a stat's nanoseconds always count up.
system_time_from_secs_nsec(secs, nsec) ==
    IF secs >= 0 THEN secs * Second + nsec ELSE -((-secs) * Second) + nsec

filetime_to_system_time(filetime) ==
    LET unix == filetime - EpochDiff
        abs == IF unix >= 0 THEN unix ELSE -unix
        time == (abs \div TickSecond) * Second + (abs % TickSecond) * (Second \div TickSecond)
    IN IF unix >= 0 THEN time ELSE -time

-----------------------------------------------------------------------------
DirsInit ==
    /\ backend \in Backends
    /\ openat2 \in (IF backend \in {"linux", "trackp"} THEN Kernels ELSE {TRUE})
    /\ \E tree \in Trees :
          node = [i \in 1..MaxNodes |->
                    IF i = Root THEN [Obj("Dir") EXCEPT !.entries = tree.entries]
                    ELSE IF i = Outside THEN Obj("Dir")
                    ELSE IF i \in DOMAIN tree.objects
                         THEN LET o == tree.objects[i] IN
                              IF o.type # "Symlink" THEN Obj(o.type)
                              ELSE LinkObj(o.target,
                                     IF backend = "windows" THEN nt_substitute_name(to_wide_nt_component(o.target)) ELSE o.target,
                                     Absolute(o.target))
                    ELSE Nothing]
    /\ cap = [t \in Worker |-> Root] /\ held = [t \in Worker |-> 0]
    /\ call = [t \in Worker |-> NoCall] /\ answer = [t \in Worker |-> NoAnswer]
    /\ calls = 0

DirsNext ==
    \E t \in Worker :
        \/ \E n \in Names, o \in Options : open(t, n, o)
        \/ drop_file(t) \/ open_ambient(t) \/ mock_insert(t)
        \/ \E p \in Paths : open_dir(t, p) \/ create_dir(t, p)
        \/ mkdirat_leaf(t) \/ mkdirat_fails(t)
        \/ \E n \in Names : remove_file(t, n) \/ remove_dir(t, n) \/ read_link(t, n) \/ ReadEntry(t, n)
                            \/ \E w \in BOOLEAN : set_unix_mode(t, n, w)
        \/ mark_delete(t) \/ NtRename(t)
        \/ \E from, to \in Names : rename(t, from, to) \/ rename_no_replace(t, from, to)
        \/ \E target \in Targets, n \in Names : symlink(t, target, n)
        \/ SymlinkCreate(t) \/ SymlinkReparse(t) \/ linux_read_link(t)
        \/ read_dir(t) \/ ReadDirEnds(t)

DirsSpec == DirsInit /\ [][DirsNext]_dvars

-----------------------------------------------------------------------------
(* Properties                                                              *)

\* Confinement: however links are swapped meanwhile, open_dir and create_dir
\* never leave the tree through one: no capability for, and no directory in,
\* what only a link leads to.  (Without openat2 the code does not promise it, and
\* of `..` it promises nothing.)
Confined ==
    openat2 => /\ \A t \in Worker : cap[t] # Outside /\ (call[t].op = "create_dir" => call[t].h # Outside)
               /\ \A n \in Names : ~Is(node[Outside].entries[n], "Dir")

\* What was made stays under some name until it is removed, or replaced by a
\* rename that is to replace: no create, no rename_no_replace and no second
\* create_new takes a name from under an object, in whatever order they run.
\* The mock is excepted: its open looks up and inserts under two locks.
NothingVanishes ==
    backend # "mock" => \A i \in (Outside + 1)..MaxNodes :
        \/ node[i].type = "none" \/ node[i].gone
        \/ \E d \in 1..MaxNodes, n \in Names : node[d].entries[n] = i

\* A deletion completes: what is marked for it still has a name only while
\* somebody holds a handle on it.
DeletesComplete == \A i \in 1..MaxNodes : node[i].pending => Holders(i) # {}

\* Both: no object loses its name but by a removal or a replacing rename, and
\* what is marked for deletion goes with its last handle.
NamesAreKept == NothingVanishes /\ DeletesComplete

\* A listing has every name that was there from its beginning to its end,
\* whoever else lists or changes the directory; excepted is the libc backend
\* when readdir fails, which it takes for the end.
ListingComplete ==
    \A t \in Worker : answer[t].op = "read_dir" /\ ~answer[t].failed => answer[t].missed = {}

\* read_link returns a whole target that somebody stored, neither a cut one
\* nor the form the system resolves.
LinksWhole == \A t \in Worker : answer[t].op = "read_link" => answer[t].target \in Targets

\* The follow rules of every backend: metadata and file_id are about the entry
\* itself, access about what open would open, and an empty mode asks nothing.  The
\* mock is exempt from the second: it has no modes, and its access says of any
\* entry that it may be written.
LookupContract ==
    \A t \in Worker, n \in Names :
        LET d == cap[t]
            e == Entry(d, n)
            f == Followed(d, n)
        IN /\ e = 0 \/ ~node[e].pending => /\ metadata(d, n) = (IF e = 0 THEN "NotFound" ELSE node[e].type)
                                           /\ file_id(d, n) = e
           /\ access(d, n, {})
           /\ backend # "mock" /\ (f = 0 \/ ~node[f].pending)
                => access(d, n, {"write"}) = (f # 0 /\ node[f].writable)

\* The conversions lose nothing: a time is the same instant on both systems,
\* before 1970 too, and a path splits into a parent and a last name that make
\* it up again, trailing slashes aside.
ConversionsExact ==
    /\ \A s \in Secs, n \in 0..(Second - 1) : system_time_from_secs_nsec(s, n) = s * Second + n
    /\ \A f \in Ticks : filetime_to_system_time(f) = (f - EpochDiff) * (Second \div TickSecond)
    /\ \A rel \in Rels :
          LET cut == split_last_component(rel) IN
          IF cut = <<>> THEN \A i, j \in DOMAIN rel : i < j /\ rel[i] = "/" => rel[j] = "/"
          ELSE /\ cut[2] # <<>> /\ \A i \in DOMAIN cut[2] : cut[2][i] # "/"
               /\ \E k \in 0..Len(rel) : rel = cut[1] \o <<"/">> \o cut[2] \o [i \in 1..k |-> "/"]

\* All of them (the mock's access aside, as LookupContract says); the conversions
\* are about no state and asked for at the first call only.
LookupsAreExact ==
    ListingComplete /\ LinksWhole /\ LookupContract /\ (calls = 1 => ConversionsExact)

\* A rename moves the entry it was given: afterwards that is not under the old
\* name any more.
RenameMovesTheEntry ==
    \A t \in Worker : answer[t].op = "rename" => answer[t].missed = {}
=============================================================================
