----------------------------- MODULE UnixListen -----------------------------
(***************************************************************************)
(* unix_listen: binding a listener to a filesystem path, reclaiming what a *)
(* dead listener left there.  The Linux and BSD backends (sys/net.rs of    *)
(* platform-linux and platform-bsd) and the Windows one (platform-windows) *)
(* share the protocol bind, probe, unlink, bind again, listen; the POSIX   *)
(* ones narrow the socket file to 0600 before listening, the Windows one   *)
(* probes more than once and on one more bind error.                       *)
(*                                                                         *)
(* Callers are processes (or threads) that all want the same path.  Each   *)
(* system call is one step, so the calls of two callers interleave, and a  *)
(* caller may die after any of them.  The filesystem and the sockets are   *)
(* external: what bind, connect, chmod, listen and unlink do to a path.    *)
(***************************************************************************)
EXTENDS Naturals

CONSTANTS
    Caller,  \* the processes that call unix_listen on the path
    Leftovers,\* what may be at the path before the first call
    Posix,   \* TRUE: Linux and BSD; FALSE: Windows
    Retries, \* STALE_PROBE_ENOBUFS_RETRIES
    UnlinkWorks,\* TRUE: the directory's permissions never refuse an unlink
    Serial,  \* TRUE: no two calls ever overlap
    RefusesFull,\* TRUE: a connect to a full backlog is refused; FALSE: it waits
    MaxNodes \* bound: how many files and sockets are ever created

ASSUME KindAssumption == Leftovers \subseteq {"nothing", "file", "dead"}
ASSUME BackendAssumption == {Posix, Serial, UnlinkWorks, RefusesFull} \subseteq BOOLEAN
ASSUME CountAssumption == Retries \in Nat /\ MaxNodes \in Nat \ {0}

VARIABLES
    node,    \* every file or socket ever created: what it is, and its mode
    created, \* how many there are
    path,    \* the node the path names; 0 when there is none
    todo,    \* the next step of each caller
    own,     \* the node a caller's socket is bound to; 0 when unbound
    error,   \* the error of a caller's first bind
    tries,   \* how often a caller's probe was told WSAENOBUFS
    returned,\* what a caller's last call returned
    seen,    \* the sockets that listened, and had room, at a caller's probe (history)
    rival    \* another caller was about during the call (history)

lvars == <<node, created, path, todo, own, error, tries, returned, seen, rival>>

Nodes == 1..MaxNodes
InCall(l) == todo[l] \notin {"idle", "serving"}
Listening == {n \in Nodes : node[n].kind = "listening"}

-----------------------------------------------------------------------------
(* What the system calls do                                                *)

NoNode == [kind |-> "nothing", mode |-> "umask"]

\* bind creates a socket file, with the mode the umask leaves it.
Bound(l) ==
    /\ path = 0
    /\ created < MaxNodes
    /\ created' = created + 1
    /\ node' = [node EXCEPT ![created + 1] = [kind |-> "bound", mode |-> "umask"]]
    /\ path' = created + 1
    /\ own' = [own EXCEPT ![l] = created + 1]

\* What a connect to the path may be told.  Nobody listens behind a regular file
\* either, and Linux refuses that connect like any other.  At a full backlog
\* Linux waits for room, while the BSDs, and perhaps Winsock, refuse.
connect == IF path = 0 THEN {"NotFound"}
           ELSE IF path \in Listening
           THEN {"Ok"} \union (IF RefusesFull THEN {"ConnectionRefused"} ELSE {})
           ELSE {"ConnectionRefused"}

\* Closing a socket leaves its file in place.
SocketClosed(l) == IF own[l] = 0 THEN node
                   ELSE [node EXCEPT ![own[l]].kind = "dead"]

\* unix_listen returns an error: its socket is closed on the way out.
ReturnError(l, e) ==
    /\ todo' = [todo EXCEPT ![l] = "idle"]
    /\ own' = [own EXCEPT ![l] = 0]
    /\ returned' = [returned EXCEPT ![l] = e]
    /\ node' = SocketClosed(l)
    /\ UNCHANGED <<created, path>>

-----------------------------------------------------------------------------
(* unix_listen                                                             *)

Call(l) ==
    /\ todo[l] = "idle"
    /\ Serial => \A k \in Caller : ~InCall(k)
    /\ todo' = [todo EXCEPT ![l] = "bind"]
    /\ returned' = [returned EXCEPT ![l] = "none"]
    /\ rival' = [k \in Caller |-> IF k = l THEN \E m \in Caller \ {l} : todo[m] # "idle"
                                  ELSE rival[k] \/ InCall(k)]
    /\ tries' = [tries EXCEPT ![l] = 0]
    /\ UNCHANGED <<node, created, path, own, error, seen>>

\* The errors of a bind: the path is taken, or anything else.  Windows may
\* report code 0 while it is still tearing the dead owner down.
BindErrors ==
    {"Other"} \union (IF path # 0 THEN {"AddrInUse"} ELSE {})
              \union (IF ~Posix /\ path # 0 /\ node[path].kind = "dead"
                      THEN {"Zero"} ELSE {})

is_stale_bind_candidate(e) == e = "AddrInUse" \/ (~Posix /\ e = "Zero")

\* The file is narrowed before it is listened on, where there are mode bits.
AfterBind == IF Posix THEN "chmod" ELSE "listen"

FirstBind(l) ==
    /\ todo[l] = "bind"
    /\ \/ /\ Bound(l)
          /\ todo' = [todo EXCEPT ![l] = AfterBind]
          /\ UNCHANGED <<error, returned>>
       \/ \E e \in BindErrors :
             IF is_stale_bind_candidate(e)
             THEN /\ todo' = [todo EXCEPT ![l] = "probe"]
                  /\ error' = [error EXCEPT ![l] = e]
                  /\ UNCHANGED <<node, created, path, own, returned>>
             ELSE ReturnError(l, e) /\ UNCHANGED error
    /\ UNCHANGED <<tries, seen, rival>>

\* What the probe may be told: its connect may also fail for reasons of its
\* own, and on Windows for want of buffers.
ProbeAnswers == connect \union {"Other"} \union (IF Posix THEN {} ELSE {"NoBufs"})

\* A probe whose every failure counts as stale.
is_stale_socketAny(answer) == answer # "Ok"

is_stale_socket(answer) == answer = "ConnectionRefused"

\* The POSIX backends build the error from errno, which a failed probe has
\* overwritten; the Windows one kept the error of the bind.
NotStale(l, answer) == IF Posix /\ answer # "Ok" THEN answer ELSE error[l]

\* Those a refused probe tells from the dead: all, or all with room.
Told(answer) == IF RefusesFull /\ answer = "ConnectionRefused" THEN Listening \ {path} ELSE Listening

Probe(l) ==
    /\ todo[l] = "probe"
    /\ error' = [error EXCEPT ![l] = "none"]
    /\ \E answer \in ProbeAnswers :
          /\ answer = "NoBufs" => tries[l] = Retries
          /\ IF is_stale_socket(answer)
             THEN /\ todo' = [todo EXCEPT ![l] = "unlink"]
                  /\ seen' = [seen EXCEPT ![l] = Told(answer)]
                  /\ UNCHANGED <<node, created, path, own, returned>>
             ELSE ReturnError(l, NotStale(l, answer)) /\ UNCHANGED seen
    /\ UNCHANGED <<tries, rival>>

\* WSAENOBUFS is no answer: the probe is repeated, so often and no more.
ProbeAgain(l) ==
    /\ todo[l] = "probe"
    /\ ~Posix
    /\ tries[l] < Retries
    /\ tries' = [tries EXCEPT ![l] = @ + 1]
    /\ UNCHANGED <<node, created, path, todo, own, error, returned, seen, rival>>

\* A reclaim that forgets to remove the stale file.
UnlinkNothing(l) ==
    /\ todo[l] = "unlink"
    /\ todo' = [todo EXCEPT ![l] = "rebind"]
    /\ UNCHANGED <<node, created, path, own, error, tries, returned, seen, rival>>

\* Whatever is at the path by now is removed; a failure is ignored.
Unlink(l) ==
    /\ todo[l] = "unlink"
    /\ path' \in IF UnlinkWorks THEN {0} ELSE {0, path}
    /\ todo' = [todo EXCEPT ![l] = "rebind"]
    /\ seen' = [seen EXCEPT ![l] = {}]
    /\ UNCHANGED <<node, created, own, error, tries, returned, rival>>

\* The one retry.
Rebind(l) ==
    /\ todo[l] = "rebind"
    /\ \/ /\ Bound(l)
          /\ todo' = [todo EXCEPT ![l] = AfterBind]
          /\ UNCHANGED returned
       \/ /\ path # 0
          /\ ReturnError(l, "AddrInUse")
    /\ UNCHANGED <<error, tries, seen, rival>>

\* Listening before the mode is narrowed.
ListenThenChmod(l) ==
    /\ todo[l] = "chmod"
    /\ todo' = [todo EXCEPT ![l] = "listen"]
    /\ node' = [node EXCEPT ![own[l]].kind = "listening"]
    /\ UNCHANGED <<created, path, own, error, tries, returned, seen, rival>>

\* chmod goes by the path, not by the socket: it narrows whatever the path
\* names, and fails when another caller has just unlinked it.
Chmod(l) ==
    /\ todo[l] = "chmod"
    /\ \/ /\ path # 0
          /\ node' = [node EXCEPT ![path].mode = "0600"]
          /\ todo' = [todo EXCEPT ![l] = "listen"]
          /\ UNCHANGED <<created, path, own, returned>>
       \/ /\ path = 0
          /\ ReturnError(l, "NotFound")
    /\ UNCHANGED <<error, tries, seen, rival>>

StartListening(l) ==
    /\ todo[l] = "listen"
    /\ node' = [node EXCEPT ![own[l]].kind = "listening"]
    /\ todo' = [todo EXCEPT ![l] = "serving"]
    /\ returned' = [returned EXCEPT ![l] = "Ok"]
    /\ UNCHANGED <<created, path, own, error, tries, seen, rival>>

\* The later calls may fail for reasons of their own, too.
SysFails(l) ==
    /\ todo[l] \in {"rebind", "chmod", "listen"}
    /\ ReturnError(l, "Other")
    /\ UNCHANGED <<error, tries, seen, rival>>

\* The listener is dropped, or its process dies, at any point: the socket is
\* closed and the file stays behind.
CallerDies(l) ==
    /\ todo[l] # "idle"
    /\ todo' = [todo EXCEPT ![l] = "idle"]
    /\ own' = [own EXCEPT ![l] = 0]
    /\ node' = SocketClosed(l)
    /\ UNCHANGED <<created, path, error, tries, returned, seen, rival>>

-----------------------------------------------------------------------------
ListenInit ==
    /\ \E left \in Leftovers :
          /\ node = [n \in Nodes |-> IF n = 1 THEN [kind |-> left, mode |-> "umask"]
                                     ELSE NoNode]
          /\ created = IF left = "nothing" THEN 0 ELSE 1
          /\ path = IF left = "nothing" THEN 0 ELSE 1
    /\ todo = [l \in Caller |-> "idle"]
    /\ own = [l \in Caller |-> 0]
    /\ error = [l \in Caller |-> "none"]
    /\ tries = [l \in Caller |-> 0]
    /\ returned = [l \in Caller |-> "none"]
    /\ seen = [l \in Caller |-> {}]
    /\ rival = [l \in Caller |-> FALSE]

\* The steps unix_listen takes by itself once called.
Proceed(l) == \/ FirstBind(l) \/ Probe(l) \/ ProbeAgain(l) \/ Unlink(l)
              \/ Rebind(l) \/ Chmod(l) \/ StartListening(l)

ListenNext == \E l \in Caller : Call(l) \/ Proceed(l) \/ SysFails(l) \/ CallerDies(l)

ListenSpec == ListenInit /\ [][ListenNext]_lvars

\* A thread inside unix_listen keeps being scheduled.
ListenFairSpec == ListenSpec /\ \A l \in Caller : WF_lvars(Proceed(l))

-----------------------------------------------------------------------------
(* Properties                                                              *)

NodeRecord == [kind : {"nothing", "file", "bound", "listening", "dead"},
               mode : {"umask", "0600"}]

\* Every variable has its type; no caller is left at a step that the code
\* does not have.
ListenTypeOK ==
    /\ node \in [Nodes -> NodeRecord]
    /\ created \in 0..MaxNodes
    /\ path \in 0..created
    /\ todo \in [Caller -> {"idle", "bind", "probe", "unlink", "rebind", "chmod",
                             "listen", "serving"}]
    /\ own \in [Caller -> 0..created]
    /\ error \in [Caller -> {"none", "AddrInUse", "Zero"}]
    /\ tries \in [Caller -> 0..Retries]
    /\ returned \in [Caller -> {"none", "Ok", "AddrInUse", "Zero", "NotFound",
                              "Other"}]
    /\ seen \in [Caller -> SUBSET Nodes]
    /\ rival \in [Caller -> BOOLEAN]

\* Nobody can connect through a path that is open to other users: a socket
\* that is listening and reachable is 0600, whichever caller's chmod hit it.
ReachableIsNarrow ==
    Posix /\ path \in Listening => node[path].mode = "0600"

\* The probe protects every listener that was up when it ran: what a caller
\* is about to unlink did not listen yet at that caller's probe.  The exception
\* is a listener whose backlog was full, where a full backlog is refused: the
\* code cannot tell that refusal from a dead listener's.
ProbeProtects ==
    \A l \in Caller : todo[l] = "unlink" => path \notin seen[l]

\* The two together, as a caller that is put off and probes again may break them:
\* is_stale_socket is repeated no more often than it may be, and what it
\* answers is still true of what listened when it answered.
ListenerIsSafe == ListenTypeOK /\ ProbeProtects

\* A path left behind by a dead listener heals itself: a caller that had the
\* path to itself for the whole call is never told that it is taken or gone.
LonelyCallSucceeds ==
    UnlinkWorks => \A l \in Caller :
        returned[l] \in {"AddrInUse", "NotFound"} => rival[l]

\* Callers that do not overlap never take a path from a live listener: at
\* most one listener is up, and the path leads to it.
OneLiveListener ==
    \A l \in Caller : todo[l] = "serving" => path = own[l]

\* The probe of the Windows backend ends however often it is put off.
ProbingEnds == \A l \in Caller : todo[l] = "probe" ~> todo[l] # "probe"
=============================================================================
