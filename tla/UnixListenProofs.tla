-------------------------- MODULE UnixListenProofs --------------------------
(***************************************************************************)
(* Theorems about UnixListen, for any number of callers and of sockets, on *)
(* the POSIX and on the Windows backends.                                  *)
(***************************************************************************)
EXTENDS UnixListen, TLAPS

\* Nothing listens, and nothing exists, under a number not given out yet.
NodesAreMade == \A n \in Nodes : n > created => node[n].kind = "nothing"

\* A caller past its chmod that still owns the path has it narrowed.
Narrowed ==
    \A l \in Caller : Posix /\ todo[l] = "listen" /\ path = own[l] /\ path # 0
                          => node[path].mode = "0600"

SeenIsMade == \A l \in Caller : seen[l] \subseteq 1..created

IndInv ==
    /\ ListenTypeOK
    /\ NodesAreMade
    /\ Narrowed
    /\ SeenIsMade
    /\ ReachableIsNarrow
    /\ ProbeProtects

\* The invariant of callers that take turns.
TurnsInv ==
    /\ \A l, k \in Caller : InCall(l) /\ InCall(k) => l = k
    /\ \A l, k \in Caller : todo[l] = "serving" /\ todo[k] = "serving" => l = k
    /\ \A l \in Caller : todo[l] \notin {"chmod", "listen", "serving"} => own[l] = 0
    /\ \A l \in Caller : todo[l] \in {"chmod", "listen", "serving"} =>
                            path = own[l] /\ path # 0
    /\ \A l \in Caller : todo[l] = "serving" => path \in Listening
    /\ \A l, k \in Caller : todo[l] \in {"unlink", "rebind", "chmod", "listen"}
                                => todo[k] # "serving"

-----------------------------------------------------------------------------
(* What the building blocks of the actions preserve                        *)

\* A socket file is created under a new number and is not listening yet.
LEMMA BoundInd ==
    ASSUME IndInv, NEW l \in Caller, Bound(l),
           todo[l] \in {"bind", "rebind"},
           todo' = [todo EXCEPT ![l] = AfterBind],
           UNCHANGED <<error, tries, returned, seen, rival>>
    PROVE  IndInv'
<1> USE CountAssumption, BackendAssumption DEF IndInv, Nodes
<1>1. /\ path = 0 /\ created < MaxNodes /\ created' = created + 1
      /\ path' = created + 1 /\ own' = [own EXCEPT ![l] = created + 1]
      /\ node' = [node EXCEPT ![created + 1] = [kind |-> "bound", mode |-> "umask"]]
  BY DEF Bound
<1>2. created \in Nat /\ created + 1 \in Nodes
  BY <1>1 DEF ListenTypeOK
<1>3. ListenTypeOK'
  <2>1. node' \in [Nodes -> NodeRecord]
    BY <1>1 DEF ListenTypeOK, NodeRecord
  <2>2. own' \in [Caller -> 0..created']
    BY <1>1, <1>2 DEF ListenTypeOK
  <2>3. todo' \in [Caller -> {"idle", "bind", "probe", "unlink", "rebind",
                            "chmod", "listen", "serving"}]
    BY DEF ListenTypeOK, AfterBind
  <2> QED
    BY <1>1, <1>2, <2>1, <2>2, <2>3 DEF ListenTypeOK
<1>4. NodesAreMade'
  <2> SUFFICES ASSUME NEW n \in Nodes, n > created + 1 PROVE node'[n].kind = "nothing"
    BY <1>1 DEF NodesAreMade
  <2>1. n > created /\ n # created + 1
    BY <1>2
  <2>2. node'[n] = node[n]
    BY <1>1, <2>1 DEF ListenTypeOK
  <2> QED
    BY <2>1, <2>2 DEF NodesAreMade
<1>5. Narrowed'
  <2> SUFFICES ASSUME NEW k \in Caller, Posix, todo'[k] = "listen"
               PROVE  path' # own'[k]
    BY DEF Narrowed
  <2>1. k # l
    BY DEF ListenTypeOK, AfterBind
  <2> QED
    BY <1>1, <1>2, <2>1 DEF ListenTypeOK
<1>6. SeenIsMade'
  BY <1>1, <1>2 DEF SeenIsMade, ListenTypeOK
<1>7. path' \notin Listening'
  BY <1>1, <1>2 DEF Listening, ListenTypeOK
<1>8. ReachableIsNarrow'
  BY <1>7 DEF ReachableIsNarrow
<1>9. ProbeProtects'
  <2>1. \A k \in Caller : path' \notin seen[k]
    BY <1>1, <1>2 DEF SeenIsMade, ListenTypeOK
  <2> QED
    BY <2>1 DEF ProbeProtects
<1> QED
  BY <1>3, <1>4, <1>5, <1>6, <1>8, <1>9

\* A caller's socket is closed: nothing starts to listen, no mode changes.
LEMMA ClosedInd ==
    ASSUME IndInv, NEW l \in Caller, node' = SocketClosed(l),
           todo' = [todo EXCEPT ![l] = "idle"],
           own' = [own EXCEPT ![l] = 0],
           UNCHANGED <<created, path, tries, seen, rival>>,
           error' \in [Caller -> {"none", "AddrInUse", "Zero"}],
           returned' \in [Caller -> {"none", "Ok", "AddrInUse", "Zero",
                                   "NotFound", "Other"}]
    PROVE  IndInv'
<1> USE CountAssumption DEF IndInv
<1>1. \/ node' = node
      \/ /\ own[l] # 0
         /\ node' = [node EXCEPT ![own[l]].kind = "dead"]
  BY DEF SocketClosed
<1>2. /\ node' \in [Nodes -> NodeRecord]
      /\ \A n \in Nodes : /\ node'[n].mode = node[n].mode
                          /\ node'[n].kind = "listening" => node[n].kind = "listening"
                          /\ n > created => node'[n] = node[n]
  <2>1. CASE node' = node
    BY <2>1 DEF ListenTypeOK
  <2>2. CASE own[l] # 0 /\ node' = [node EXCEPT ![own[l]].kind = "dead"]
    <3>1. own[l] \in 1..created /\ own[l] \in Nodes /\ created \in Nat
      BY <2>2 DEF ListenTypeOK, Nodes
    <3>2. node[own[l]] \in NodeRecord
      BY <3>1 DEF ListenTypeOK
    <3>3. [node[own[l]] EXCEPT !.kind = "dead"] \in NodeRecord
      BY <3>2 DEF NodeRecord
    <3> DEFINE r == [node[own[l]] EXCEPT !.kind = "dead"]
    <3>6. node' = [node EXCEPT ![own[l]] = r] /\ node \in [Nodes -> NodeRecord]
      BY <2>2 DEF ListenTypeOK
    <3>7. r \in NodeRecord
      BY <3>3
    <3> HIDE DEF r
    <3>4. node' \in [Nodes -> NodeRecord]
      BY <3>6, <3>7
    <3>5. /\ node'[own[l]].mode = node[own[l]].mode
          /\ node'[own[l]].kind = "dead"
          /\ \A n \in Nodes : n # own[l] => node'[n] = node[n]
      BY <2>2, <3>1, <3>2 DEF ListenTypeOK, NodeRecord
    <3> QED
      BY <3>1, <3>4, <3>5 DEF Nodes
  <2> QED
    BY <1>1, <2>1, <2>2
<1>3. ListenTypeOK'
  <2>1. created \in Nat /\ own' \in [Caller -> 0..created]
    BY DEF ListenTypeOK
  <2>2. todo' \in [Caller -> {"idle", "bind", "probe", "unlink", "rebind",
                            "chmod", "listen", "serving"}]
    BY DEF ListenTypeOK
  <2> QED
    BY <1>2, <2>1, <2>2 DEF ListenTypeOK
<1>4. NodesAreMade' /\ SeenIsMade'
  BY <1>2 DEF NodesAreMade, SeenIsMade
<1>5. path # 0 => path \in Nodes
  BY DEF ListenTypeOK, Nodes
<1>6. Narrowed'
  BY <1>2, <1>5 DEF Narrowed, ListenTypeOK
<1>7. ReachableIsNarrow'
  BY <1>2, <1>5 DEF ReachableIsNarrow, Listening
<1>8. ProbeProtects'
  BY DEF ProbeProtects, ListenTypeOK
<1> QED
  BY <1>3, <1>4, <1>6, <1>7, <1>8

\* The caller's own socket starts to listen: it was narrowed if it is the one
\* the path names, and no caller about to unlink has seen it.
LEMMA ListenInd ==
    ASSUME IndInv, NEW l \in Caller, StartListening(l)
    PROVE  IndInv'
<1> USE CountAssumption DEF IndInv
<1>1. /\ todo[l] = "listen"
      /\ node' = [node EXCEPT ![own[l]].kind = "listening"]
      /\ todo' = [todo EXCEPT ![l] = "serving"]
      /\ returned' = [returned EXCEPT ![l] = "Ok"]
      /\ UNCHANGED <<created, path, own, error, tries, seen, rival>>
  BY DEF StartListening
<1>2. own[l] \in 0..created /\ created \in Nat
  BY DEF ListenTypeOK
<1>3. /\ node' \in [Nodes -> NodeRecord]
      /\ \A n \in Nodes : node'[n].mode = node[n].mode
      /\ \A n \in Nodes : n # own[l] => node'[n] = node[n]
  <2> DEFINE r == [node[own[l]] EXCEPT !.kind = "listening"]
  <2>1. node' = [node EXCEPT ![own[l]] = r] /\ node \in [Nodes -> NodeRecord]
    BY <1>1 DEF ListenTypeOK
  <2>2. own[l] \in Nodes => r \in NodeRecord /\ r.mode = node[own[l]].mode
    BY <2>1 DEF NodeRecord
  <2> HIDE DEF r
  <2> QED
    BY <2>1, <2>2
<1>4. ListenTypeOK'
  BY <1>1, <1>3 DEF ListenTypeOK
<1>5. NodesAreMade' /\ SeenIsMade'
  BY <1>1, <1>2, <1>3 DEF NodesAreMade, SeenIsMade, Nodes
<1>6. path # 0 => path \in Nodes
  BY DEF ListenTypeOK, Nodes
<1>7. Narrowed'
  BY <1>1, <1>3, <1>6 DEF Narrowed, ListenTypeOK
<1>8. ReachableIsNarrow'
  <2> SUFFICES ASSUME Posix, path \in Nodes, node'[path].kind = "listening"
               PROVE  node[path].mode = "0600"
    BY <1>1, <1>3 DEF ReachableIsNarrow, Listening
  <2>1. CASE path = own[l]
    BY <1>1, <2>1 DEF Narrowed, Nodes
  <2>2. CASE path # own[l]
    BY <1>3, <2>2 DEF ReachableIsNarrow, Listening
  <2> QED
    BY <2>1, <2>2
<1>9. ProbeProtects'
  BY <1>1 DEF ProbeProtects, ListenTypeOK
<1> QED
  BY <1>4, <1>5, <1>7, <1>8, <1>9

\* Whatever the path names is narrowed.
LEMMA ChmodInd ==
    ASSUME IndInv, NEW l \in Caller, path # 0,
           node' = [node EXCEPT ![path].mode = "0600"],
           todo' = [todo EXCEPT ![l] = "listen"],
           UNCHANGED <<created, path, own, error, tries, returned, seen, rival>>
    PROVE  IndInv'
<1> USE CountAssumption DEF IndInv
<1>1. path \in Nodes
  BY DEF ListenTypeOK, Nodes
<1>2. /\ node' \in [Nodes -> NodeRecord]
      /\ \A n \in Nodes : node'[n].kind = node[n].kind
      /\ node'[path].mode = "0600"
  BY <1>1 DEF ListenTypeOK, NodeRecord
<1>3. ListenTypeOK'
  BY <1>2 DEF ListenTypeOK
<1>4. NodesAreMade' /\ SeenIsMade' /\ Narrowed' /\ ReachableIsNarrow'
  BY <1>2 DEF NodesAreMade, SeenIsMade, Narrowed, ReachableIsNarrow
<1>5. ProbeProtects'
  BY DEF ProbeProtects, ListenTypeOK
<1> QED
  BY <1>3, <1>4, <1>5

\* A refused probe: what the path names is not among the listeners, or full.
LEMMA RefusedInd ==
    ASSUME IndInv, NEW l \in Caller, todo[l] = "probe",
           NEW answer \in ProbeAnswers, is_stale_socket(answer),
           todo' = [todo EXCEPT ![l] = "unlink"],
           seen' = [seen EXCEPT ![l] = Told(answer)],
           error' = [error EXCEPT ![l] = "none"],
           UNCHANGED <<node, created, path, own, returned, tries, rival>>
    PROVE  IndInv'
<1> USE CountAssumption DEF IndInv
<1>1. path \notin Told(answer) /\ Told(answer) \subseteq Listening
  BY BackendAssumption DEF is_stale_socket, connect, ProbeAnswers, Told
<1>a. Listening \subseteq Nodes /\ Listening \subseteq 1..created
  BY DEF Listening, NodesAreMade, Nodes, ListenTypeOK
<1>2. Told(answer) \subseteq Nodes /\ Told(answer) \subseteq 1..created
  BY <1>1, <1>a
<1>3. seen' \in [Caller -> SUBSET Nodes]
  BY <1>2 DEF ListenTypeOK
<1>4. ListenTypeOK'
  BY <1>3 DEF ListenTypeOK
<1>5. SeenIsMade'
  BY <1>2 DEF SeenIsMade, ListenTypeOK
<1>6. NodesAreMade' /\ Narrowed' /\ ReachableIsNarrow'
  BY DEF NodesAreMade, Narrowed, ReachableIsNarrow, Listening, ListenTypeOK
<1>7. ProbeProtects'
  BY <1>1 DEF ProbeProtects, ListenTypeOK
<1> QED
  BY <1>4, <1>5, <1>6, <1>7

\* The path is emptied, or the unlink is refused.
LEMMA UnlinkInd ==
    ASSUME IndInv, NEW l \in Caller, Unlink(l)
    PROVE  IndInv'
<1> USE CountAssumption DEF IndInv
<1>1. /\ path' \in {0, path}
      /\ todo' = [todo EXCEPT ![l] = "rebind"]
      /\ seen' = [seen EXCEPT ![l] = {}]
      /\ UNCHANGED <<node, created, own, error, tries, returned, rival>>
  BY DEF Unlink
<1>2. ListenTypeOK'
  BY <1>1 DEF ListenTypeOK
<1>3. SeenIsMade' /\ NodesAreMade'
  BY <1>1 DEF SeenIsMade, NodesAreMade, ListenTypeOK
<1>4. Narrowed'
  BY <1>1 DEF Narrowed, ListenTypeOK
<1>5. ReachableIsNarrow'
  BY <1>1 DEF ReachableIsNarrow, Listening, Nodes
<1>6. ProbeProtects'
  <2>1. \A k \in Caller : 0 \notin seen[k]
    BY DEF SeenIsMade
  <2> QED
    BY <1>1, <2>1 DEF ProbeProtects, ListenTypeOK
<1> QED
  BY <1>2, <1>3, <1>4, <1>5, <1>6

\* Steps that touch neither the path nor a socket.
LEMMA QuietInd ==
    ASSUME IndInv, ListenTypeOK', UNCHANGED <<node, created, path, own, seen>>,
           \A k \in Caller : todo'[k] \in {"unlink", "listen"} => todo'[k] = todo[k]
    PROVE  IndInv'
<1>1. NodesAreMade' /\ SeenIsMade' /\ ReachableIsNarrow'
  BY DEF IndInv, NodesAreMade, SeenIsMade, ReachableIsNarrow, Listening
<1>2. Narrowed' /\ ProbeProtects'
  BY DEF IndInv, Narrowed, ProbeProtects
<1> QED
  BY <1>1, <1>2 DEF IndInv

\* The errors unix_listen can return are errors of the model.
LEMMA ReturnInd ==
    ASSUME IndInv, NEW l \in Caller,
           NEW e \in {"none", "AddrInUse", "Zero", "NotFound", "Other"},
           ReturnError(l, e), UNCHANGED <<tries, seen, rival>>,
           error' \in [Caller -> {"none", "AddrInUse", "Zero"}]
    PROVE  IndInv'
<1>1. returned' \in [Caller -> {"none", "Ok", "AddrInUse", "Zero",
                             "NotFound", "Other"}]
  BY DEF ReturnError, IndInv, ListenTypeOK
<1> QED
  BY <1>1, ClosedInd DEF ReturnError

-----------------------------------------------------------------------------
(* The invariant is inductive                                              *)

\* A leftover file or dead socket does not listen.
LEMMA InitInd == ListenInit => IndInv
<1> SUFFICES ASSUME ListenInit PROVE IndInv
  OBVIOUS
<1> USE CountAssumption, KindAssumption
<1>1. PICK left \in Leftovers :
         /\ node = [n \in Nodes |-> IF n = 1
                                  THEN [kind |-> left, mode |-> "umask"]
                                  ELSE NoNode]
         /\ created = IF left = "nothing" THEN 0 ELSE 1
         /\ path = IF left = "nothing" THEN 0 ELSE 1
  BY DEF ListenInit
<1>2. \A n \in Nodes : node[n].kind \in {"nothing", "file", "dead"}
  BY <1>1 DEF NoNode
<1>3. ListenTypeOK
  BY <1>1 DEF ListenInit, ListenTypeOK, NodeRecord, NoNode, Nodes
<1>4. NodesAreMade
  BY <1>1 DEF NodesAreMade, NoNode, Nodes
<1>5. Narrowed /\ SeenIsMade /\ ProbeProtects
  BY DEF ListenInit, Narrowed, SeenIsMade, ProbeProtects
<1>6. ReachableIsNarrow
  BY <1>2 DEF ReachableIsNarrow, Listening
<1> QED
  BY <1>3, <1>4, <1>5, <1>6 DEF IndInv

\* Every step of every caller preserves the invariant.
LEMMA NextInd == IndInv /\ [ListenNext]_lvars => IndInv'
<1> SUFFICES ASSUME IndInv, [ListenNext]_lvars PROVE IndInv'
  OBVIOUS
<1>1. CASE UNCHANGED lvars
  <2>1. ListenTypeOK'
    BY <1>1 DEF IndInv, ListenTypeOK, lvars
  <2> QED
    BY <1>1, <2>1, QuietInd DEF lvars
<1>2. ASSUME NEW l \in Caller, Call(l) PROVE IndInv'
  <2>1. rival' \in [Caller -> BOOLEAN]
    <3> DEFINE about(k) == IF k = l THEN \E m \in Caller \ {l} : todo[m] # "idle"
                           ELSE rival[k] \/ InCall(k)
    <3>1. rival' = [k \in Caller |-> about(k)]
      BY <1>2, Zenon DEF Call
    <3>2. \A k \in Caller : about(k) \in BOOLEAN
      OBVIOUS
    <3> HIDE DEF about
    <3> QED
      BY <3>1, <3>2
  <2>2. ListenTypeOK'
    <3>1. /\ todo' = [todo EXCEPT ![l] = "bind"]
          /\ returned' = [returned EXCEPT ![l] = "none"]
          /\ tries' = [tries EXCEPT ![l] = 0]
          /\ UNCHANGED <<node, created, path, own, error, seen>>
      BY <1>2, Zenon DEF Call
    <3> QED
      BY <2>1, <3>1, CountAssumption DEF IndInv, ListenTypeOK
  <2>3. \A k \in Caller : todo'[k] \in {"unlink", "listen"} => todo'[k] = todo[k]
    BY <1>2 DEF Call, IndInv, ListenTypeOK
  <2> QED
    BY <1>2, <2>2, <2>3, QuietInd DEF Call
<1>3. ASSUME NEW l \in Caller, FirstBind(l) PROVE IndInv'
  <2>1. CASE Bound(l) /\ todo' = [todo EXCEPT ![l] = AfterBind]
             /\ UNCHANGED <<error, returned>>
    BY <1>3, <2>1, BoundInd DEF FirstBind
  <2>2. ASSUME NEW e \in BindErrors, is_stale_bind_candidate(e),
               todo' = [todo EXCEPT ![l] = "probe"],
               error' = [error EXCEPT ![l] = e],
               UNCHANGED <<node, created, path, own, returned>>
        PROVE  IndInv'
    <3>1. e \in {"AddrInUse", "Zero"}
      BY <2>2 DEF is_stale_bind_candidate
    <3>2. ListenTypeOK'
      BY <1>3, <2>2, <3>1 DEF FirstBind, IndInv, ListenTypeOK
    <3>3. \A k \in Caller : todo'[k] \in {"unlink", "listen"} => todo'[k] = todo[k]
      BY <2>2 DEF IndInv, ListenTypeOK
    <3> QED
      BY <1>3, <2>2, <3>2, <3>3, QuietInd DEF FirstBind
  <2>3. ASSUME NEW e \in BindErrors, ReturnError(l, e), UNCHANGED error
        PROVE  IndInv'
    <3>1. e \in {"none", "AddrInUse", "Zero", "NotFound", "Other"}
      BY DEF BindErrors
    <3>2. error' \in [Caller -> {"none", "AddrInUse", "Zero"}]
      BY <2>3 DEF IndInv, ListenTypeOK
    <3> QED
      BY <1>3, <2>3, <3>1, <3>2, ReturnInd DEF FirstBind
  <2> QED
    BY <1>3, <2>1, <2>2, <2>3 DEF FirstBind
<1>4. ASSUME NEW l \in Caller, Probe(l) PROVE IndInv'
  <2>1. /\ todo[l] = "probe" /\ error' = [error EXCEPT ![l] = "none"]
        /\ UNCHANGED <<tries, rival>>
    BY <1>4 DEF Probe
  <2>2. PICK answer \in ProbeAnswers :
           IF is_stale_socket(answer)
           THEN /\ todo' = [todo EXCEPT ![l] = "unlink"]
                /\ seen' = [seen EXCEPT ![l] = Told(answer)]
                /\ UNCHANGED <<node, created, path, own, returned>>
           ELSE ReturnError(l, NotStale(l, answer)) /\ UNCHANGED seen
    BY <1>4 DEF Probe
  <2>3. CASE is_stale_socket(answer)
    BY <2>1, <2>2, <2>3, RefusedInd
  <2>4. CASE ~is_stale_socket(answer)
    <3>1. NotStale(l, answer) \in {"none", "AddrInUse", "Zero", "NotFound", "Other"}
      BY <2>4, BackendAssumption
         DEF NotStale, ProbeAnswers, connect, is_stale_socket, IndInv, ListenTypeOK
    <3>2. error' \in [Caller -> {"none", "AddrInUse", "Zero"}]
      BY <2>1 DEF IndInv, ListenTypeOK
    <3> QED
      BY <2>1, <2>2, <2>4, <3>1, <3>2, ReturnInd
  <2> QED
    BY <2>3, <2>4
<1>5. ASSUME NEW l \in Caller, ProbeAgain(l) PROVE IndInv'
  <2>1. ListenTypeOK'
    BY <1>5, CountAssumption DEF ProbeAgain, IndInv, ListenTypeOK
  <2> QED
    BY <1>5, <2>1, QuietInd DEF ProbeAgain
<1>6. ASSUME NEW l \in Caller, Unlink(l) PROVE IndInv'
  BY <1>6, UnlinkInd
<1>7. ASSUME NEW l \in Caller, Rebind(l) PROVE IndInv'
  <2>1. CASE Bound(l) /\ todo' = [todo EXCEPT ![l] = AfterBind] /\ UNCHANGED returned
    BY <1>7, <2>1, BoundInd DEF Rebind
  <2>2. CASE ReturnError(l, "AddrInUse")
    <3>1. error' \in [Caller -> {"none", "AddrInUse", "Zero"}]
      BY <1>7 DEF Rebind, IndInv, ListenTypeOK
    <3> QED
      BY <1>7, <2>2, <3>1, ReturnInd DEF Rebind
  <2> QED
    BY <1>7, <2>1, <2>2 DEF Rebind
<1>8. ASSUME NEW l \in Caller, Chmod(l) PROVE IndInv'
  <2>1. CASE path # 0
    BY <1>8, <2>1, ChmodInd DEF Chmod
  <2>2. CASE path = 0
    <3>1. ReturnError(l, "NotFound") /\ UNCHANGED <<error, tries, seen, rival>>
      BY <1>8, <2>2 DEF Chmod
    <3>2. error' \in [Caller -> {"none", "AddrInUse", "Zero"}]
      BY <3>1 DEF IndInv, ListenTypeOK
    <3> QED
      BY <3>1, <3>2, ReturnInd
  <2> QED
    BY <2>1, <2>2
<1>9. ASSUME NEW l \in Caller, StartListening(l) PROVE IndInv'
  BY <1>9, ListenInd
<1>10. ASSUME NEW l \in Caller, SysFails(l) PROVE IndInv'
  <2>1. error' \in [Caller -> {"none", "AddrInUse", "Zero"}]
    BY <1>10 DEF SysFails, IndInv, ListenTypeOK
  <2> QED
    BY <1>10, <2>1, ReturnInd DEF SysFails
<1>11. ASSUME NEW l \in Caller, CallerDies(l) PROVE IndInv'
  <2>1. /\ error' \in [Caller -> {"none", "AddrInUse", "Zero"}]
        /\ returned' \in [Caller -> {"none", "Ok", "AddrInUse", "Zero",
                                   "NotFound", "Other"}]
    BY <1>11 DEF CallerDies, IndInv, ListenTypeOK
  <2> QED
    BY <1>11, <2>1, ClosedInd DEF CallerDies
<1> QED
  BY <1>1, <1>2, <1>3, <1>4, <1>5, <1>6, <1>7, <1>8, <1>9, <1>10, <1>11
     DEF ListenNext, Proceed

\* The invariant holds in every state of every behaviour.
LEMMA AlwaysIndInv == ListenSpec => []IndInv
  BY InitInd, NextInd, PTL DEF ListenSpec

\* Type correctness on every backend.
THEOREM TypeCorrect == ListenSpec => []ListenTypeOK
<1>1. IndInv => ListenTypeOK
  BY DEF IndInv
<1> QED
  BY <1>1, AlwaysIndInv, PTL

\* No client ever connects through a socket file that unix_listen has left
\* open to other users, however many callers race for the path.
THEOREM NeverReachableWide == ListenSpec => []ReachableIsNarrow
<1>1. IndInv => ReachableIsNarrow
  BY DEF IndInv
<1> QED
  BY <1>1, AlwaysIndInv, PTL

\* is_stale_socket protects every listener that was up when it probed, on
\* every backend, the widened gate of the Windows one included.
THEOREM ProbeIsSound == ListenSpec => []ProbeProtects
<1>1. IndInv => ProbeProtects
  BY DEF IndInv
<1> QED
  BY <1>1, AlwaysIndInv, PTL

\* Both at once, with any number of repetitions of the Windows probe.
THEOREM ListenersAreSafe == ListenSpec => []ListenerIsSafe
<1>1. IndInv => ListenerIsSafe
  BY DEF IndInv, ListenerIsSafe
<1> QED
  BY <1>1, AlwaysIndInv, PTL

-----------------------------------------------------------------------------
(* Callers that take turns                                                 *)

\* A caller leaves, by an error or by its death: nobody else's socket is
\* closed with it.
LEMMA LeaveTurns ==
    ASSUME ListenTypeOK, TurnsInv, NEW l \in Caller, todo[l] # "idle",
           todo' = [todo EXCEPT ![l] = "idle"],
           own' = [own EXCEPT ![l] = 0],
           node' = SocketClosed(l), UNCHANGED path
    PROVE  TurnsInv'
<1>1. \A k \in Caller : k # l => todo'[k] = todo[k] /\ own'[k] = own[k]
  BY DEF ListenTypeOK
<1>2. todo'[l] = "idle" /\ own'[l] = 0
  BY DEF ListenTypeOK
<1>3. ASSUME NEW k \in Caller, k # l, todo[k] = "serving"
      PROVE  node' = node
  BY <1>3 DEF TurnsInv, InCall, SocketClosed
<1>4. \A k \in Caller : todo'[k] = "serving" => path' \in Listening'
  BY <1>1, <1>2, <1>3 DEF TurnsInv, Listening
<1> QED
  BY <1>1, <1>2, <1>4 DEF TurnsInv, InCall

\* A path that names nothing is bound: nobody was serving on it.
LEMMA BoundTurns ==
    ASSUME ListenTypeOK, TurnsInv, NEW l \in Caller, todo[l] \in {"bind", "rebind"},
           Bound(l), todo' = [todo EXCEPT ![l] = AfterBind]
    PROVE  TurnsInv'
<1>1. \A k \in Caller : todo[k] \notin {"chmod", "listen", "serving"}
  BY DEF Bound, TurnsInv
<1>2. /\ todo'[l] \in {"chmod", "listen"}
      /\ own'[l] = path' /\ path' # 0
      /\ \A k \in Caller : k # l => todo'[k] = todo[k] /\ own'[k] = own[k]
  BY DEF ListenTypeOK, AfterBind, Bound
<1>3. \A k \in Caller : k # l => todo[k] = "idle"
  BY <1>1 DEF TurnsInv, InCall
<1> QED
  BY <1>1, <1>2, <1>3 DEF TurnsInv, InCall

\* Nobody takes the path from a listener: whoever gets to unlink has found
\* the path not listening, and nobody can have bound it since.
LEMMA TurnsStep ==
    ASSUME Serial, ~RefusesFull, ListenTypeOK, TurnsInv, [ListenNext]_lvars PROVE TurnsInv'
<1>1. CASE UNCHANGED lvars
  BY <1>1 DEF lvars, TurnsInv, InCall, Listening
<1>2. ASSUME NEW l \in Caller, Call(l) PROVE TurnsInv'
  <2>1. /\ todo[l] = "idle" /\ \A k \in Caller : ~InCall(k)
        /\ todo' = [todo EXCEPT ![l] = "bind"]
        /\ UNCHANGED <<node, path, own>>
    BY <1>2, Zenon DEF Call
  <2>2. todo'[l] = "bind" /\ \A k \in Caller : k # l => todo'[k] = todo[k]
    BY <2>1 DEF ListenTypeOK
  <2> QED
    BY <2>1, <2>2 DEF TurnsInv, InCall, Listening
<1>3. ASSUME NEW l \in Caller, InCall(l), NEW e, ReturnError(l, e) PROVE TurnsInv'
  BY <1>3, LeaveTurns DEF ReturnError, InCall
<1>4. ASSUME NEW l \in Caller, FirstBind(l) PROVE TurnsInv'
  <2>1. todo[l] = "bind"
    BY <1>4 DEF FirstBind
  <2>2. CASE Bound(l) /\ todo' = [todo EXCEPT ![l] = AfterBind]
    BY <2>1, <2>2, BoundTurns
  <2>3. CASE todo' = [todo EXCEPT ![l] = "probe"] /\ UNCHANGED <<node, path, own>>
    <3>1. todo'[l] = "probe" /\ \A k \in Caller : k # l => todo'[k] = todo[k]
      BY <2>3 DEF ListenTypeOK
    <3> QED
      BY <2>1, <2>3, <3>1 DEF TurnsInv, InCall, Listening
  <2>4. CASE \E e : ReturnError(l, e)
    BY <2>1, <2>4, <1>3 DEF InCall
  <2> QED
    BY <1>4, <2>2, <2>3, <2>4 DEF FirstBind
<1>5. ASSUME NEW l \in Caller, Probe(l) PROVE TurnsInv'
  <2>1. todo[l] = "probe"
    BY <1>5 DEF Probe
  <2>2. CASE \E e : ReturnError(l, e)
    BY <2>1, <2>2, <1>3 DEF InCall
  <2>3. CASE /\ \E answer \in ProbeAnswers : is_stale_socket(answer)
             /\ todo' = [todo EXCEPT ![l] = "unlink"]
             /\ UNCHANGED <<node, path, own>>
    <3>1. path \notin Listening
      BY <2>3 DEF is_stale_socket, connect, ProbeAnswers
    <3>2. todo'[l] = "unlink" /\ \A k \in Caller : k # l => todo'[k] = todo[k]
      BY <2>3 DEF ListenTypeOK
    <3>3. \A k \in Caller : todo[k] # "serving"
      BY <3>1 DEF TurnsInv
    <3> QED
      BY <2>1, <2>3, <3>2, <3>3 DEF TurnsInv, InCall, Listening
  <2>4. \/ \E e : ReturnError(l, e)
        \/ \E answer \in ProbeAnswers :
              /\ is_stale_socket(answer)
              /\ todo' = [todo EXCEPT ![l] = "unlink"]
              /\ UNCHANGED <<node, path, own>>
    BY <1>5, Zenon DEF Probe
  <2> QED
    BY <2>2, <2>3, <2>4
<1>6. ASSUME NEW l \in Caller, ProbeAgain(l) PROVE TurnsInv'
  BY <1>6 DEF ProbeAgain, TurnsInv, InCall, Listening
<1>7. ASSUME NEW l \in Caller, Unlink(l) PROVE TurnsInv'
  <2>1. /\ todo[l] = "unlink" /\ UNCHANGED <<node, own>>
        /\ todo'[l] = "rebind" /\ \A k \in Caller : k # l => todo'[k] = todo[k]
    BY <1>7 DEF Unlink, ListenTypeOK
  <2>2. \A k \in Caller : k # l => todo[k] = "idle"
    BY <2>1 DEF TurnsInv, InCall
  <2> QED
    BY <2>1, <2>2 DEF TurnsInv, InCall
<1>8. ASSUME NEW l \in Caller, Rebind(l) PROVE TurnsInv'
  <2>1. todo[l] = "rebind"
    BY <1>8 DEF Rebind
  <2>2. CASE Bound(l) /\ todo' = [todo EXCEPT ![l] = AfterBind]
    BY <2>1, <2>2, BoundTurns
  <2>3. CASE ReturnError(l, "AddrInUse")
    BY <2>1, <2>3, <1>3 DEF InCall
  <2> QED
    BY <1>8, <2>2, <2>3 DEF Rebind
<1>9. ASSUME NEW l \in Caller, Chmod(l) PROVE TurnsInv'
  <2>1. todo[l] = "chmod" /\ path # 0
    BY <1>9 DEF Chmod, TurnsInv
  <2>2. /\ todo' = [todo EXCEPT ![l] = "listen"] /\ UNCHANGED <<path, own>>
    BY <1>9, <2>1 DEF Chmod
  <2>3. todo'[l] = "listen" /\ \A k \in Caller : k # l => todo'[k] = todo[k]
    BY <2>2 DEF ListenTypeOK
  <2>4. \A k \in Caller : k # l => todo[k] = "idle"
    BY <2>1 DEF TurnsInv, InCall
  <2> QED
    BY <2>1, <2>2, <2>3, <2>4 DEF TurnsInv, InCall
<1>10. ASSUME NEW l \in Caller, StartListening(l) PROVE TurnsInv'
  <2>1. /\ todo[l] = "listen" /\ UNCHANGED <<path, own>>
        /\ todo'[l] = "serving" /\ \A k \in Caller : k # l => todo'[k] = todo[k]
        /\ node' = [node EXCEPT ![own[l]].kind = "listening"]
    BY <1>10 DEF StartListening, ListenTypeOK
  <2>2. \A k \in Caller : k # l => todo[k] = "idle"
    BY <2>1 DEF TurnsInv, InCall
  <2>3. path = own[l] /\ path \in Nodes
    BY <2>1, CountAssumption DEF TurnsInv, ListenTypeOK, Nodes
  <2>4. path' \in Listening'
    BY <2>1, <2>3 DEF Listening, ListenTypeOK, NodeRecord
  <2> QED
    BY <2>1, <2>2, <2>4 DEF TurnsInv, InCall
<1>11. ASSUME NEW l \in Caller, SysFails(l) PROVE TurnsInv'
  BY <1>11, <1>3 DEF SysFails, InCall
<1>12. ASSUME NEW l \in Caller, CallerDies(l) PROVE TurnsInv'
  BY <1>12, LeaveTurns DEF CallerDies
<1> QED
  BY <1>1, <1>2, <1>4, <1>5, <1>6, <1>7, <1>8, <1>9, <1>10, <1>11, <1>12
     DEF ListenNext, Proceed

\* Callers that take turns never lose the path they serve on, whatever is
\* left there, however they die and whether or not unlink is permitted, where a
\* connect to a full backlog waits, as on Linux.
THEOREM TurnsAreSafe ==
    ASSUME Serial, ~RefusesFull
    PROVE  ListenSpec => []OneLiveListener
<1>1. ListenInit => TurnsInv
  BY DEF ListenInit, TurnsInv, InCall
<1>2. ListenTypeOK /\ TurnsInv /\ [ListenNext]_lvars => TurnsInv'
  BY TurnsStep
<1>3. TurnsInv => OneLiveListener
  BY DEF TurnsInv, OneLiveListener
<1> QED
  BY <1>1, <1>2, <1>3, TypeCorrect, PTL DEF ListenSpec

-----------------------------------------------------------------------------
(* A caller that has the path to itself                                    *)

\* Who has met no rival is alone, and what is at the path is then what the
\* steps of that one call left there.  Whatever listens belongs to a caller
\* that serves.
Alone(l) == InCall(l) /\ ~rival[l]
NobodyElse == \A l \in Caller : Alone(l) => \A k \in Caller \ {l} : todo[k] = "idle"
PathIsMine ==
    \A l \in Caller : Alone(l) =>
        /\ todo[l] \in {"probe", "chmod"} => path # 0
        /\ todo[l] = "rebind" => path = 0
ListenersServe == \A n \in Listening : \E k \in Caller : todo[k] = "serving" /\ own[k] = n
NotTold == \A l \in Caller : returned[l] \in {"AddrInUse", "NotFound"} => rival[l]
LonelyInv == NobodyElse /\ PathIsMine /\ ListenersServe /\ NotTold

\* The caller l takes a step of its call: it meets nobody by that, and if it
\* was alone the step decides what is at the path.
LEMMA LonelyStep ==
    ASSUME ListenTypeOK, LonelyInv, NEW l \in Caller, InCall(l),
           NEW to \in {"idle", "probe", "unlink", "rebind", "chmod", "listen", "serving"},
           todo' = [todo EXCEPT ![l] = to], rival' = rival,
           \A k \in Caller : k # l => returned'[k] = returned[k],
           Alone(l) /\ to \in {"probe", "chmod"} => path' # 0,
           Alone(l) /\ to = "rebind" => path' = 0,
           returned'[l] \in {"AddrInUse", "NotFound"} => rival[l],
           \A n \in Listening' : n \in Listening \/ (to = "serving" /\ own'[l] = n),
           \A k \in Caller : k # l => own'[k] = own[k]
    PROVE  LonelyInv'
<1> USE DEF InCall, Alone
<1>1. todo \in [Caller -> {"idle", "bind", "probe", "unlink", "rebind", "chmod", "listen", "serving"}]
      /\ todo'[l] = to /\ \A k \in Caller : k # l => todo'[k] = todo[k]
  BY DEF ListenTypeOK
<1>2. \A k \in Caller : Alone(k)' => k = l
  <2> SUFFICES ASSUME NEW k \in Caller, Alone(k)', k # l
               PROVE  FALSE
    OBVIOUS
  <2>1. Alone(k)
    BY <1>1
  <2>2. todo[l] = "idle"
    BY <2>1 DEF LonelyInv, NobodyElse, PathIsMine, ListenersServe, NotTold
  <2> QED
    BY <2>2
<1>3. Alone(l)' => Alone(l) /\ \A k \in Caller \ {l} : todo'[k] = "idle"
  BY <1>1 DEF LonelyInv, NobodyElse, PathIsMine, ListenersServe, NotTold
<1>4. \A n \in Listening' : \E k \in Caller : todo'[k] = "serving" /\ own'[k] = n
  <2> SUFFICES ASSUME NEW n \in Listening'
               PROVE  \E k \in Caller : todo'[k] = "serving" /\ own'[k] = n
    OBVIOUS
  <2>1. CASE n \in Listening
    <3>1. PICK k \in Caller : todo[k] = "serving" /\ own[k] = n
      BY <2>1 DEF LonelyInv, NobodyElse, PathIsMine, ListenersServe, NotTold
    <3>2. k # l
      BY <3>1
    <3> QED
      BY <1>1, <3>1, <3>2
  <2>2. CASE to = "serving" /\ own'[l] = n
    BY <1>1, <2>2
  <2> QED
    BY <2>1, <2>2
<1>5. \A k \in Caller : returned'[k] \in {"AddrInUse", "NotFound"} => rival'[k]
  BY DEF LonelyInv, NobodyElse, PathIsMine, ListenersServe, NotTold
<1>6. \A k \in Caller : Alone(k)' => \A m \in Caller \ {k} : todo'[m] = "idle"
  BY <1>2, <1>3
<1>7. \A k \in Caller : Alone(k)' => /\ todo'[k] \in {"probe", "chmod"} => path' # 0
                                     /\ todo'[k] = "rebind" => path' = 0
  BY <1>1, <1>2, <1>3
<1>8. NobodyElse'
  BY <1>6 DEF NobodyElse
<1>9. PathIsMine'
  BY <1>7 DEF PathIsMine
<1>10. ListenersServe' /\ NotTold'
  BY <1>4, <1>5 DEF ListenersServe, NotTold
<1> QED
  BY <1>8, <1>9, <1>10 DEF LonelyInv

\* What listens when a socket is closed listened before, and it is not that one.
LEMMA ClosedListening ==
    ASSUME ListenTypeOK, NEW l \in Caller, node' = SocketClosed(l)
    PROVE  \A n \in Listening' : n \in Listening /\ n # own[l]
<1>1. node \in [Nodes -> NodeRecord] /\ 0 \notin Nodes
  BY DEF ListenTypeOK, Nodes
<1>2. CASE own[l] = 0
  BY <1>1, <1>2 DEF SocketClosed, Listening
<1>3. CASE own[l] # 0
  BY <1>1, <1>3 DEF SocketClosed, Listening, NodeRecord
<1> QED
  BY <1>2, <1>3

\* A call that returns an error closes its socket on the way.
LEMMA LonelyReturn ==
    ASSUME ListenTypeOK, LonelyInv, NEW l \in Caller, InCall(l), NEW e, ReturnError(l, e), rival' = rival,
           e \in {"AddrInUse", "NotFound"} => rival[l]
    PROVE  LonelyInv'
<1>1. /\ todo' = [todo EXCEPT ![l] = "idle"] /\ own' = [own EXCEPT ![l] = 0]
      /\ returned' = [returned EXCEPT ![l] = e] /\ node' = SocketClosed(l)
  BY DEF ReturnError
<1>2. own \in [Caller -> 0..created]
      /\ returned \in [Caller -> {"none", "Ok", "AddrInUse", "Zero", "NotFound", "Other"}]
  BY DEF ListenTypeOK
<1>3. \A n \in Listening' : n \in Listening
  BY <1>1, ClosedListening
<1> QED
  BY <1>1, <1>2, <1>3, LonelyStep

LEMMA LonelyBound ==
    ASSUME ListenTypeOK, LonelyInv, NEW l \in Caller, InCall(l), Bound(l),
           todo' = [todo EXCEPT ![l] = AfterBind], rival' = rival, returned' = returned
    PROVE  LonelyInv'
<1>1. /\ created' = created + 1 /\ path' = created + 1 /\ created < MaxNodes
      /\ node' = [node EXCEPT ![created + 1] = [kind |-> "bound", mode |-> "umask"]]
      /\ own' = [own EXCEPT ![l] = created + 1]
  BY DEF Bound
<1>2. /\ node \in [Nodes -> NodeRecord] /\ created \in Nat /\ own \in [Caller -> 0..created]
  BY CountAssumption DEF ListenTypeOK
<1>3. path' # 0 /\ \A n \in Listening' : n \in Listening
  BY <1>1, <1>2 DEF Listening
<1>4. AfterBind \in {"chmod", "listen"}
  BY DEF AfterBind
<1>5. returned[l] \in {"AddrInUse", "NotFound"} => rival[l]
  BY DEF LonelyInv, NobodyElse, PathIsMine, ListenersServe, NotTold
<1> QED
  BY <1>1, <1>2, <1>3, <1>4, <1>5, LonelyStep

LEMMA LonelyNext ==
    ASSUME Posix, UnlinkWorks, ListenTypeOK, LonelyInv, [ListenNext]_lvars
    PROVE  LonelyInv'
<1>0. /\ todo \in [Caller -> {"idle", "bind", "probe", "unlink", "rebind", "chmod", "listen", "serving"}]
      /\ own \in [Caller -> 0..created] /\ node \in [Nodes -> NodeRecord]
      /\ rival \in [Caller -> BOOLEAN]
      /\ returned \in [Caller -> {"none", "Ok", "AddrInUse", "Zero", "NotFound", "Other"}]
  BY DEF ListenTypeOK
<1>00. \A l \in Caller : returned[l] \in {"AddrInUse", "NotFound"} => rival[l]
  BY DEF LonelyInv, NobodyElse, PathIsMine, ListenersServe, NotTold
<1>1. CASE UNCHANGED lvars
  BY <1>1 DEF lvars, LonelyInv, NobodyElse, PathIsMine, ListenersServe, NotTold, Alone, InCall, Listening
<1>2. ASSUME NEW l \in Caller, Call(l) PROVE LonelyInv'
  <2>1. /\ todo[l] = "idle" /\ todo' = [todo EXCEPT ![l] = "bind"]
        /\ returned' = [returned EXCEPT ![l] = "none"]
        /\ rival' = [k \in Caller |-> IF k = l THEN \E m \in Caller \ {l} : todo[m] # "idle"
                                      ELSE rival[k] \/ InCall(k)]
        /\ UNCHANGED <<node, path, own>>
    BY <1>2 DEF Call
  <2>2. \A k \in Caller : k # l => ~Alone(k)'
    BY <1>0, <2>1 DEF Alone, InCall
  <2>3. Alone(l)' => \A k \in Caller \ {l} : todo'[k] = "idle"
    BY <1>0, <2>1 DEF Alone
  <2>4. todo'[l] = "bind" /\ \A k \in Caller : k # l => todo'[k] = todo[k]
    BY <1>0, <2>1
  <2>5. \A n \in Listening' : \E k \in Caller : todo'[k] = "serving" /\ own'[k] = n
    <3>1. Listening' = Listening
      BY <2>1 DEF Listening
    <3>2. \A n \in Listening : \E k \in Caller : todo[k] = "serving" /\ own[k] = n
      BY DEF LonelyInv, NobodyElse, PathIsMine, ListenersServe, NotTold
    <3> QED
      BY <2>1, <2>4, <3>1, <3>2
  <2>6. \A k \in Caller : returned'[k] \in {"AddrInUse", "NotFound"} => rival'[k]
    BY <1>0, <1>00, <2>1
  <2>7. \A k \in Caller : Alone(k)' => k = l
    BY <2>2
  <2> QED
    BY <2>3, <2>4, <2>5, <2>6, <2>7 DEF LonelyInv, NobodyElse, PathIsMine, ListenersServe, NotTold
<1>3. ASSUME NEW l \in Caller, FirstBind(l) PROVE LonelyInv'
  <2>1. InCall(l) /\ todo[l] = "bind" /\ rival' = rival
    BY <1>3 DEF FirstBind, InCall
  <2>2. CASE Bound(l) /\ todo' = [todo EXCEPT ![l] = AfterBind] /\ returned' = returned
    BY <2>1, <2>2, LonelyBound
  <2>3. CASE ReturnError(l, "Other")
    BY <2>1, <2>3, LonelyReturn
  <2>4. CASE path # 0 /\ todo' = [todo EXCEPT ![l] = "probe"]
             /\ UNCHANGED <<node, created, path, own, returned>>
    <3>1. Listening' = Listening
      BY <2>4 DEF Listening
    <3> QED
      BY <1>00, <2>1, <2>4, <3>1, LonelyStep
  <2> QED
    BY <1>3, <2>2, <2>3, <2>4 DEF FirstBind, BindErrors, is_stale_bind_candidate
<1>4. ASSUME NEW l \in Caller, Probe(l) PROVE LonelyInv'
  <2>1. InCall(l) /\ todo[l] = "probe" /\ rival' = rival
    BY <1>4 DEF Probe, InCall
  <2>2. CASE todo' = [todo EXCEPT ![l] = "unlink"] /\ UNCHANGED <<node, created, path, own, returned>>
    <3>1. Listening' = Listening
      BY <2>2 DEF Listening
    <3> QED
      BY <1>00, <2>1, <2>2, <3>1, LonelyStep
  <2>3. ASSUME NEW answer \in ProbeAnswers, ~is_stale_socket(answer),
               ReturnError(l, NotStale(l, answer))
        PROVE  LonelyInv'
    \* Alone, the probe finds something that does not listen.
    <3>1. Alone(l) => connect = {"ConnectionRefused"}
      <4> SUFFICES ASSUME Alone(l) PROVE path # 0 /\ path \notin Listening
        BY DEF connect
      <4>1. path # 0 /\ \A k \in Caller \ {l} : todo[k] = "idle"
        BY <2>1 DEF LonelyInv, NobodyElse, PathIsMine, ListenersServe, NotTold
      <4>2. \A k \in Caller : todo[k] # "serving"
        BY <2>1, <4>1
      <4> QED
        BY <4>1, <4>2 DEF LonelyInv, NobodyElse, PathIsMine, ListenersServe, NotTold
    <3>2. Alone(l) => answer = "Other"
      BY <2>3, <3>1 DEF ProbeAnswers, is_stale_socket
    <3>3. NotStale(l, answer) \in {"AddrInUse", "NotFound"} => rival[l]
      BY <2>1, <3>2 DEF NotStale, Alone
    <3> QED
      BY <2>1, <2>3, <3>3, LonelyReturn
  <2> QED
    BY <1>4, <2>2, <2>3 DEF Probe
<1>5. ASSUME NEW l \in Caller, ProbeAgain(l) PROVE LonelyInv'
  BY <1>5 DEF ProbeAgain
<1>6. ASSUME NEW l \in Caller, Unlink(l) PROVE LonelyInv'
  <2>1. /\ InCall(l) /\ rival' = rival /\ path' = 0 /\ todo' = [todo EXCEPT ![l] = "rebind"]
        /\ UNCHANGED <<node, own, returned>>
    BY <1>6 DEF Unlink, InCall
  <2>2. Listening' = Listening
    BY <2>1 DEF Listening
  <2> QED
    BY <1>00, <2>1, <2>2, LonelyStep
<1>7. ASSUME NEW l \in Caller, Rebind(l) PROVE LonelyInv'
  <2>1. InCall(l) /\ todo[l] = "rebind" /\ rival' = rival
    BY <1>7 DEF Rebind, InCall
  <2>2. CASE Bound(l) /\ todo' = [todo EXCEPT ![l] = AfterBind] /\ returned' = returned
    BY <2>1, <2>2, LonelyBound
  <2>3. CASE path # 0 /\ ReturnError(l, "AddrInUse")
    <3>1. rival[l]
      BY <2>1, <2>3 DEF LonelyInv, NobodyElse, PathIsMine, ListenersServe, NotTold, Alone
    <3> QED
      BY <2>1, <2>3, <3>1, LonelyReturn
  <2> QED
    BY <1>7, <2>2, <2>3 DEF Rebind
<1>8. ASSUME NEW l \in Caller, Chmod(l) PROVE LonelyInv'
  <2>1. InCall(l) /\ todo[l] = "chmod" /\ rival' = rival
    BY <1>8 DEF Chmod, InCall
  <2>2. CASE path = 0 /\ ReturnError(l, "NotFound")
    <3>1. rival[l]
      BY <2>1, <2>2 DEF LonelyInv, NobodyElse, PathIsMine, ListenersServe, NotTold, Alone
    <3> QED
      BY <2>1, <2>2, <3>1, LonelyReturn
  <2>3. CASE /\ path # 0 /\ node' = [node EXCEPT ![path].mode = "0600"]
             /\ todo' = [todo EXCEPT ![l] = "listen"] /\ UNCHANGED <<created, path, own, returned>>
    <3>1. \A n \in Listening' : n \in Listening
      BY <1>0, <2>3 DEF Listening, NodeRecord
    <3> QED
      BY <1>00, <2>1, <2>3, <3>1, LonelyStep
  <2> QED
    BY <1>8, <2>2, <2>3 DEF Chmod
<1>9. ASSUME NEW l \in Caller, StartListening(l) PROVE LonelyInv'
  <2>1. /\ InCall(l) /\ rival' = rival /\ todo' = [todo EXCEPT ![l] = "serving"]
        /\ returned' = [returned EXCEPT ![l] = "Ok"] /\ own' = own
        /\ node' = [node EXCEPT ![own[l]].kind = "listening"]
    BY <1>9 DEF StartListening, InCall
  <2>2. \A n \in Listening' : n \in Listening \/ own'[l] = n
    BY <1>0, <2>1 DEF Listening, NodeRecord
  <2> QED
    BY <1>0, <2>1, <2>2, LonelyStep
<1>10. ASSUME NEW l \in Caller, SysFails(l) PROVE LonelyInv'
  BY <1>10, LonelyReturn DEF SysFails, InCall
<1>11. ASSUME NEW l \in Caller, CallerDies(l) PROVE LonelyInv'
  <2>1. /\ todo[l] # "idle" /\ todo' = [todo EXCEPT ![l] = "idle"]
        /\ own' = [own EXCEPT ![l] = 0] /\ node' = SocketClosed(l)
        /\ UNCHANGED <<path, returned, rival>>
    BY <1>11 DEF CallerDies
  <2>2. todo'[l] = "idle" /\ \A k \in Caller : k # l => todo'[k] = todo[k] /\ own'[k] = own[k]
    BY <1>0, <2>1
  <2>3. \A k \in Caller : Alone(k)' => Alone(k) /\ k # l
    BY <2>1, <2>2 DEF Alone, InCall
  \* What still listens is another caller's.
  <2>4. \A n \in Listening' : \E k \in Caller : todo'[k] = "serving" /\ own'[k] = n
    <3> SUFFICES ASSUME NEW n \in Listening'
                 PROVE  \E k \in Caller : todo'[k] = "serving" /\ own'[k] = n
      OBVIOUS
    <3>1. n \in Listening /\ n # own[l]
      BY <2>1, ClosedListening
    <3>2. PICK k \in Caller : todo[k] = "serving" /\ own[k] = n
      BY <3>1 DEF LonelyInv, NobodyElse, PathIsMine, ListenersServe, NotTold
    <3> QED
      BY <2>2, <3>1, <3>2
  <2>5. \A k \in Caller : Alone(k)' => \A m \in Caller \ {k} : todo'[m] = "idle"
    BY <2>2, <2>3 DEF LonelyInv, NobodyElse, PathIsMine, ListenersServe, NotTold
  <2>6. \A k \in Caller : Alone(k)' => /\ todo'[k] \in {"probe", "chmod"} => path' # 0
                                       /\ todo'[k] = "rebind" => path' = 0
    BY <2>1, <2>2, <2>3 DEF LonelyInv, NobodyElse, PathIsMine, ListenersServe, NotTold
  <2>7. \A k \in Caller : returned'[k] \in {"AddrInUse", "NotFound"} => rival'[k]
    BY <1>00, <2>1
  <2>8. NobodyElse'
    BY <2>5 DEF NobodyElse
  <2>9. PathIsMine'
    BY <2>6 DEF PathIsMine
  <2>10. ListenersServe' /\ NotTold'
    BY <2>4, <2>7 DEF ListenersServe, NotTold
  <2> QED
    BY <2>8, <2>9, <2>10 DEF LonelyInv
<1> QED
  BY <1>1, <1>2, <1>3, <1>4, <1>5, <1>6, <1>7, <1>8, <1>9, <1>10, <1>11 DEF ListenNext, Proceed

\* A path left behind by a dead listener heals itself on Linux and BSD, where
\* unlinks are not refused: who was alone with it for the whole call is never
\* told that it is taken or gone.  (The Windows backend returns the error of
\* the bind when the probe fails for a reason of its own.)
THEOREM LonelyCallersSucceed ==
    ASSUME Posix
    PROVE  ListenSpec => []LonelyCallSucceeds
<1>1. CASE ~UnlinkWorks
  <2>1. LonelyCallSucceeds
    BY <1>1 DEF LonelyCallSucceeds
  <2> QED
    BY <2>1, PTL
<1>2. CASE UnlinkWorks
  <2>1. ListenInit => LonelyInv
    <3> SUFFICES ASSUME ListenInit PROVE LonelyInv
      OBVIOUS
    <3>1. \A l \in Caller : todo[l] = "idle" /\ returned[l] = "none"
      BY DEF ListenInit
    <3>2. Listening = {}
      BY KindAssumption DEF ListenInit, Listening, NoNode
    <3> QED
      BY <3>1, <3>2 DEF LonelyInv, NobodyElse, PathIsMine, ListenersServe, NotTold, Alone, InCall
  <2>2. ListenTypeOK /\ LonelyInv /\ [ListenNext]_lvars => LonelyInv'
    BY <1>2, LonelyNext
  <2>3. LonelyInv => LonelyCallSucceeds
    BY DEF LonelyInv, NobodyElse, PathIsMine, ListenersServe, NotTold, LonelyCallSucceeds
  <2> QED
    BY <2>1, <2>2, <2>3, TypeCorrect, PTL DEF ListenSpec
<1> QED
  BY <1>1, <1>2
=============================================================================
