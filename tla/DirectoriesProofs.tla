------------------------- MODULE DirectoriesProofs -------------------------
(***************************************************************************)
(* Theorems about Directories, for any number of threads, names, objects   *)
(* and calls, on every backend.                                            *)
(***************************************************************************)
EXTENDS Directories, SequenceTheorems, WellFoundedInduction, TLAPS

Object == 1..MaxNodes
Types == {"none", "File", "Dir", "Symlink"}

\* The targets links are given, and what of them is stored for the system.
Given == {<<>>} \cup Targets
         \cup UNION {{tree.objects[i].target : i \in DOMAIN tree.objects} : tree \in Trees}
Words == Given \cup {nt_substitute_name(to_wide_nt_component(s)) : s \in Given}

NodeRecord ==
    [type : Types, entries : [Names -> 0..MaxNodes], target : Given, wire : Words,
     dirlink : BOOLEAN, writable : BOOLEAN, pending : BOOLEAN, gone : BOOLEAN]

CallRecord ==
    [op : {"none", "open", "create_dir", "remove", "rename", "symlink", "read_link", "read_dir"},
     stage : {"", "create", "reparse"}, d : 0..MaxNodes, h : 0..MaxNodes,
     a : Names \cup {""}, b : Names \cup {""}, flag : BOOLEAN, target : Given, size : Nat,
     start : SUBSET Names, got : SUBSET Names]

DirType ==
    /\ backend \in {"linux", "trackp", "windows", "mock"} /\ openat2 \in BOOLEAN
    /\ backend \in {"windows", "mock"} => openat2
    /\ cap \in [Worker -> Object]
    /\ held \in [Worker -> 0..MaxNodes]
    /\ call \in [Worker -> CallRecord]

\* The tree: no name leads outside or to what does not exist yet, and that has
\* no entries.
NodesOK(ns) ==
    /\ ns \in [Object -> NodeRecord]
    /\ ns[Outside].type = "Dir"
    /\ \A d \in Object, n \in Names : ns[d].entries[n] # Outside
    /\ \A d \in Object, n \in Names, i \in Object :
           ns[d].entries[n] = i => ns[i].type # "none"
    /\ \A d \in Object : ns[d].type = "none" => \A n \in Names : ns[d].entries[n] = 0

\* Nothing was made outside.
Vacant(ns) == \A n \in Names : ns[Outside].entries[n] = 0

\* What exists and was not removed has a name.
Kept(ns) ==
    \A i \in 3..MaxNodes :
        ns[i].type = "none" \/ ns[i].gone \/ \E d \in Object, n \in Names : ns[d].entries[n] = i

Rooted == NodesOK(node) /\ (openat2 => Vacant(node)) /\ (backend # "mock" => Kept(node))

Real(i) == i \in Object /\ node[i].type # "none"

\* A directory to work in: it exists, and is not the outside.
Working(i) == i \in Object /\ node[i].type # "none" /\ (openat2 => i # Outside)

\* The root is one, and so is every capability.
Inside == Working(Root) /\ \A t \in Worker : Working(cap[t])

\* What a call that has begun has in its hands, and on which backend it is.
CallMeans(c) ==
    /\ c.op \in {"none", "read_link", "read_dir"} => c.h = 0
    /\ c.op = "read_link" => c.d \in Object /\ c.a \in Names
    /\ c.op = "create_dir" => Linux /\ Working(c.h) /\ c.a \in Names
    /\ c.op = "open" => backend = "mock" /\ Working(c.h) /\ c.a \in Names
    /\ c.op = "remove" => backend = "windows" /\ Real(c.h)
    /\ c.op = "rename" =>
          backend = "windows" /\ Real(c.h) /\ Working(c.d) /\ c.a \in Names /\ c.b \in Names
    /\ c.op = "symlink" =>
          /\ backend = "windows" /\ Working(c.d) /\ c.a \in Names
          /\ c.stage = "create" => c.h = 0
          /\ c.stage # "create" => Working(c.h) /\ c.h # Outside /\ ~node[c.h].gone

CallsMean == \A t \in Worker : CallMeans(call[t])

\* Only Windows marks for deletion.
MarksAreNts == \A i \in Object : node[i].pending => backend = "windows"

DirInv == DirType /\ Rooted /\ Inside /\ CallsMean /\ MarksAreNts /\ DeletesComplete

-----------------------------------------------------------------------------
(* What the changes of the tree preserve                                   *)

\* An object as it is made: it has no entries, is not removed and not marked.
Fresh(o) ==
    /\ o \in NodeRecord /\ o.type # "none" /\ ~o.pending /\ ~o.gone
    /\ \A n \in Names : o.entries[n] = 0

Placed(ns, k, o, d, n) == [ns EXCEPT ![k] = o, ![d].entries[n] = k]

LEMMA NewObjects ==
    ASSUME Parameters
    PROVE  /\ Nothing \in NodeRecord /\ Nothing.type = "none"
           /\ ~Nothing.pending /\ ~Nothing.gone /\ \A n \in Names : Nothing.entries[n] = 0
           /\ \A type \in Types \ {"none"} : Fresh(Obj(type)) /\ Obj(type).type = type
           /\ \A target \in Given, wire \in Words, flag \in BOOLEAN :
                  Fresh(LinkObj(target, wire, flag)) /\ LinkObj(target, wire, flag).type = "Symlink"
<1>1. <<>> \in Given /\ <<>> \in Words
  BY DEF Given, Words
<1>2. /\ Nothing \in NodeRecord /\ Nothing.type = "none"
      /\ ~Nothing.pending /\ ~Nothing.gone /\ \A n \in Names : Nothing.entries[n] = 0
  BY <1>1 DEF Nothing, NodeRecord, Types, Parameters
<1>3. \A type \in Types \ {"none"} : Fresh(Obj(type)) /\ Obj(type).type = type
  BY <1>2 DEF Obj, Fresh, NodeRecord, Types
<1>4. \A target \in Given, wire \in Words, flag \in BOOLEAN :
          Fresh(LinkObj(target, wire, flag)) /\ LinkObj(target, wire, flag).type = "Symlink"
  <2> SUFFICES ASSUME NEW target \in Given, NEW wire \in Words, NEW flag \in BOOLEAN
              PROVE  /\ Fresh(LinkObj(target, wire, flag))
                     /\ LinkObj(target, wire, flag).type = "Symlink"
    OBVIOUS
  <2> DEFINE o == Obj("Symlink")
  <2>1. Fresh(o) /\ o.type = "Symlink"
    BY <1>3 DEF Types
  <2>2. LinkObj(target, wire, flag) = [o EXCEPT !.target = target, !.wire = wire, !.dirlink = flag]
    BY DEF LinkObj
  <2> HIDE DEF o
  <2> QED
    BY <2>1, <2>2 DEF Fresh, NodeRecord, Types
<1> QED
  BY <1>2, <1>3, <1>4

LEMMA PlacedIs ==
    ASSUME Parameters, NEW ns, NodesOK(ns), NEW k \in Object, NEW d \in Object, NEW n \in Names,
           NEW o, Fresh(o), ns[k].type = "none"
    PROVE  LET ms == Placed(ns, k, o, d, n) IN
           /\ ms \in [Object -> NodeRecord]
           /\ \A j \in Object, m \in Names :
                  ms[j].entries[m] = IF j = d /\ m = n THEN k ELSE ns[j].entries[m]
           /\ \A j \in Object : ms[j].type = (IF j = k THEN o ELSE ns[j]).type
           /\ \A j \in Object : ms[j].gone = (IF j = k THEN o ELSE ns[j]).gone
           /\ \A j \in Object : ms[j].pending = (IF j = k THEN o ELSE ns[j]).pending
<1> DEFINE mid == [ns EXCEPT ![k] = o]
           ms == Placed(ns, k, o, d, n)
<1>1. mid \in [Object -> NodeRecord] /\ \A j \in Object : mid[j] = IF j = k THEN o ELSE ns[j]
  BY DEF NodesOK, Fresh
<1>2. ms = [mid EXCEPT ![d] = [mid[d] EXCEPT !.entries = [mid[d].entries EXCEPT ![n] = k]]]
  BY <1>1 DEF Placed
<1> HIDE DEF mid
<1>3. k \in 0..MaxNodes
  BY DEF Object, Parameters
<1>4. mid[d] \in NodeRecord
  BY <1>1
<1>5. [mid[d] EXCEPT !.entries = [mid[d].entries EXCEPT ![n] = k]] \in NodeRecord
  BY <1>3, <1>4 DEF NodeRecord
<1>6. ms \in [Object -> NodeRecord]
  BY <1>1, <1>2, <1>5
<1>7. \A j \in Object : ms[j].type = mid[j].type /\ ms[j].gone = mid[j].gone
                        /\ ms[j].pending = mid[j].pending
  BY <1>1, <1>2, <1>4 DEF NodeRecord
<1>8. \A j \in Object, m \in Names :
          ms[j].entries[m] = IF j = d /\ m = n THEN k ELSE mid[j].entries[m]
  BY <1>1, <1>2, <1>4 DEF NodeRecord
<1>9. \A m \in Names : mid[k].entries[m] = ns[k].entries[m]
  BY <1>1 DEF NodesOK, Fresh
<1> HIDE DEF ms
<1>10. \A j \in Object, m \in Names :
          ms[j].entries[m] = IF j = d /\ m = n THEN k ELSE ns[j].entries[m]
  BY <1>1, <1>8, <1>9
<1> QED
  BY <1>1, <1>6, <1>7, <1>10 DEF ms

LEMMA UnlinkedIs ==
    ASSUME Parameters, NEW ns \in [Object -> NodeRecord], NEW i \in Object
    PROVE  LET ms == Unlinked(ns, i) IN
           /\ ms \in [Object -> NodeRecord]
           /\ \A j \in Object, m \in Names :
                  ms[j].entries[m] = IF ns[j].entries[m] = i THEN 0 ELSE ns[j].entries[m]
           /\ \A j \in Object : ms[j].type = ns[j].type
           /\ \A j \in Object : ms[j].gone = (ns[j].gone \/ j = i)
           /\ \A j \in Object : ms[j].pending = (ns[j].pending /\ j # i)
<1> DEFINE cut(j) == [n \in Names |-> IF ns[j].entries[n] = i THEN 0 ELSE ns[j].entries[n]]
           ms == Unlinked(ns, i)
<1>1. \A j \in Object : cut(j) \in [Names -> 0..MaxNodes]
  BY DEF NodeRecord, Object, Parameters
<1>2. ms = [j \in Object |-> [ns[j] EXCEPT !.entries = cut(j), !.gone = ns[j].gone \/ j = i,
                                           !.pending = ns[j].pending /\ j # i]]
  BY DEF Unlinked, NodeRecord
<1>3. \A j \in Object, m \in Names :
          cut(j)[m] = IF ns[j].entries[m] = i THEN 0 ELSE ns[j].entries[m]
  OBVIOUS
<1> HIDE DEF cut, ms
<1>4. ASSUME NEW j \in Object
      PROVE  /\ ms[j] \in NodeRecord /\ ms[j].entries = cut(j) /\ ms[j].type = ns[j].type
             /\ ms[j].gone = (ns[j].gone \/ j = i) /\ ms[j].pending = (ns[j].pending /\ j # i)
  BY <1>1, <1>2 DEF NodeRecord
<1>5. ms \in [Object -> NodeRecord]
  BY <1>2, <1>4
<1> QED
  BY <1>3, <1>4, <1>5 DEF ms

LEMMA MovedIs ==
    ASSUME Parameters, NodesOK(node), NEW i \in Object, NEW d \in Object, NEW to \in Names,
           NEW asked \in BOOLEAN
    PROVE  LET ms == Moved(i, d, to, asked)
               r == node[d].entries[to] IN
           /\ ms \in [Object -> NodeRecord]
           /\ \A j \in Object, m \in Names :
                  ms[j].entries[m] = IF j = d /\ m = to THEN i
                                     ELSE IF node[j].entries[m] = i THEN 0 ELSE node[j].entries[m]
           /\ \A j \in Object : ms[j].type = node[j].type
           /\ \A j \in Object : ms[j].pending = node[j].pending
           /\ \A j \in Object : ms[j].gone => node[j].gone \/ (j = r /\ r \notin {0, i} /\ asked)
           /\ asked /\ r \notin {0, i} => ms[r].gone
           /\ \A j \in Object : j \notin {i, r} => ms[j].gone = node[j].gone
<1> DEFINE names(j) == [n \in Names |-> IF node[j].entries[n] = i THEN 0 ELSE node[j].entries[n]]
           cut == [k \in DOMAIN node |-> [node[k] EXCEPT !.entries = names(k)]]
           r == node[d].entries[to]
           at == IF r = 0 THEN i ELSE r
           mid == [cut EXCEPT ![d] = [cut[d] EXCEPT !.entries = [cut[d].entries EXCEPT ![to] = i]]]
           ms == Moved(i, d, to, asked)
<1>1. node \in [Object -> NodeRecord] /\ r \in 0..MaxNodes /\ at \in Object /\ i \in 0..MaxNodes
  BY DEF NodesOK, NodeRecord, Object, Parameters
<1>2. \A j \in Object : names(j) \in [Names -> 0..MaxNodes]
  BY <1>1 DEF NodeRecord, Object, Parameters
<1>3. /\ cut \in [Object -> NodeRecord]
      /\ \A j \in Object : /\ cut[j].entries = names(j) /\ cut[j].type = node[j].type
                           /\ cut[j].gone = node[j].gone /\ cut[j].pending = node[j].pending
  BY <1>1, <1>2 DEF NodeRecord
<1>4. ms = [mid EXCEPT ![at] = [mid[at] EXCEPT !.gone = r \notin {0, i} /\ asked]]
  BY <1>1, <1>3 DEF Moved
<1>5. \A j \in Object, m \in Names :
          names(j)[m] = IF node[j].entries[m] = i THEN 0 ELSE node[j].entries[m]
  OBVIOUS
<1> HIDE DEF names, cut, at
<1>6. /\ mid \in [Object -> NodeRecord]
      /\ \A j \in Object : /\ mid[j].type = node[j].type
                           /\ mid[j].gone = node[j].gone /\ mid[j].pending = node[j].pending
      /\ \A j \in Object, m \in Names :
             mid[j].entries[m] = IF j = d /\ m = to THEN i ELSE names(j)[m]
  <2> DEFINE e == [cut[d].entries EXCEPT ![to] = i]
             nd == [cut[d] EXCEPT !.entries = e]
  <2>1. cut[d] \in NodeRecord /\ cut[d].entries \in [Names -> 0..MaxNodes]
    BY <1>3 DEF NodeRecord
  <2>2. /\ e \in [Names -> 0..MaxNodes]
        /\ \A m \in Names : e[m] = IF m = to THEN i ELSE cut[d].entries[m]
    BY <1>1, <2>1
  <2> HIDE DEF e
  <2>3. /\ nd \in NodeRecord /\ nd.entries = e /\ nd.type = cut[d].type
        /\ nd.gone = cut[d].gone /\ nd.pending = cut[d].pending
    BY <2>1, <2>2 DEF NodeRecord
  <2>4. mid = [cut EXCEPT ![d] = nd]
    BY DEF e
  <2> HIDE DEF nd, mid
  <2>5. mid \in [Object -> NodeRecord] /\ \A j \in Object : mid[j] = IF j = d THEN nd ELSE cut[j]
    BY <1>3, <2>3, <2>4
  <2> QED
    BY <1>3, <2>2, <2>3, <2>5
<1> HIDE DEF mid, ms, r
<1>7. /\ ms \in [Object -> NodeRecord]
      /\ \A j \in Object : /\ ms[j].type = mid[j].type /\ ms[j].entries = mid[j].entries
                           /\ ms[j].pending = mid[j].pending
                           /\ ms[j].gone = IF j = at THEN r \notin {0, i} /\ asked ELSE mid[j].gone
  <2> DEFINE g == r \notin {0, i} /\ asked
             nd == [mid[at] EXCEPT !.gone = g]
  <2>1. g \in BOOLEAN /\ mid[at] \in NodeRecord
    BY <1>1, <1>6
  <2>2. ms = [mid EXCEPT ![at] = nd]
    BY <1>4
  <2> HIDE DEF g
  <2>3. /\ nd \in NodeRecord /\ nd.entries = mid[at].entries /\ nd.type = mid[at].type
        /\ nd.gone = g /\ nd.pending = mid[at].pending
    BY <2>1 DEF NodeRecord
  <2> HIDE DEF nd
  <2>4. ms \in [Object -> NodeRecord] /\ \A j \in Object : ms[j] = IF j = at THEN nd ELSE mid[j]
    BY <1>6, <2>2, <2>3
  <2>5. g = (r \notin {0, i} /\ asked)
    BY DEF g
  <2> QED
    BY <2>3, <2>4, <2>5
<1>8. at = IF r = 0 THEN i ELSE r
  BY DEF at
<1>9. \A j \in Object, m \in Names :
          ms[j].entries[m] = IF j = d /\ m = to THEN i
                             ELSE IF node[j].entries[m] = i THEN 0 ELSE node[j].entries[m]
  BY <1>5, <1>6, <1>7
<1>10. /\ \A j \in Object : ms[j].gone => node[j].gone \/ (j = r /\ r \notin {0, i} /\ asked)
       /\ \A j \in Object : j \notin {i, r} => ms[j].gone = node[j].gone
  BY <1>6, <1>7, <1>8
<1>11. asked /\ r \notin {0, i} => ms[r].gone
  BY <1>1, <1>7, <1>8
<1> QED
  BY <1>6, <1>7, <1>9, <1>10, <1>11 DEF ms, r

LEMMA PlacedKeeps ==
    ASSUME Parameters, NEW ns, NodesOK(ns), NEW k \in Object, NEW d \in Object, NEW n \in Names,
           NEW o, Fresh(o), ns[k].type = "none", ns[d].type # "none"
    PROVE  LET ms == Placed(ns, k, o, d, n) IN
           /\ NodesOK(ms)
           /\ Vacant(ns) /\ d # Outside => Vacant(ms)
           /\ Kept(ns) /\ ns[d].entries[n] = 0 => Kept(ms)
           /\ \A j \in Object : ns[j].type # "none" => ms[j].type # "none"
           /\ \A j \in Object : ms[j].gone => ns[j].gone
           /\ \A j \in Object : ms[j].pending => ns[j].pending
           /\ ms[k].type # "none" /\ ~ms[k].gone /\ k # Outside
<1> DEFINE ms == Placed(ns, k, o, d, n)
<1>1. /\ ms \in [Object -> NodeRecord]
      /\ \A j \in Object, m \in Names :
             ms[j].entries[m] = IF j = d /\ m = n THEN k ELSE ns[j].entries[m]
      /\ \A j \in Object : ms[j].type = (IF j = k THEN o ELSE ns[j]).type
      /\ \A j \in Object : ms[j].gone = (IF j = k THEN o ELSE ns[j]).gone
      /\ \A j \in Object : ms[j].pending = (IF j = k THEN o ELSE ns[j]).pending
  BY PlacedIs
<1> HIDE DEF ms
<1>2. Outside \in Object /\ k # Outside /\ 3..MaxNodes \subseteq Object
  BY DEF NodesOK, Outside, Object, Parameters
<1>3. o.type # "none" /\ ~o.gone /\ ~o.pending
  BY DEF Fresh
<1>4. NodesOK(ms)
  <2>1. ms[Outside].type = "Dir"
    BY <1>1, <1>2 DEF NodesOK
  <2>2. \A j \in Object, m \in Names : ms[j].entries[m] # Outside
    BY <1>1, <1>2 DEF NodesOK
  <2>3. \A j \in Object : ms[j].type = "none" => \A m \in Names : ms[j].entries[m] = 0
    BY <1>1, <1>3 DEF NodesOK
  <2>4. ASSUME NEW j \in Object, NEW m \in Names, NEW i \in Object, ms[j].entries[m] = i
        PROVE  ms[i].type # "none"
    BY <1>1, <1>3, <2>4 DEF NodesOK
  <2> QED
    BY <1>1, <2>1, <2>2, <2>3, <2>4 DEF NodesOK
<1>5. Vacant(ns) /\ d # Outside => Vacant(ms)
  BY <1>1, <1>2 DEF Vacant
<1>6. ASSUME Kept(ns), ns[d].entries[n] = 0, NEW i \in 3..MaxNodes
      PROVE  ms[i].type = "none" \/ ms[i].gone
             \/ \E e \in Object, m \in Names : ms[e].entries[m] = i
  <2>1. CASE i = k
    BY <1>1, <2>1
  <2>2. CASE i # k
    <3>1. CASE ns[i].type = "none" \/ ns[i].gone
      BY <1>1, <1>2, <2>2, <3>1
    <3>2. CASE \E e \in Object, m \in Names : ns[e].entries[m] = i
      <4>1. PICK e \in Object, m \in Names : ns[e].entries[m] = i
        BY <3>2
      <4>2. ms[e].entries[m] = i
        BY <1>1, <1>6, <4>1
      <4> QED
        BY <4>2
    <3> QED
      BY <1>6, <3>1, <3>2 DEF Kept
  <2> QED
    BY <2>1, <2>2
<1> QED
  BY <1>1, <1>2, <1>3, <1>4, <1>5, <1>6 DEF ms, Kept

LEMMA UnlinkedKeeps ==
    ASSUME Parameters, NEW ns, NodesOK(ns), NEW i \in Object
    PROVE  LET ms == Unlinked(ns, i) IN
           /\ NodesOK(ms) /\ (Vacant(ns) => Vacant(ms)) /\ (Kept(ns) => Kept(ms))
           /\ \A j \in Object : ms[j].type = ns[j].type
           /\ \A j \in Object : ms[j].gone => ns[j].gone \/ j = i
           /\ \A j \in Object : ms[j].pending => ns[j].pending /\ j # i
<1> DEFINE ms == Unlinked(ns, i)
<1>1. /\ ms \in [Object -> NodeRecord]
      /\ \A j \in Object, m \in Names :
             ms[j].entries[m] = IF ns[j].entries[m] = i THEN 0 ELSE ns[j].entries[m]
      /\ \A j \in Object : ms[j].type = ns[j].type
      /\ \A j \in Object : ms[j].gone = (ns[j].gone \/ j = i)
      /\ \A j \in Object : ms[j].pending = (ns[j].pending /\ j # i)
  BY UnlinkedIs DEF NodesOK
<1> HIDE DEF ms
<1>2. Outside \in Object /\ Outside # 0 /\ 3..MaxNodes \subseteq Object
  BY DEF Outside, Object, Parameters
<1>3. NodesOK(ms) /\ (Vacant(ns) => Vacant(ms))
  <2>1. ASSUME NEW j \in Object, NEW m \in Names, NEW k \in Object, ms[j].entries[m] = k
        PROVE  ms[k].type # "none"
    <3>1. ns[j].entries[m] = k
      BY <1>1, <2>1 DEF Object
    <3> QED
      BY <1>1, <3>1 DEF NodesOK
  <2> QED
    BY <1>1, <1>2, <2>1 DEF NodesOK, Vacant
<1>4. ASSUME Kept(ns), NEW k \in 3..MaxNodes
      PROVE  ms[k].type = "none" \/ ms[k].gone
             \/ \E e \in Object, m \in Names : ms[e].entries[m] = k
  <2>1. CASE k = i \/ ns[k].type = "none" \/ ns[k].gone
    BY <1>1, <1>2, <2>1
  <2>2. CASE k # i /\ \E e \in Object, m \in Names : ns[e].entries[m] = k
    <3>1. PICK e \in Object, m \in Names : ns[e].entries[m] = k
      BY <2>2
    <3>2. ms[e].entries[m] = k
      BY <1>1, <2>2, <3>1
    <3> QED
      BY <3>2
  <2> QED
    BY <1>4, <2>1, <2>2 DEF Kept
<1> QED
  BY <1>1, <1>3, <1>4 DEF ms, Kept

LEMMA MovedKeeps ==
    ASSUME Parameters, NodesOK(node), NEW i, Real(i), i # Outside, NEW d, Real(d),
           NEW to \in Names, NEW asked \in BOOLEAN
    PROVE  LET ms == Moved(i, d, to, asked)
               r == node[d].entries[to] IN
           /\ NodesOK(ms)
           /\ Vacant(node) /\ d # Outside => Vacant(ms)
           /\ Kept(node) /\ (r \notin {0, i} => asked) => Kept(ms)
           /\ \A j \in Object : ms[j].type = node[j].type
           /\ \A j \in Object : ms[j].gone => node[j].gone \/ (j = r /\ r \notin {0, i})
           /\ \A j \in Object : ms[j].pending = node[j].pending
<1> DEFINE ms == Moved(i, d, to, asked)
           r == node[d].entries[to]
<1>1. /\ ms \in [Object -> NodeRecord]
      /\ \A j \in Object, m \in Names :
             ms[j].entries[m] = IF j = d /\ m = to THEN i
                                ELSE IF node[j].entries[m] = i THEN 0 ELSE node[j].entries[m]
      /\ \A j \in Object : ms[j].type = node[j].type
      /\ \A j \in Object : ms[j].pending = node[j].pending
      /\ \A j \in Object : ms[j].gone => node[j].gone \/ (j = r /\ r \notin {0, i} /\ asked)
      /\ asked /\ r \notin {0, i} => ms[r].gone
      /\ \A j \in Object : j \notin {i, r} => ms[j].gone = node[j].gone
  BY MovedIs DEF Real
<1> i \in Object /\ d \in Object /\ node[i].type # "none" /\ node[d].type # "none"
  BY DEF Real
<1> HIDE DEF ms
<1>2. Outside \in Object /\ Outside # 0 /\ 3..MaxNodes \subseteq Object /\ 0 \notin Object
  BY DEF Outside, Object, Parameters
<1>3. NodesOK(ms)
  <2>1. \A j \in Object, m \in Names : ms[j].entries[m] # Outside
    BY <1>1, <1>2 DEF NodesOK
  <2>2. \A j \in Object : ms[j].type = "none" => \A m \in Names : ms[j].entries[m] = 0
    BY <1>1 DEF NodesOK
  <2>3. ASSUME NEW j \in Object, NEW m \in Names, NEW k \in Object, ms[j].entries[m] = k
        PROVE  ms[k].type # "none"
    <3>1. k = i \/ node[j].entries[m] = k
      BY <1>1, <1>2, <2>3
    <3> QED
      BY <1>1, <3>1 DEF NodesOK
  <2> QED
    BY <1>1, <1>2, <2>1, <2>2, <2>3 DEF NodesOK
<1>4. Vacant(node) /\ d # Outside => Vacant(ms)
  BY <1>1, <1>2 DEF Vacant
<1>5. ASSUME Kept(node), r \notin {0, i} => asked, NEW k \in 3..MaxNodes
      PROVE  ms[k].type = "none" \/ ms[k].gone
             \/ \E e \in Object, m \in Names : ms[e].entries[m] = k
  <2>1. CASE k = i
    BY <1>1, <2>1
  <2>2. CASE k # i /\ k = r
    BY <1>1, <1>2, <1>5, <2>2
  <2>3. CASE k # i /\ k # r
    <3>1. CASE node[k].type = "none" \/ node[k].gone
      BY <1>1, <1>2, <2>3, <3>1
    <3>2. CASE \E e \in Object, m \in Names : node[e].entries[m] = k
      <4>1. PICK e \in Object, m \in Names : node[e].entries[m] = k
        BY <3>2
      <4>2. ms[e].entries[m] = k
        BY <1>1, <2>3, <4>1
      <4> QED
        BY <4>2
    <3> QED
      BY <1>5, <3>1, <3>2 DEF Kept
  <2> QED
    BY <2>1, <2>2, <2>3
<1> QED
  BY <1>1, <1>3, <1>4, <1>5 DEF ms, Kept

\* A handle is closed: the mark takes effect with the last one.
LEMMA ClosedKeeps ==
    ASSUME Parameters, NEW ns, NodesOK(ns), NEW i \in 0..MaxNodes, NEW t \in Worker
    PROVE  LET ms == Closed(ns, i, t) IN
           /\ NodesOK(ms) /\ (Vacant(ns) => Vacant(ms)) /\ (Kept(ns) => Kept(ms))
           /\ \A j \in Object : ms[j].type = ns[j].type
           /\ \A j \in Object : ms[j].gone => ns[j].gone \/ Holders(j) \subseteq {t}
           /\ \A j \in Object : ms[j].pending =>
                  ns[j].pending /\ (j = i => \E u \in Holders(j) : u # t)
<1>1. CASE i # 0 /\ ns[i].pending /\ Holders(i) \subseteq {t}
  <2>1. Closed(ns, i, t) = Unlinked(ns, i) /\ i \in Object
    BY <1>1 DEF Closed, Object, Parameters
  <2> QED
    BY <1>1, <2>1, UnlinkedKeeps
<1>2. CASE ~(i # 0 /\ ns[i].pending /\ Holders(i) \subseteq {t})
  <2>1. Closed(ns, i, t) = ns
    BY <1>2 DEF Closed
  <2>2. 0 \notin Object
    BY DEF Object
  <2> QED
    BY <1>2, <2>1, <2>2
<1> QED
  BY <1>1, <1>2

-----------------------------------------------------------------------------
(* What a step of one thread has to show                                   *)

\* The tree stays a tree, types stay, nothing that another thread holds is
\* removed under it on Windows, and what is marked is held: by another thread,
\* or by this one as before.
TreeStep(t) ==
    /\ NodesOK(node') /\ (openat2 => Vacant(node')) /\ (backend # "mock" => Kept(node'))
    /\ \A j \in Object : node[j].type # "none" => node'[j].type # "none"
    /\ \A j \in Object :
           node'[j].gone => node[j].gone \/ backend # "windows" \/ Holders(j) \subseteq {t}
    /\ \A j \in Object : node'[j].pending =>
           /\ backend = "windows"
           /\ \/ \E u \in Holders(j) : u # t
              \/ /\ node[j].pending
                 /\ held[t] = j => held'[t] = j
                 /\ cap[t] = j => cap'[t] = j
                 /\ call[t].h = j => call'[t].h = j

\* The thread has a capability, a file and a call as it may have them.
HandsStep(t) ==
    /\ UNCHANGED <<backend, openat2>>
    /\ \E c : cap' = [cap EXCEPT ![t] = c] /\ Working(c)'
    /\ \E f \in 0..MaxNodes : held' = [held EXCEPT ![t] = f]
    /\ \E x \in CallRecord : call' = [call EXCEPT ![t] = x] /\ CallMeans(x)'

LEMMA ThreadStep ==
    ASSUME Parameters, DirInv, NEW t \in Worker, TreeStep(t), HandsStep(t)
    PROVE  DirInv'
<1>1. PICK c : cap' = [cap EXCEPT ![t] = c] /\ Working(c)'
  BY DEF HandsStep
<1>2. PICK f \in 0..MaxNodes : held' = [held EXCEPT ![t] = f]
  BY DEF HandsStep
<1>3. PICK x \in CallRecord : call' = [call EXCEPT ![t] = x] /\ CallMeans(x)'
  BY DEF HandsStep
<1>4. UNCHANGED <<backend, openat2>>
  BY DEF HandsStep
<1>5. /\ cap \in [Worker -> Object] /\ held \in [Worker -> 0..MaxNodes]
      /\ call \in [Worker -> CallRecord]
  BY DEF DirInv, DirType
<1>6. DirType'
  BY <1>1, <1>2, <1>3, <1>4, <1>5 DEF DirInv, DirType, Working
<1>7. Rooted'
  BY <1>4 DEF TreeStep, Rooted
<1>8. \A i : (Working(i) => Working(i)') /\ (Real(i) => Real(i)')
  BY <1>4 DEF Working, Real, TreeStep
<1>9. Inside'
  BY <1>1, <1>5, <1>8 DEF DirInv, Inside
<1>10. CallsMean'
  <2> SUFFICES ASSUME NEW u \in Worker PROVE CallMeans(call[u])'
    BY DEF CallsMean
  <2>1. CASE u = t
    BY <1>3, <1>5, <2>1
  <2>2. CASE u # t
    <3>1. call'[u] = call[u] /\ CallMeans(call[u])
      BY <1>3, <1>5, <2>2 DEF DirInv, CallsMean
    <3>2. call[u].op = "symlink" /\ call[u].stage # "create" => ~node'[call[u].h].gone
      <4> SUFFICES ASSUME call[u].op = "symlink", call[u].stage # "create"
                  PROVE  ~node'[call[u].h].gone
        OBVIOUS
      <4>1. backend = "windows" /\ call[u].h \in Object /\ ~node[call[u].h].gone
        BY <3>1 DEF CallMeans, Working
      <4>2. u \in Holders(call[u].h)
        BY DEF Holders
      <4> QED
        BY <2>2, <4>1, <4>2 DEF TreeStep
    <3>3. CallMeans(call[u])'
      BY <1>4, <1>8, <3>1, <3>2 DEF CallMeans, Linux
    <3> QED
      BY <3>3
  <2> QED
    BY <2>1, <2>2
<1>11. MarksAreNts'
  BY <1>4 DEF MarksAreNts, TreeStep
<1>12. DeletesComplete'
  <2> SUFFICES ASSUME NEW j \in Object, node'[j].pending
              PROVE  \E u \in Worker : held'[u] = j \/ cap'[u] = j \/ call'[u].h = j
    BY DEF DeletesComplete, Holders, Object
  <2>1. CASE \E u \in Holders(j) : u # t
    <3>1. PICK u \in Worker : u # t /\ (held[u] = j \/ cap[u] = j \/ call[u].h = j)
      BY <2>1 DEF Holders
    <3> QED
      BY <1>1, <1>2, <1>3, <1>5, <3>1
  <2>2. CASE ~\E u \in Holders(j) : u # t
    <3>1. node[j].pending /\ (held[t] = j => held'[t] = j) /\ (cap[t] = j => cap'[t] = j)
          /\ (call[t].h = j => call'[t].h = j)
      BY <2>2 DEF TreeStep
    <3>2. Holders(j) # {}
      BY <3>1 DEF DirInv, DeletesComplete, Object
    <3>3. t \in Holders(j)
      BY <2>2, <3>2
    <3> QED
      BY <3>1, <3>3 DEF Holders
  <2> QED
    BY <2>1, <2>2
<1> QED
  BY <1>6, <1>7, <1>9, <1>10, <1>11, <1>12 DEF DirInv

\* A step that leaves the tree alone, and lets go of nothing.
LEMMA TreeStays ==
    ASSUME Parameters, DirInv, NEW t \in Worker, UNCHANGED node,
           held'[t] = held[t], cap'[t] = cap[t], call[t].h # 0 => call'[t].h = call[t].h
    PROVE  TreeStep(t)
<1>1. 0 \notin Object
  BY DEF Object
<1> QED
  BY <1>1 DEF TreeStep, DirInv, Rooted, MarksAreNts

\* On Linux and in the mock nothing is ever marked.
LEMMA TreeUnmarked ==
    ASSUME Parameters, DirInv, NEW t \in Worker, backend # "windows",
           NodesOK(node'), openat2 => Vacant(node'), backend # "mock" => Kept(node'),
           \A j \in Object : node[j].type # "none" => node'[j].type # "none",
           \A j \in Object : node'[j].pending => node[j].pending
    PROVE  TreeStep(t)
BY DEF TreeStep, DirInv, MarksAreNts

-----------------------------------------------------------------------------
(* Names and links                                                         *)

LEMMA EntryIs ==
    ASSUME Parameters, NodesOK(node), NEW d \in Object, NEW n \in Names
    PROVE  /\ Entry(d, n) = node[d].entries[n] /\ Entry(d, n) \in 0..MaxNodes
           /\ Entry(d, n) # Outside /\ (Entry(d, n) # 0 => Entry(d, n) \in Object)
<1>1. d # Top
  BY DEF Object, Top
<1> QED
  BY <1>1 DEF Entry, At, NodesOK, NodeRecord, Object, Parameters

\* A link leads to the top, or to a name in its own directory.
LEMMA HopIs ==
    ASSUME NEW loc
    PROVE  /\ Hop(loc) = loc \/ Hop(loc) = [dir |-> Top, name |-> "o"]
              \/ \E n \in Names : Hop(loc) = [dir |-> loc.dir, name |-> n]
           /\ (loc.dir = Top \/ ~Is(At(loc), "Symlink")) => Hop(loc) = loc
BY DEF Hop

LEMMA FinalIs ==
    ASSUME NEW d, NEW n \in Names
    PROVE  LET loc == [dir |-> d, name |-> n] IN
           /\ Final(loc).dir = Top \/ (Final(loc).dir = d /\ Final(loc).name \in Names)
           /\ d # Top /\ ~Is(Entry(d, n), "Symlink") => Final(loc) = loc
<1> DEFINE loc == [dir |-> d, name |-> n]
           ok(l) == l.dir = Top \/ (l.dir = d /\ l.name \in Names)
<1>1. ok(loc)
  OBVIOUS
<1>2. ASSUME NEW l, ok(l) PROVE ok(Hop(l))
  <2>1. CASE Hop(l) = l
    BY <1>2, <2>1
  <2>2. CASE Hop(l) = [dir |-> Top, name |-> "o"]
    BY <2>2
  <2>3. CASE \E m \in Names : Hop(l) = [dir |-> l.dir, name |-> m]
    BY <1>2, <2>3
  <2> QED
    BY <2>1, <2>2, <2>3, HopIs
<1>3. ok(Final(loc))
  BY <1>1, <1>2 DEF Final
<1>4. d # Top /\ ~Is(Entry(d, n), "Symlink") => Hop(loc) = loc
  BY HopIs DEF Entry
<1> QED
  BY <1>3, <1>4 DEF Final

\* What a lookup finds exists: only a link that is followed leads outside.
LEMMA LookupIs ==
    ASSUME Parameters, NodesOK(node), NEW d, Real(d), NEW n \in Names
    PROVE  /\ Entry(d, n) \in 0..MaxNodes /\ Entry(d, n) # Outside
           /\ Entry(d, n) # 0 => Real(Entry(d, n))
           /\ LET i == At(Final([dir |-> d, name |-> n])) IN i \in 0..MaxNodes /\ (i # 0 => Real(i))
           /\ Followed(d, n) \in 0..MaxNodes
           /\ Followed(d, n) # 0 => Real(Followed(d, n))
           /\ ~Is(Entry(d, n), "Symlink") => Followed(d, n) = Entry(d, n)
<1> DEFINE loc == [dir |-> d, name |-> n]
           i == At(Final(loc))
<1>1. d \in Object /\ d # Top /\ Outside \in Object /\ Outside # 0 /\ 0 \in 0..MaxNodes
      /\ Outside \in 0..MaxNodes
  BY DEF Real, Object, Top, Outside, Parameters
<1>2. \A m \in Names : /\ Entry(d, m) \in 0..MaxNodes /\ Entry(d, m) # Outside
                       /\ Entry(d, m) # 0 => Real(Entry(d, m))
  <2> SUFFICES ASSUME NEW m \in Names
              PROVE  /\ Entry(d, m) \in 0..MaxNodes /\ Entry(d, m) # Outside
                     /\ Entry(d, m) # 0 => Real(Entry(d, m))
    OBVIOUS
  <2>1. /\ Entry(d, m) = node[d].entries[m] /\ Entry(d, m) \in 0..MaxNodes
        /\ Entry(d, m) # Outside /\ (Entry(d, m) # 0 => Entry(d, m) \in Object)
    BY <1>1, EntryIs
  <2> QED
    BY <1>1, <2>1 DEF NodesOK, Real
<1>3. Real(Outside)
  BY <1>1 DEF Real, NodesOK
<1>4. /\ Final(loc).dir = Top \/ (Final(loc).dir = d /\ Final(loc).name \in Names)
      /\ ~Is(Entry(d, n), "Symlink") => Final(loc) = loc
  BY <1>1, FinalIs
<1>5. i = Outside \/ \E m \in Names : i = Entry(d, m)
  BY <1>1, <1>4 DEF At, Entry
<1>6. i \in 0..MaxNodes /\ (i # 0 => Real(i))
  BY <1>1, <1>2, <1>3, <1>5
<1>7. Followed(d, n) = IF Is(i, "Symlink") THEN 0 ELSE i
  BY DEF Followed
<1>8. ~Is(Entry(d, n), "Symlink") => i = Entry(d, n)
  BY <1>4 DEF Entry
<1> HIDE DEF i
<1>9. /\ Followed(d, n) \in 0..MaxNodes
      /\ Followed(d, n) # 0 => Real(Followed(d, n))
      /\ ~Is(Entry(d, n), "Symlink") => Followed(d, n) = Entry(d, n)
  BY <1>1, <1>6, <1>7, <1>8
<1> QED
  BY <1>2, <1>6, <1>9 DEF i

LEMMA NtOpenIs ==
    ASSUME Parameters, NodesOK(node), NEW d, Real(d), NEW n \in Names, NEW options
    PROVE  /\ NtOpen(d, n, options) \in 0..MaxNodes
           /\ NtOpen(d, n, options) # 0 => Real(NtOpen(d, n, options))
           /\ "DONT_REPARSE" \in options \/ "OPEN_REPARSE_POINT" \in options
                  => NtOpen(d, n, options) # Outside
<1>1. 0 \in 0..MaxNodes /\ Outside # 0
  BY DEF Parameters, Outside
<1>2. NtOpen(d, n, options) \in {0, Entry(d, n), Followed(d, n)}
  BY DEF NtOpen
<1>3. "DONT_REPARSE" \in options \/ "OPEN_REPARSE_POINT" \in options
          => NtOpen(d, n, options) \in {0, Entry(d, n)}
  BY LookupIs DEF NtOpen
<1> QED
  BY <1>1, <1>2, <1>3, LookupIs

\* The confined resolutions end in a directory to work in.
LEMMA ComponentIs ==
    ASSUME Parameters, NodesOK(node), NEW d, Real(d), NEW n \in Names, NEW resolve,
           openat2 => "NO_SYMLINKS" \in resolve
    PROVE  LET i == Component(d, n, resolve) IN i # 0 => Working(i)
<1>1. Component(d, n, resolve) # 0 =>
          Component(d, n, resolve) \in {Entry(d, n), Followed(d, n)}
  BY DEF Component
<1>2. "NO_SYMLINKS" \in resolve /\ Component(d, n, resolve) # 0
          => Component(d, n, resolve) = Entry(d, n)
  BY DEF Component
<1>3. /\ Entry(d, n) # Outside /\ (Entry(d, n) # 0 => Real(Entry(d, n)))
      /\ Followed(d, n) # 0 => Real(Followed(d, n))
  BY LookupIs
<1>4. Component(d, n, resolve) # 0 => Real(Component(d, n, resolve))
  BY <1>1, <1>3
<1> QED
  BY <1>2, <1>3, <1>4 DEF Working, Real

LEMMA OpenDirIs ==
    ASSUME Parameters, DirInv, NEW d, Working(d), NEW p, p \in Seq(Names), Len(p) \in {1, 2}
    PROVE  /\ openat_r2(d, p) # 0 => Working(openat_r2(d, p))
           /\ windows_open_dir(d, p) # 0 => Working(windows_open_dir(d, p))
           /\ mock_open_dir(d, p) # 0 => Working(mock_open_dir(d, p))
<1>1. NodesOK(node)
  BY DEF DirInv, Rooted
<1>2. p[1] \in Names /\ Head(p) = p[1] /\ (Len(p) # 1 => p[2] \in Names)
  OBVIOUS
<1>3. \A i : Working(i) => Real(i)
  BY DEF Working, Real
<1>4. ASSUME NEW resolve, openat2 => "NO_SYMLINKS" \in resolve
      PROVE  Walk(d, p, resolve) # 0 => Working(Walk(d, p, resolve))
  <2>1. Component(d, Head(p), resolve) # 0 => Working(Component(d, Head(p), resolve))
    BY <1>1, <1>2, <1>3, <1>4, ComponentIs
  <2> DEFINE i == Component(d, Head(p), resolve)
  <2>2. Len(p) # 1 /\ i # 0 =>
            (Component(i, p[2], resolve) # 0 => Working(Component(i, p[2], resolve)))
    <3> SUFFICES ASSUME Len(p) # 1, i # 0
                PROVE  Component(i, p[2], resolve) # 0 => Working(Component(i, p[2], resolve))
      OBVIOUS
    <3>1. Real(i)
      BY <1>3, <2>1
    <3> HIDE DEF i
    <3> QED
      BY <1>1, <1>2, <1>4, <3>1, ComponentIs
  <2> QED
    BY <2>1, <2>2 DEF Walk
<1>5. openat_r2(d, p) # 0 => Working(openat_r2(d, p))
  <2>1. CASE openat2
    <3>1. openat_r2(d, p) = Walk(d, p, R2_RESOLVE) /\ "NO_SYMLINKS" \in R2_RESOLVE
      BY <2>1 DEF openat_r2, openat2_raw, R2_RESOLVE
    <3> QED
      BY <1>4, <3>1
  <2>2. CASE ~openat2
    <3>1. openat_r2(d, p) = Walk(d, p, {})
      BY <2>2 DEF openat_r2
    <3> QED
      BY <1>4, <2>2, <3>1
  <2> QED
    BY <2>1, <2>2
<1>6. ASSUME NEW e, Working(e), NEW n \in Names
      PROVE  LET i == open_relative_r2(e, n, {"DIRECTORY_FILE"}) IN i # 0 => Working(i)
  <2> DEFINE options == {"DIRECTORY_FILE"} \union {"DONT_REPARSE"}
  <2>1. open_relative_r2(e, n, {"DIRECTORY_FILE"}) = NtOpen(e, n, options)
    BY DEF open_relative_r2
  <2>2. "DONT_REPARSE" \in options
    OBVIOUS
  <2> HIDE DEF options
  <2> QED
    BY <1>1, <1>3, <1>6, <2>1, <2>2, NtOpenIs DEF Working, Real
<1>7. windows_open_dir(d, p) # 0 => Working(windows_open_dir(d, p))
  <2> DEFINE i == open_relative_r2(d, Head(p), {"DIRECTORY_FILE"})
  <2>1. i # 0 => Working(i)
    BY <1>2, <1>6
  <2>2. windows_open_dir(d, p) = IF Len(p) = 1 \/ i = 0 THEN i
                                 ELSE open_relative_r2(i, p[2], {"DIRECTORY_FILE"})
    BY DEF windows_open_dir
  <2> HIDE DEF i
  <2> QED
    BY <1>2, <1>6, <2>1, <2>2
<1>8. mock_open_dir(d, p) # 0 => Working(mock_open_dir(d, p))
  BY <1>1, <1>2, <1>3, LookupIs DEF mock_open_dir, Working, Real
<1> QED
  BY <1>5, <1>7, <1>8

-----------------------------------------------------------------------------
(* Steps by what they do to the tree and to the call                       *)

\* The thread keeps every handle it has, which matters on Windows.
Clings(t) ==
    backend = "windows" =>
    /\ held[t] # 0 => held'[t] = held[t]
    /\ cap'[t] = cap[t]
    /\ call[t].h # 0 => call'[t].h = call[t].h

LEMMA TreeClings ==
    ASSUME Parameters, DirInv, NEW t \in Worker, Clings(t),
           NodesOK(node'), openat2 => Vacant(node'), backend # "mock" => Kept(node'),
           \A j \in Object : node[j].type # "none" => node'[j].type # "none",
           \A j \in Object :
               node'[j].gone => node[j].gone \/ backend # "windows" \/ Holders(j) \subseteq {t},
           \A j \in Object : node'[j].pending => node[j].pending
    PROVE  TreeStep(t)
<1>1. 0 \notin Object
  BY DEF Object
<1> QED
  BY <1>1 DEF TreeStep, DirInv, MarksAreNts, Clings

\* A new object under a free name (or, in the mock, under any).
LEMMA TreeGrows ==
    ASSUME Parameters, DirInv, NEW t \in Worker, Clings(t), NEW d, Working(d), NEW n \in Names,
           NEW k \in Object, NEW o, Fresh(o), node[k].type = "none",
           node' = [node EXCEPT ![k] = o, ![d].entries[n] = k],
           backend = "mock" \/ node[d].entries[n] = 0
    PROVE  TreeStep(t) /\ node'[k].type # "none" /\ ~node'[k].gone /\ k # Outside
<1>1. node' = Placed(node, k, o, d, n)
  BY DEF Placed
<1>2. NodesOK(node) /\ (openat2 => Vacant(node)) /\ (backend # "mock" => Kept(node))
  BY DEF DirInv, Rooted
<1>3. d \in Object /\ node[d].type # "none" /\ (openat2 => d # Outside)
  BY DEF Working
<1> DEFINE ms == Placed(node, k, o, d, n)
<1>4. /\ NodesOK(ms)
      /\ Vacant(node) /\ d # Outside => Vacant(ms)
      /\ Kept(node) /\ node[d].entries[n] = 0 => Kept(ms)
      /\ \A j \in Object : node[j].type # "none" => ms[j].type # "none"
      /\ \A j \in Object : ms[j].gone => node[j].gone
      /\ \A j \in Object : ms[j].pending => node[j].pending
      /\ ms[k].type # "none" /\ ~ms[k].gone /\ k # Outside
  BY <1>2, <1>3, PlacedKeeps
<1> HIDE DEF ms
<1>5. node' = ms
  BY <1>1 DEF ms
<1>6. TreeStep(t)
  BY <1>2, <1>3, <1>4, <1>5, TreeClings
<1> QED
  BY <1>4, <1>5, <1>6

LEMMA MakeGrows ==
    ASSUME Parameters, DirInv, NEW t \in Worker, Clings(t), NEW loc, Working(loc.dir),
           loc.name \in Names, NEW k \in 1..MaxNodes, NEW o, Fresh(o), Make(loc, k, o)
    PROVE  TreeStep(t) /\ node'[k].type # "none" /\ ~node'[k].gone /\ k # Outside
<1>1. node[loc.dir].entries[loc.name] = 0
  BY DEF Make, At
<1>2. node[k].type = "none" /\ k \in Object
  BY DEF Make, Alloc, Object
<1>3. node' = [node EXCEPT ![k] = o, ![loc.dir].entries[loc.name] = k]
  BY DEF Make
<1> QED
  BY <1>1, <1>2, <1>3, TreeGrows

LEMMA NoCalls == ASSUME Parameters PROVE NoCall \in CallRecord /\ CallMeans(NoCall)' /\ NoCall.h = 0
<1>1. <<>> \in Given
  BY DEF Given
<1> QED
  BY <1>1 DEF NoCall, CallRecord, CallMeans, Parameters

\* A call is over: its thread may hold another directory or file now.
LEMMA CallEnds ==
    ASSUME Parameters, DirInv, NEW t \in Worker, TreeStep(t), UNCHANGED <<backend, openat2>>,
           UNCHANGED cap \/ \E c : Working(c) /\ cap' = [cap EXCEPT ![t] = c],
           UNCHANGED held \/ \E f \in 0..MaxNodes : held' = [held EXCEPT ![t] = f],
           (UNCHANGED call /\ call[t] = NoCall) \/ call' = [call EXCEPT ![t] = NoCall]
    PROVE  DirInv'
<1>1. /\ cap \in [Worker -> Object] /\ held \in [Worker -> 0..MaxNodes]
      /\ call \in [Worker -> CallRecord]
  BY DEF DirInv, DirType
<1>2. \E c : cap' = [cap EXCEPT ![t] = c] /\ Working(c)'
  <2>1. \A c : Working(c) => Working(c)'
    BY DEF Working, TreeStep
  <2>2. Working(cap[t]) /\ (UNCHANGED cap => cap' = [cap EXCEPT ![t] = cap[t]])
    BY <1>1 DEF DirInv, Inside
  <2> QED
    BY <2>1, <2>2
<1>3. \E f \in 0..MaxNodes : held' = [held EXCEPT ![t] = f]
  <2>1. held[t] \in 0..MaxNodes /\ (UNCHANGED held => held' = [held EXCEPT ![t] = held[t]])
    BY <1>1
  <2> QED
    BY <2>1
<1>4. call' = [call EXCEPT ![t] = NoCall]
  BY <1>1
<1>5. HandsStep(t)
  BY <1>2, <1>3, <1>4, NoCalls DEF HandsStep
<1> QED
  BY <1>5, ThreadStep

\* A call goes on, with what it has in its hands.
LEMMA CallGoesOn ==
    ASSUME Parameters, DirInv, NEW t \in Worker, UNCHANGED <<backend, openat2, node, cap, held>>,
           NEW x \in CallRecord, call' = [call EXCEPT ![t] = x], CallMeans(x),
           call[t].h # 0 => x.h = call[t].h
    PROVE  DirInv'
<1>1. /\ cap \in [Worker -> Object] /\ held \in [Worker -> 0..MaxNodes]
      /\ call \in [Worker -> CallRecord]
  BY DEF DirInv, DirType
<1>2. TreeStep(t)
  BY <1>1, TreeStays
<1>3. CallMeans(x)'
  BY DEF CallMeans, Linux, Working, Real
<1>4. Working(cap[t])' /\ cap' = [cap EXCEPT ![t] = cap[t]]
  BY <1>1 DEF DirInv, Inside, Working
<1>5. held[t] \in 0..MaxNodes /\ held' = [held EXCEPT ![t] = held[t]]
  BY <1>1
<1>6. HandsStep(t)
  BY <1>3, <1>4, <1>5 DEF HandsStep
<1> QED
  BY <1>2, <1>6, ThreadStep

\* Facts about a step that makes a whole call, or begins one.
LEMMA Begins ==
    ASSUME Parameters, DirInv, NEW t \in Worker, Starts(t)
    PROVE  call[t] = NoCall /\ call[t].h = 0
BY NoCalls DEF Starts

-----------------------------------------------------------------------------
(* The calls, one by one                                                   *)

\* A file is opened, which may make it.
LEMMA HoldsMade ==
    ASSUME Parameters, DirInv, NEW t \in Worker, held[t] = 0, Once(t), NEW loc,
           loc.dir = Top \/ (loc.dir = cap[t] /\ loc.name \in Names), NEW k \in 1..MaxNodes,
           Make(loc, k, Obj("File")), Holds(t, k)
    PROVE  DirInv'
<1>1. loc.dir = cap[t] /\ loc.name \in Names /\ Working(loc.dir)
  BY DEF Make, DirInv, Inside
<1>2. Fresh(Obj("File"))
  BY NewObjects DEF Types
<1>3. /\ cap' = cap /\ held' = [held EXCEPT ![t] = k] /\ call' = call /\ call[t] = NoCall
      /\ UNCHANGED <<backend, openat2>>
  BY DEF Once, Starts, Holds, Same
<1>4. Clings(t)
  BY <1>3, NoCalls DEF Clings
<1>5. TreeStep(t)
  BY <1>1, <1>2, <1>4, MakeGrows
<1>6. k \in 0..MaxNodes
  BY DEF Parameters
<1> QED
  BY <1>3, <1>5, <1>6, CallEnds

LEMMA HoldsFound ==
    ASSUME Parameters, DirInv, NEW t \in Worker, held[t] = 0, Once(t), UNCHANGED node,
           NEW i \in 0..MaxNodes, Holds(t, i)
    PROVE  DirInv'
<1>1. /\ cap' = cap /\ held' = [held EXCEPT ![t] = i] /\ call' = call /\ call[t] = NoCall
      /\ UNCHANGED <<backend, openat2>>
  BY DEF Once, Starts, Holds, Same
<1>2. Clings(t)
  BY <1>1, NoCalls DEF Clings
<1>3. TreeStep(t)
  BY <1>2, TreeClings DEF DirInv, Rooted
<1> QED
  BY <1>1, <1>3, CallEnds

LEMMA OpenKeeps ==
    ASSUME Parameters, DirInv, NEW t \in Worker, NEW n \in Names, NEW o, open(t, n, o)
    PROVE  DirInv'
<1> DEFINE d == cap[t]
           here == [dir |-> d, name |-> n]
<1>1. held[t] = 0
  BY DEF open
<1>2. Working(d) /\ Real(d) /\ NodesOK(node) /\ d \in Object
  BY DEF DirInv, Inside, Working, Real, Rooted
<1>3. Final(here).dir = Top \/ (Final(here).dir = d /\ Final(here).name \in Names)
  BY FinalIs
<1>4. CASE Linux /\ openat(t, d, n, open_flags(o)) /\ Once(t)
  <2> DEFINE loc == IF "EXCL" \in open_flags(o) THEN here ELSE Final(here)
  <2>1. loc.dir = Top \/ (loc.dir = d /\ loc.name \in Names)
    BY <1>3
  <2>2. At(loc) \in 0..MaxNodes
    <3>1. At(here) = Entry(d, n)
      BY DEF Entry
    <3>2. At(Final(here)) \in 0..MaxNodes /\ Entry(d, n) \in 0..MaxNodes
      BY <1>2, LookupIs
    <3> QED
      BY <3>1, <3>2
  <2>3. \/ \E k \in 1..MaxNodes : Make(loc, k, Obj("File")) /\ Holds(t, k)
        \/ Holds(t, At(loc)) /\ UNCHANGED node
    BY <1>4 DEF openat
  <2> HIDE DEF loc
  <2>4. CASE \E k \in 1..MaxNodes : Make(loc, k, Obj("File")) /\ Holds(t, k)
    BY <1>1, <1>4, <2>1, <2>4, HoldsMade
  <2>5. CASE Holds(t, At(loc)) /\ UNCHANGED node
    BY <1>1, <1>4, <2>2, <2>5, HoldsFound
  <2> QED
    BY <2>3, <2>4, <2>5
<1>5. CASE backend = "windows" /\ windows_open(t, d, n, open_params(o)) /\ Once(t)
  <2> DEFINE loc == Final(here)
             i == open_relative(d, n, {"NON_DIRECTORY_FILE"})
  <2>1. i \in 0..MaxNodes
    BY <1>2, NtOpenIs DEF open_relative
  <2>2. \/ \E k \in 1..MaxNodes : Make(loc, k, Obj("File")) /\ Holds(t, k)
        \/ Holds(t, i) /\ UNCHANGED node
    BY <1>5 DEF windows_open
  <2> HIDE DEF i
  <2>3. CASE \E k \in 1..MaxNodes : Make(loc, k, Obj("File")) /\ Holds(t, k)
    BY <1>1, <1>3, <1>5, <2>3, HoldsMade
  <2>4. CASE Holds(t, i) /\ UNCHANGED node
    BY <1>1, <1>5, <2>1, <2>4, HoldsFound
  <2> QED
    BY <2>2, <2>3, <2>4
<1>6. CASE backend = "mock" /\ mock_open(t, n, o)
  <2>1. CASE Entry(d, n) # 0
    <3>1. Holds(t, Entry(d, n)) /\ Once(t) /\ UNCHANGED node
      BY <1>6, <2>1 DEF mock_open
    <3>2. Entry(d, n) \in 0..MaxNodes
      BY <1>2, LookupIs
    <3> QED
      BY <1>1, <3>1, <3>2, HoldsFound
  <2>2. CASE Entry(d, n) = 0
    <3> DEFINE x == [NoCall EXCEPT !.op = "open", !.a = n, !.h = d]
    <3>1. Enter(t, x) /\ UNCHANGED <<node, cap, held>>
      BY <1>6, <2>2 DEF mock_open
    <3>2. x \in CallRecord /\ x.op = "open" /\ x.a = n /\ x.h = d
      <4>1. d \in 0..MaxNodes
        BY <1>2 DEF Object, Parameters
      <4>2. NoCall \in CallRecord
        BY NoCalls
      <4> HIDE DEF d
      <4> QED
        BY <4>1, <4>2 DEF CallRecord
    <3> HIDE DEF x
    <3>3. CallMeans(x)
      BY <1>2, <1>6, <3>2 DEF CallMeans
    <3>4. call[t].h = 0 /\ call' = [call EXCEPT ![t] = x] /\ UNCHANGED <<backend, openat2>>
      BY <3>1, NoCalls DEF Enter, Starts, Same
    <3> QED
      BY <3>1, <3>2, <3>3, <3>4, CallGoesOn
  <2> QED
    BY <2>1, <2>2
<1> QED
  BY <1>4, <1>5, <1>6 DEF open

LEMMA MockInsertKeeps ==
    ASSUME Parameters, DirInv, NEW t \in Worker, mock_insert(t)
    PROVE  DirInv'
<1> DEFINE c == call[t]
<1>1. PICK k \in 1..MaxNodes :
          /\ Alloc(k)
          /\ node' = [node EXCEPT ![k] = Obj("File"), ![c.h].entries[c.a] = k]
          /\ Holds(t, k)
  BY DEF mock_insert
<1>2. /\ cap' = cap /\ held' = [held EXCEPT ![t] = k] /\ call' = [call EXCEPT ![t] = NoCall]
      /\ UNCHANGED <<backend, openat2>>
  BY <1>1 DEF mock_insert, Leave, Proceed, Same, Holds
<1>3. backend = "mock" /\ Working(c.h) /\ c.a \in Names /\ c.h \in Object
      /\ (openat2 => c.h # Outside) /\ node[c.h].type # "none"
  BY DEF mock_insert, DirInv, CallsMean, CallMeans, Working
<1>4. Fresh(Obj("File"))
  BY NewObjects DEF Types
<1>5. node[k].type = "none" /\ k \in Object /\ k \in 0..MaxNodes
  BY <1>1 DEF Alloc, Object, Parameters
<1>6. Clings(t)
  BY <1>3 DEF Clings
<1> HIDE DEF c
<1>7. TreeStep(t)
  BY <1>1, <1>3, <1>4, <1>5, <1>6, TreeGrows
<1> QED
  BY <1>2, <1>5, <1>7, CallEnds

\* A thread lets go of i and of nothing else.
LEMMA TreeClosed ==
    ASSUME Parameters, DirInv, NEW t \in Worker, NEW i \in 0..MaxNodes, NEW ns, NodesOK(ns),
           openat2 => Vacant(ns), backend # "mock" => Kept(ns),
           \A j \in Object : node[j].type # "none" => ns[j].type # "none",
           \A j \in Object : ns[j].gone => node[j].gone,
           \A j \in Object : ns[j].pending => backend = "windows" /\ (j = i \/ node[j].pending),
           node' = Closed(ns, i, t),
           held[t] = i \/ held'[t] = held[t], cap[t] = i \/ cap'[t] = cap[t],
           call[t].h \in {0, i} \/ call'[t].h = call[t].h
    PROVE  TreeStep(t)
<1> DEFINE ms == Closed(ns, i, t)
<1>1. /\ NodesOK(ms) /\ (Vacant(ns) => Vacant(ms)) /\ (Kept(ns) => Kept(ms))
      /\ \A j \in Object : ms[j].type = ns[j].type
      /\ \A j \in Object : ms[j].gone => ns[j].gone \/ Holders(j) \subseteq {t}
      /\ \A j \in Object : ms[j].pending =>
             ns[j].pending /\ (j = i => \E u \in Holders(j) : u # t)
  BY ClosedKeeps
<1> HIDE DEF ms
<1>2. node' = ms
  BY DEF ms
<1>3. 0 \notin Object
  BY DEF Object
<1>4. ASSUME NEW j \in Object, node'[j].pending
      PROVE  /\ backend = "windows"
             /\ \/ \E u \in Holders(j) : u # t
                \/ /\ node[j].pending
                   /\ held[t] = j => held'[t] = j
                   /\ cap[t] = j => cap'[t] = j
                   /\ call[t].h = j => call'[t].h = j
  <2>1. CASE j = i
    BY <1>1, <1>2, <1>4, <2>1
  <2>2. CASE j # i
    BY <1>1, <1>2, <1>3, <1>4, <2>2
  <2> QED
    BY <2>1, <2>2
<1> QED
  BY <1>1, <1>2, <1>4 DEF TreeStep

LEMMA DropKeeps ==
    ASSUME Parameters, DirInv, NEW t \in Worker, drop_file(t)
    PROVE  DirInv'
<1>1. /\ node' = Closed(node, held[t], t) /\ held' = [held EXCEPT ![t] = 0]
      /\ call[t] = NoCall /\ UNCHANGED <<backend, openat2, cap, call>>
  BY DEF drop_file, Same
<1>2. held[t] \in 0..MaxNodes /\ 0 \in 0..MaxNodes
  BY DEF DirInv, DirType, Parameters
<1>3. TreeStep(t)
  BY <1>1, <1>2, TreeClosed DEF DirInv, Rooted, MarksAreNts
<1> QED
  BY <1>1, <1>2, <1>3, CallEnds

\* A capability is exchanged for another.
LEMMA ExchangeKeeps ==
    ASSUME Parameters, DirInv, NEW t \in Worker, NEW i, Working(i), cap' = [cap EXCEPT ![t] = i],
           node' = Closed(node, cap[t], t), call[t] = NoCall,
           UNCHANGED <<backend, openat2, held, call>>
    PROVE  DirInv'
<1>1. cap[t] \in 0..MaxNodes
  BY DEF DirInv, DirType, Object, Parameters
<1>2. TreeStep(t)
  BY <1>1, TreeClosed DEF DirInv, Rooted, MarksAreNts
<1> QED
  BY <1>2, CallEnds

LEMMA OpenDirKeeps ==
    ASSUME Parameters, DirInv, NEW t \in Worker, NEW p \in Paths, open_dir(t, p)
    PROVE  DirInv'
<1> DEFINE i == IF Linux THEN linux_open_dir(cap[t], p)
                ELSE IF backend = "windows" THEN windows_open_dir(cap[t], p)
                ELSE mock_open_dir(cap[t], p)
<1>1. /\ i # 0 /\ cap' = [cap EXCEPT ![t] = i] /\ node' = Closed(node, cap[t], t)
      /\ call[t] = NoCall /\ UNCHANGED <<backend, openat2, held, call>>
  BY DEF open_dir, Once, Starts, Same
<1>2. p \in Seq(Names) /\ Len(p) \in {1, 2} /\ Working(cap[t])
  BY DEF Parameters, DirInv, Inside
<1>3. i # 0 => Working(i)
  BY <1>2, OpenDirIs DEF linux_open_dir
<1> HIDE DEF i
<1> QED
  BY <1>1, <1>3, ExchangeKeeps

LEMMA OpenAmbientKeeps ==
    ASSUME Parameters, DirInv, NEW t \in Worker, open_ambient(t)
    PROVE  DirInv'
BY ExchangeKeeps DEF open_ambient, Same, DirInv, Inside

\* One of the create calls, all in one step.
LEMMA MkdirKeeps ==
    ASSUME Parameters, DirInv, NEW t \in Worker, NEW d, Working(d), NEW n \in Names,
           UNCHANGED <<backend, openat2, cap, held>>,
           (UNCHANGED call /\ call[t] = NoCall)
             \/ (backend # "windows" /\ call' = [call EXCEPT ![t] = NoCall]),
           \E k \in 1..MaxNodes, o \in NodeRecord :
               /\ Fresh(o) /\ Alloc(k) /\ (backend = "mock" \/ node[d].entries[n] = 0)
               /\ node' = [node EXCEPT ![k] = o, ![d].entries[n] = k]
    PROVE  DirInv'
<1>1. PICK k \in 1..MaxNodes, o \in NodeRecord :
          /\ Fresh(o) /\ Alloc(k) /\ (backend = "mock" \/ node[d].entries[n] = 0)
          /\ node' = [node EXCEPT ![k] = o, ![d].entries[n] = k]
  OBVIOUS
<1>2. Clings(t)
  BY DEF Clings
<1>3. k \in Object /\ node[k].type = "none"
  BY <1>1 DEF Object, Alloc
<1>4. TreeStep(t)
  BY <1>1, <1>2, <1>3, TreeGrows
<1> QED
  BY <1>4, CallEnds

\* A Make is such a change.
LEMMA MakeIs ==
    ASSUME NEW d, NEW n, NEW k, NEW o, Make([dir |-> d, name |-> n], k, o)
    PROVE  /\ Alloc(k) /\ node[d].entries[n] = 0
           /\ node' = [node EXCEPT ![k] = o, ![d].entries[n] = k]
BY DEF Make, At

LEMMA MkdiratIs ==
    ASSUME Parameters, NEW d, NEW n, mkdirat(d, n)
    PROVE  \E k \in 1..MaxNodes, o \in NodeRecord :
               /\ Fresh(o) /\ Alloc(k) /\ (backend = "mock" \/ node[d].entries[n] = 0)
               /\ node' = [node EXCEPT ![k] = o, ![d].entries[n] = k]
<1>1. Fresh(Obj("Dir"))
  BY NewObjects DEF Types
<1>2. PICK k \in 1..MaxNodes : Make([dir |-> d, name |-> n], k, Obj("Dir"))
  BY DEF mkdirat
<1> QED
  BY <1>1, <1>2, MakeIs DEF Fresh

LEMMA CreateDirKeeps ==
    ASSUME Parameters, DirInv, NEW t \in Worker, NEW p \in Paths, create_dir(t, p)
    PROVE  DirInv'
<1>1. p \in Seq(Names) /\ Len(p) \in {1, 2} /\ Working(cap[t]) /\ Real(cap[t]) /\ NodesOK(node)
  BY DEF Parameters, DirInv, Inside, Rooted, Working, Real
<1>2. p[1] \in Names /\ p[Len(p)] \in Names /\ (Len(p) # 1 => p[2] \in Names)
  BY <1>1
<1>3. UNCHANGED <<cap, held>>
  BY DEF create_dir
<1>4. CASE Linux /\ linux_create_dir(t, p)
  <2>1. CASE Len(p) = 1
    <3>1. mkdirat(cap[t], p[1]) /\ call[t] = NoCall /\ UNCHANGED <<call, backend, openat2>>
      BY <1>4, <2>1 DEF linux_create_dir, Once, Starts, Same
    <3> QED
      BY <1>1, <1>2, <1>3, <3>1, MkdiratIs, MkdirKeeps
  <2>2. CASE Len(p) # 1
    <3> DEFINE d == openat_r2(cap[t], <<p[1]>>)
               x == [NoCall EXCEPT !.op = "create_dir", !.h = d, !.a = p[2], !.b = p[1]]
    <3>1. d # 0 /\ Enter(t, x) /\ UNCHANGED node
      BY <1>4, <2>2 DEF linux_create_dir
    <3>2. <<p[1]>> \in Seq(Names) /\ Len(<<p[1]>>) = 1
      BY <1>2
    <3>3. Working(d)
      BY <1>1, <3>1, <3>2, OpenDirIs
    <3> HIDE DEF d
    <3>4. d \in 0..MaxNodes
      BY <3>3 DEF Working, Object, Parameters
    <3>5. NoCall \in CallRecord
      BY NoCalls
    <3>6. x \in CallRecord /\ x.op = "create_dir" /\ x.h = d /\ x.a = p[2]
      BY <1>2, <2>2, <3>4, <3>5 DEF CallRecord
    <3> HIDE DEF x
    <3>7. CallMeans(x)
      BY <1>2, <1>4, <2>2, <3>3, <3>6 DEF CallMeans
    <3>8. call[t].h = 0 /\ call' = [call EXCEPT ![t] = x] /\ UNCHANGED <<backend, openat2>>
      BY <3>1, NoCalls DEF Enter, Starts, Same
    <3> QED
      BY <1>3, <3>1, <3>6, <3>7, <3>8, CallGoesOn
  <2> QED
    BY <2>1, <2>2
<1>5. CASE backend = "windows" /\ windows_create_dir(t, p)
  <2> DEFINE d == IF Len(p) = 1 THEN cap[t]
                  ELSE open_relative_r2(cap[t], p[1], {"DIRECTORY_FILE"})
  <2>1. d # 0 /\ mkdirat(d, p[Len(p)]) /\ Once(t)
    BY <1>5 DEF windows_create_dir
  <2>2. <<p[1]>> \in Seq(Names) /\ Len(<<p[1]>>) = 1 /\ Head(<<p[1]>>) = p[1]
    BY <1>2
  <2>3. windows_open_dir(cap[t], <<p[1]>>) = open_relative_r2(cap[t], p[1], {"DIRECTORY_FILE"})
    BY <2>2 DEF windows_open_dir
  <2>4. Working(d)
    BY <1>1, <2>1, <2>2, <2>3, OpenDirIs
  <2> HIDE DEF d
  <2>5. call[t] = NoCall /\ UNCHANGED <<call, backend, openat2>>
    BY <2>1 DEF Once, Starts, Same
  <2> QED
    BY <1>2, <1>3, <2>1, <2>4, <2>5, MkdiratIs, MkdirKeeps
<1>6. CASE backend = "mock" /\ mock_create_dir(t, p)
  <2>1. PICK k \in 1..MaxNodes :
            Alloc(k) /\ node' = [node EXCEPT ![k] = Obj("Dir"), ![cap[t]].entries[p[1]] = k]
    BY <1>6 DEF mock_create_dir
  <2>2. call[t] = NoCall /\ UNCHANGED <<call, backend, openat2>>
    BY <1>6 DEF mock_create_dir, Once, Starts, Same
  <2>3. Fresh(Obj("Dir"))
    BY NewObjects DEF Types
  <2> QED
    BY <1>1, <1>2, <1>3, <1>6, <2>1, <2>2, <2>3, MkdirKeeps DEF Fresh
<1> QED
  BY <1>4, <1>5, <1>6 DEF create_dir

LEMMA MkdiratLeafKeeps ==
    ASSUME Parameters, DirInv, NEW t \in Worker, mkdirat_leaf(t) \/ mkdirat_fails(t)
    PROVE  DirInv'
<1>1. call[t].op = "create_dir" /\ CallMeans(call[t])
  BY DEF mkdirat_leaf, mkdirat_fails, DirInv, CallsMean
<1>2. Linux /\ Working(call[t].h) /\ call[t].a \in Names /\ backend # "windows"
  BY <1>1 DEF CallMeans, Linux
<1>3. UNCHANGED <<backend, openat2, cap, held>> /\ call' = [call EXCEPT ![t] = NoCall]
  BY DEF mkdirat_leaf, mkdirat_fails, Leave, Proceed, Same
<1>4. CASE mkdirat_leaf(t)
  <2>1. mkdirat(call[t].h, call[t].a)
    BY <1>4 DEF mkdirat_leaf
  <2> DEFINE d == call[t].h
             n == call[t].a
  <2>2. Working(d) /\ n \in Names /\ mkdirat(d, n)
    BY <1>2, <2>1
  <2> HIDE DEF d, n
  <2>3. \E k \in 1..MaxNodes, o \in NodeRecord :
            /\ Fresh(o) /\ Alloc(k) /\ (backend = "mock" \/ node[d].entries[n] = 0)
            /\ node' = [node EXCEPT ![k] = o, ![d].entries[n] = k]
    BY <2>2, MkdiratIs
  <2> QED
    BY <1>2, <1>3, <2>2, <2>3, MkdirKeeps
<1>5. CASE mkdirat_fails(t)
  <2>1. UNCHANGED node
    BY <1>5 DEF mkdirat_fails
  <2>2. TreeStep(t)
    BY <1>2, <2>1, TreeUnmarked DEF DirInv, Rooted
  <2> QED
    BY <1>3, <2>2, CallEnds
<1> QED
  BY <1>4, <1>5

\* A call is entered that has i in its hands, or nothing.
LEMMA EnterKeeps ==
    ASSUME Parameters, DirInv, NEW t \in Worker, NEW x \in CallRecord, Enter(t, x), CallMeans(x),
           UNCHANGED <<node, cap, held>>
    PROVE  DirInv'
<1>1. call[t].h = 0 /\ call' = [call EXCEPT ![t] = x] /\ UNCHANGED <<backend, openat2>>
  BY NoCalls DEF Enter, Starts, Same
<1> QED
  BY <1>1, CallGoesOn

LEMMA RemoveKeeps ==
    ASSUME Parameters, DirInv, NEW t \in Worker, NEW n \in Names, NEW want_dir,
           RemoveEntry(t, n, want_dir)
    PROVE  DirInv'
<1> DEFINE flags == IF want_dir THEN {"REMOVEDIR"} ELSE {}
<1>1. Real(cap[t]) /\ NodesOK(node)
  BY DEF DirInv, Inside, Working, Real, Rooted
<1>2. UNCHANGED <<cap, held>>
  BY DEF RemoveEntry
<1>3. CASE backend # "windows" /\ unlinkat(cap[t], n, flags) /\ Once(t)
  <2> DEFINE i == Entry(cap[t], n)
  <2>1. i # 0 /\ node' = Unlinked(node, i)
    BY <1>3 DEF unlinkat
  <2>2. i \in Object
    BY <1>1, <2>1, LookupIs DEF Real
  <2> DEFINE ms == Unlinked(node, i)
  <2> HIDE DEF i
  <2>3. /\ NodesOK(ms) /\ (Vacant(node) => Vacant(ms)) /\ (Kept(node) => Kept(ms))
        /\ \A j \in Object : ms[j].type = node[j].type
        /\ \A j \in Object : ms[j].gone => node[j].gone \/ j = i
        /\ \A j \in Object : ms[j].pending => node[j].pending /\ j # i
    BY <1>1, <2>2, UnlinkedKeeps
  <2>4. node' = ms
    BY <2>1
  <2> HIDE DEF ms
  <2>5. TreeStep(t)
    BY <1>3, <2>3, <2>4, TreeUnmarked DEF DirInv, Rooted
  <2>6. call[t] = NoCall /\ UNCHANGED <<call, backend, openat2>>
    BY <1>3 DEF Once, Starts, Same
  <2> QED
    BY <1>2, <2>5, <2>6, CallEnds
<1>4. CASE backend = "windows" /\ windows_remove(t, n, want_dir)
  <2> DEFINE options == {IF want_dir THEN "DIRECTORY_FILE" ELSE "NON_DIRECTORY_FILE",
                         "OPEN_REPARSE_POINT"}
             i == open_relative(cap[t], n, options)
             x == [NoCall EXCEPT !.op = "remove", !.h = i]
  <2>1. i # 0 /\ Enter(t, x) /\ UNCHANGED node
    BY <1>4 DEF windows_remove
  <2> HIDE DEF options
  <2>2. i \in 0..MaxNodes /\ Real(i)
    BY <1>1, <2>1, NtOpenIs DEF open_relative
  <2> HIDE DEF i
  <2>3. NoCall \in CallRecord
    BY NoCalls
  <2>4. x \in CallRecord /\ x.op = "remove" /\ x.h = i
    BY <2>2, <2>3 DEF CallRecord
  <2> HIDE DEF x
  <2>5. CallMeans(x)
    BY <1>4, <2>2, <2>4 DEF CallMeans
  <2> QED
    BY <1>2, <2>1, <2>4, <2>5, EnterKeeps
<1> QED
  BY <1>3, <1>4 DEF RemoveEntry, Linux, mock_remove

\* Objects whose entries, existence and removal stay as they are.
LEMMA SameShape ==
    ASSUME Parameters, NEW ns, NodesOK(ns), NEW ms \in [Object -> NodeRecord],
           ms[Outside].type = "Dir",
           \A j \in Object : (ms[j].type = "none") <=> (ns[j].type = "none"),
           \A j \in Object, m \in Names : ms[j].entries[m] = ns[j].entries[m],
           \A j \in Object : ms[j].gone <=> ns[j].gone
    PROVE  NodesOK(ms) /\ (Vacant(ns) => Vacant(ms)) /\ (Kept(ns) => Kept(ms))
<1>1. Outside \in Object /\ 3..MaxNodes \subseteq Object
  BY DEF Outside, Object, Parameters
<1>2. NodesOK(ms)
  <2>1. ASSUME NEW d \in Object, NEW n \in Names, NEW i \in Object, ms[d].entries[n] = i
        PROVE  ms[i].type # "none"
    BY <2>1 DEF NodesOK
  <2> QED
    BY <2>1 DEF NodesOK
<1>3. Vacant(ns) => Vacant(ms)
  BY <1>1 DEF Vacant
<1>4. Kept(ns) => Kept(ms)
  <2> SUFFICES ASSUME Kept(ns), NEW i \in 3..MaxNodes
              PROVE  ms[i].type = "none" \/ ms[i].gone
                     \/ \E d \in Object, n \in Names : ms[d].entries[n] = i
    BY DEF Kept
  <2> QED
    BY <1>1 DEF Kept
<1> QED
  BY <1>2, <1>3, <1>4

LEMMA MarkDeleteKeeps ==
    ASSUME Parameters, DirInv, NEW t \in Worker, mark_delete(t)
    PROVE  DirInv'
<1> DEFINE i == call[t].h
           marked == [node EXCEPT ![i].pending = TRUE]
<1>1. NodesOK(node) /\ (openat2 => Vacant(node)) /\ (backend # "mock" => Kept(node))
  BY DEF DirInv, Rooted
<1>2. backend = "windows" /\ Real(i) /\ i \in Object /\ i \in 0..MaxNodes
  BY DEF mark_delete, DirInv, CallsMean, CallMeans, Real, Object, Parameters
<1>3. UNCHANGED <<backend, openat2, cap, held>> /\ call' = [call EXCEPT ![t] = NoCall]
  BY DEF mark_delete, Leave, Proceed, Same
<1>4. node' = Closed(node, i, t) \/ node' = Closed(marked, i, t)
  BY DEF mark_delete
<1>5. /\ marked \in [Object -> NodeRecord]
      /\ \A j \in Object : /\ marked[j].type = node[j].type /\ marked[j].entries = node[j].entries
                           /\ marked[j].gone = node[j].gone
                           /\ j # i => marked[j].pending = node[j].pending
  <2> DEFINE o == [node[i] EXCEPT !.pending = TRUE]
  <2>1. node \in [Object -> NodeRecord] /\ node[i] \in NodeRecord
    BY <1>1, <1>2 DEF NodesOK
  <2> HIDE DEF i
  <2>2. o \in NodeRecord /\ o.type = node[i].type /\ o.entries = node[i].entries
        /\ o.gone = node[i].gone
    BY <2>1 DEF NodeRecord
  <2>3. marked = [node EXCEPT ![i] = o]
    OBVIOUS
  <2> HIDE DEF o, marked
  <2> QED
    BY <1>2, <2>1, <2>2, <2>3
<1> HIDE DEF i, marked
<1>6. Outside \in Object
  BY DEF Object, Outside, Parameters
<1>7. NodesOK(marked) /\ (openat2 => Vacant(marked)) /\ (backend # "mock" => Kept(marked))
  <2>1. marked[Outside].type = "Dir"
    BY <1>1, <1>5, <1>6 DEF NodesOK
  <2>2. NodesOK(marked) /\ (Vacant(node) => Vacant(marked)) /\ (Kept(node) => Kept(marked))
    BY <1>1, <1>5, <2>1, SameShape
  <2> QED
    BY <1>1, <2>2
<1>8. TreeStep(t)
  <2>1. \A j \in Object : node[j].pending => backend = "windows"
    BY DEF DirInv, MarksAreNts
  <2>2. call[t].h = i
    BY DEF i
  <2>3. CASE node' = Closed(node, i, t)
    BY <1>1, <1>2, <1>3, <2>1, <2>2, <2>3, TreeClosed
  <2>4. CASE node' = Closed(marked, i, t)
    BY <1>2, <1>3, <1>5, <1>7, <2>1, <2>2, <2>4, TreeClosed
  <2> QED
    BY <1>4, <2>3, <2>4
<1> QED
  BY <1>3, <1>8, CallEnds

LEMMA RenameKeeps ==
    ASSUME Parameters, DirInv, NEW t \in Worker, NEW from \in Names, NEW to \in Names,
           NEW replace \in BOOLEAN, RenameEntry(t, from, to, replace)
    PROVE  DirInv'
<1> DEFINE d == cap[t]
           i == Entry(d, from)
           r == Entry(d, to)
<1>1. NodesOK(node) /\ (openat2 => Vacant(node)) /\ (backend # "mock" => Kept(node))
  BY DEF DirInv, Rooted
<1>2. Working(d) /\ Real(d) /\ d \in Object /\ (openat2 => d # Outside)
  BY DEF DirInv, Inside, Working, Real
<1>3. UNCHANGED <<cap, held>>
  BY DEF RenameEntry
<1>4. i # Outside /\ (i # 0 => Real(i)) /\ i \in 0..MaxNodes /\ r = node[d].entries[to]
  BY <1>1, <1>2, LookupIs, EntryIs
<1>5. ASSUME backend # "windows", i # 0, backend = "mock" \/ (r # 0 => replace),
             node' = Moved(i, d, to, replace), Once(t)
      PROVE  DirInv'
  <2>1. call[t] = NoCall /\ UNCHANGED <<call, backend, openat2>>
    BY <1>5 DEF Once, Starts, Same
  <2> DEFINE ms == Moved(i, d, to, replace)
  <2> HIDE DEF d, i, r
  <2>2. /\ NodesOK(ms)
        /\ Vacant(node) /\ d # Outside => Vacant(ms)
        /\ Kept(node) /\ (node[d].entries[to] \notin {0, i} => replace) => Kept(ms)
        /\ \A j \in Object : ms[j].type = node[j].type
        /\ \A j \in Object : ms[j].gone =>
               node[j].gone \/ (j = node[d].entries[to] /\ node[d].entries[to] \notin {0, i})
        /\ \A j \in Object : ms[j].pending = node[j].pending
    BY <1>1, <1>2, <1>4, <1>5, MovedKeeps
  <2>3. node' = ms
    BY <1>5
  <2> HIDE DEF ms
  <2>4. TreeStep(t)
    BY <1>1, <1>2, <1>4, <1>5, <2>2, <2>3, TreeUnmarked
  <2> QED
    BY <1>3, <2>1, <2>4, CallEnds
<1>6. CASE Linux /\ linux_rename(t, from, to, replace)
  <2>1. i # 0 /\ (r # 0 => replace) /\ node' = Moved(i, d, to, replace) /\ Once(t)
    BY <1>6 DEF linux_rename, renameat2_raw
  <2> QED
    BY <1>5, <1>6, <2>1 DEF Linux
<1>7. CASE backend = "mock" /\ mock_rename_impl(t, from, to, replace)
  BY <1>5, <1>7 DEF mock_rename_impl
<1>8. CASE backend = "windows" /\ windows_rename(t, from, to, replace)
  <2> DEFINE f == open_relative(d, from, {"NON_DIRECTORY_FILE"})
             h == IF f # 0 THEN f ELSE open_relative(d, from, {"DIRECTORY_FILE"})
             x == [NoCall EXCEPT !.op = "rename", !.h = h, !.d = d, !.a = from, !.b = to,
                                 !.flag = replace, !.size = i]
  <2>1. h # 0 /\ Enter(t, x) /\ UNCHANGED node
    BY <1>8 DEF windows_rename
  <2>2. h \in 0..MaxNodes /\ Real(h)
    BY <1>1, <1>2, <2>1, NtOpenIs DEF open_relative
  <2> HIDE DEF h
  <2>3. NoCall \in CallRecord /\ d \in 0..MaxNodes /\ i \in Nat
    BY <1>2, <1>4, NoCalls DEF Object, Parameters
  <2> HIDE DEF d, i
  <2>4. x \in CallRecord /\ x.op = "rename" /\ x.h = h /\ x.d = d /\ x.a = from /\ x.b = to
    BY <2>2, <2>3 DEF CallRecord
  <2> HIDE DEF x
  <2>5. CallMeans(x)
    BY <1>2, <1>8, <2>2, <2>4 DEF CallMeans
  <2> QED
    BY <1>3, <2>1, <2>4, <2>5, EnterKeeps
<1> QED
  BY <1>6, <1>7, <1>8 DEF RenameEntry

LEMMA NtRenameKeeps ==
    ASSUME Parameters, DirInv, NEW t \in Worker, NtRename(t)
    PROVE  DirInv'
<1> DEFINE c == call[t]
           i == c.h
           d == c.d
           to == c.b
           r == node[d].entries[to]
<1>1. NodesOK(node) /\ (openat2 => Vacant(node)) /\ (backend # "mock" => Kept(node))
  BY DEF DirInv, Rooted
<1>2. c.op = "rename" /\ CallMeans(c)
  BY DEF NtRename, DirInv, CallsMean
<1>3. /\ backend = "windows" /\ Real(i) /\ Working(d) /\ to \in Names /\ c.flag \in BOOLEAN
      /\ Real(d) /\ i \in 0..MaxNodes /\ (openat2 => d # Outside) /\ d \in Object /\ i \in Object
  <2>1. c \in CallRecord
    BY DEF DirInv, DirType
  <2> HIDE DEF c
  <2> QED
    BY <1>2, <2>1 DEF CallMeans, CallRecord, Real, Working, Object
<1>4. UNCHANGED <<backend, openat2, cap, held>> /\ call' = [call EXCEPT ![t] = NoCall]
  BY DEF NtRename, Leave, Return, Proceed, Same
<1>5. Entry(d, to) = r
  BY <1>1, <1>3, EntryIs
<1>6. \/ /\ i # Outside /\ Live(i) /\ (r \notin {0, i} => c.flag /\ Holders(r) = {})
         /\ node' = Moved(i, d, to, c.flag)
      \/ node' = Closed(node, i, t)
  BY <1>5 DEF NtRename
<1>7. call[t].h = i /\ call[t] = c
  OBVIOUS
<1> HIDE DEF i, d, to, c
<1>8. CASE /\ i # Outside /\ Live(i) /\ (r \notin {0, i} => c.flag /\ Holders(r) = {})
           /\ node' = Moved(i, d, to, c.flag)
  <2> DEFINE ms == Moved(i, d, to, c.flag)
  <2>1. /\ NodesOK(ms)
        /\ Vacant(node) /\ d # Outside => Vacant(ms)
        /\ Kept(node) /\ (node[d].entries[to] \notin {0, i} => c.flag) => Kept(ms)
        /\ \A j \in Object : ms[j].type = node[j].type
        /\ \A j \in Object : ms[j].gone =>
               node[j].gone \/ (j = node[d].entries[to] /\ node[d].entries[to] \notin {0, i})
        /\ \A j \in Object : ms[j].pending = node[j].pending
    BY <1>1, <1>3, <1>8, MovedKeeps
  <2>2. node' = ms
    BY <1>8
  <2> HIDE DEF ms
  <2>3. NodesOK(node') /\ (openat2 => Vacant(node')) /\ (backend # "mock" => Kept(node'))
    BY <1>1, <1>3, <1>8, <2>1, <2>2
  <2>4. \A j \in Object : node'[j].gone => node[j].gone \/ Holders(j) \subseteq {t}
    BY <1>8, <2>1, <2>2
  <2>5. ASSUME NEW j \in Object, node'[j].pending
        PROVE  node[j].pending /\ call[t].h # j
    BY <1>7, <1>8, <2>1, <2>2, <2>5 DEF Live
  <2>6. TreeStep(t)
    BY <1>3, <1>4, <2>1, <2>2, <2>3, <2>4, <2>5 DEF TreeStep
  <2> QED
    BY <1>4, <2>6, CallEnds
<1>9. CASE node' = Closed(node, i, t)
  <2>1. \A j \in Object : node[j].pending => backend = "windows"
    BY DEF DirInv, MarksAreNts
  <2>2. TreeStep(t)
    BY <1>1, <1>3, <1>4, <1>7, <1>9, <2>1, TreeClosed
  <2> QED
    BY <1>4, <2>2, CallEnds
<1> QED
  BY <1>6, <1>8, <1>9

LEMMA WireIs ==
    ASSUME NEW s \in Given
    PROVE  s \in Words /\ nt_substitute_name(to_wide_nt_component(s)) \in Words
BY DEF Words

LEMMA SymlinkKeeps ==
    ASSUME Parameters, DirInv, NEW t \in Worker, NEW target \in Targets, NEW n \in Names,
           symlink(t, target, n)
    PROVE  DirInv'
<1> DEFINE d == cap[t]
           o == LinkObj(target, target, FALSE)
<1>1. Working(d) /\ d \in 0..MaxNodes /\ target \in Given
  BY DEF DirInv, Inside, Working, Object, Parameters, Given
<1>2. UNCHANGED <<cap, held>>
  BY DEF symlink
<1>3. Fresh(o)
  BY <1>1, WireIs, NewObjects
<1>4. ASSUME Once(t),
             \E k \in 1..MaxNodes :
                 /\ Alloc(k) /\ node[d].entries[n] = 0
                 /\ node' = [node EXCEPT ![k] = o, ![d].entries[n] = k]
      PROVE  DirInv'
  <2>1. call[t] = NoCall /\ UNCHANGED <<call, backend, openat2>>
    BY <1>4 DEF Once, Starts, Same
  <2> HIDE DEF d, o
  <2>2. o \in NodeRecord
    BY <1>3 DEF Fresh
  <2>3. \E k \in 1..MaxNodes, x \in NodeRecord :
            /\ Fresh(x) /\ Alloc(k) /\ (backend = "mock" \/ node[d].entries[n] = 0)
            /\ node' = [node EXCEPT ![k] = x, ![d].entries[n] = k]
    BY <1>3, <1>4, <2>2
  <2> QED
    BY <1>1, <1>2, <2>1, <2>3, MkdirKeeps
<1>5. CASE Linux /\ symlinkat(d, target, n) /\ Once(t)
  <2>1. PICK k \in 1..MaxNodes : Make([dir |-> d, name |-> n], k, o)
    BY <1>5 DEF symlinkat
  <2> HIDE DEF d, o
  <2>2. /\ Alloc(k) /\ node[d].entries[n] = 0
        /\ node' = [node EXCEPT ![k] = o, ![d].entries[n] = k]
    BY <2>1, MakeIs
  <2> QED
    BY <1>4, <1>5, <2>2
<1>6. CASE backend = "mock" /\ mock_symlink(d, target, n) /\ Once(t)
  <2>1. Entry(d, n) = node[d].entries[n]
    BY <1>1, EntryIs DEF DirInv, Rooted, Working
  <2> QED
    BY <1>4, <1>6, <2>1 DEF mock_symlink
<1>7. CASE backend = "windows" /\ windows_symlink(t, target, n)
  <2> DEFINE flag == Head(target) \in Names /\ Is(Entry(d, Head(target)), "Dir")
             x == [NoCall EXCEPT !.op = "symlink", !.stage = "create", !.d = d, !.a = n,
                                 !.target = target, !.flag = flag]
  <2>1. Enter(t, x) /\ UNCHANGED node
    BY <1>7 DEF windows_symlink
  <2>2. flag \in BOOLEAN
    BY DEF Is
  <2>3. NoCall \in CallRecord /\ NoCall.h = 0
    BY NoCalls
  <2> HIDE DEF d, flag
  <2>4. /\ x \in CallRecord /\ x.op = "symlink" /\ x.stage = "create" /\ x.d = d /\ x.a = n
        /\ x.h = 0
    BY <1>1, <2>2, <2>3 DEF CallRecord
  <2> HIDE DEF x
  <2>5. CallMeans(x)
    BY <1>1, <1>7, <2>4 DEF CallMeans
  <2> QED
    BY <1>2, <2>1, <2>4, <2>5, EnterKeeps
<1> QED
  BY <1>5, <1>6, <1>7 DEF symlink

LEMMA SymlinkCreateKeeps ==
    ASSUME Parameters, DirInv, NEW t \in Worker, SymlinkCreate(t)
    PROVE  DirInv'
<1> DEFINE c == call[t]
<1>1. c \in CallRecord /\ CallMeans(c) /\ c.op = "symlink" /\ c.stage = "create"
  BY DEF SymlinkCreate, DirInv, DirType, CallsMean
<1>2. /\ backend = "windows" /\ Working(c.d) /\ c.a \in Names /\ c.h = 0
  BY <1>1 DEF CallMeans
<1>3. UNCHANGED <<backend, openat2, cap, held>>
  BY DEF SymlinkCreate, Leave, Proceed, Same
<1>4. CASE UNCHANGED node /\ Leave(t)
  <2>1. call' = [call EXCEPT ![t] = NoCall]
    BY <1>4 DEF Leave, Proceed
  <2>2. TreeStep(t)
    BY <1>2, <1>3, <1>4, TreeStays
  <2> QED
    BY <1>3, <2>1, <2>2, CallEnds
<1>5. ASSUME NEW k \in 1..MaxNodes,
             Make([dir |-> c.d, name |-> c.a], k, Obj(IF c.flag THEN "Dir" ELSE "File")),
             Proceed(t, [c EXCEPT !.stage = "reparse", !.h = k])
      PROVE  DirInv'
  <2> DEFINE o == Obj(IF c.flag THEN "Dir" ELSE "File")
             loc == [dir |-> c.d, name |-> c.a]
  <2>1. Fresh(o)
    BY NewObjects DEF Types
  <2>2. PICK x : x = [c EXCEPT !.stage = "reparse", !.h = k]
    OBVIOUS
  <2>3. call' = [call EXCEPT ![t] = x]
    BY <1>5, <2>2 DEF Proceed
  <2>4. Clings(t)
    BY <1>2, <1>3 DEF Clings
  <2>5. Working(loc.dir) /\ loc.name \in Names /\ Make(loc, k, o)
    BY <1>2, <1>5
  <2> HIDE DEF o, loc
  <2>6. TreeStep(t) /\ node'[k].type # "none" /\ ~node'[k].gone /\ k # Outside
    BY <2>1, <2>4, <2>5, MakeGrows
  <2>7. k \in 0..MaxNodes /\ k \in Object
    BY DEF Object, Parameters
  <2> HIDE DEF c
  <2>8. /\ x \in CallRecord /\ x.op = "symlink" /\ x.stage = "reparse" /\ x.d = c.d /\ x.a = c.a
        /\ x.h = k
    BY <1>1, <2>2, <2>7 DEF CallRecord
  <2>9. \A i : Working(i) => Working(i)'
    BY <1>3, <2>6 DEF Working, TreeStep
  <2>10. Working(k)' /\ Working(x.d)'
    BY <1>2, <2>8, <2>9, <2>6, <2>7 DEF Working
  <2>11. CallMeans(x)'
    BY <1>2, <1>3, <2>6, <2>8, <2>10 DEF CallMeans
  <2>12. Working(cap[t])' /\ cap' = [cap EXCEPT ![t] = cap[t]]
    BY <1>3, <2>9 DEF DirInv, Inside, DirType
  <2>13. held[t] \in 0..MaxNodes /\ held' = [held EXCEPT ![t] = held[t]]
    BY <1>3 DEF DirInv, DirType
  <2>14. HandsStep(t)
    BY <1>3, <2>3, <2>8, <2>11, <2>12, <2>13 DEF HandsStep
  <2> QED
    BY <2>6, <2>14, ThreadStep
<1> QED
  BY <1>4, <1>5 DEF SymlinkCreate

LEMMA SymlinkReparseKeeps ==
    ASSUME Parameters, DirInv, NEW t \in Worker, SymlinkReparse(t)
    PROVE  DirInv'
<1> DEFINE c == call[t]
           i == c.h
           link == LinkObj(c.target, nt_substitute_name(to_wide_nt_component(c.target)), c.flag)
           o == [link EXCEPT !.pending = node[i].pending]
           ns == [node EXCEPT ![i] = o]
<1>1. c \in CallRecord /\ CallMeans(c) /\ c.op = "symlink" /\ c.stage = "reparse"
  BY DEF SymlinkReparse, DirInv, DirType, CallsMean
<1>2. /\ backend = "windows" /\ Working(i) /\ i # Outside /\ ~node[i].gone
      /\ c.target \in Given /\ c.flag \in BOOLEAN
  <2> HIDE DEF c
  <2> QED
    BY <1>1 DEF CallMeans, CallRecord
<1>3. UNCHANGED <<backend, openat2, cap, held>> /\ call' = [call EXCEPT ![t] = NoCall]
  BY DEF SymlinkReparse, Leave, Proceed, Same
<1>4. NodesOK(node) /\ (openat2 => Vacant(node)) /\ (backend # "mock" => Kept(node))
  BY DEF DirInv, Rooted
<1>5. i \in Object /\ i \in 0..MaxNodes /\ node[i].type # "none" /\ node[i] \in NodeRecord
      /\ node \in [Object -> NodeRecord]
  BY <1>2, <1>4 DEF Working, NodesOK, Object
<1>6. node' = Closed(node, i, t) \/ (Empty(i) /\ node' = Closed(ns, i, t))
  BY DEF SymlinkReparse
<1>7. Fresh(link) /\ link.type = "Symlink"
  BY <1>2, WireIs, NewObjects
<1>8. call[t].h = i
  OBVIOUS
<1> HIDE DEF c, i, link
<1>9. /\ o \in NodeRecord /\ o.type = "Symlink" /\ ~o.gone /\ o.pending = node[i].pending
      /\ \A n \in Names : o.entries[n] = 0
  BY <1>5, <1>7 DEF Fresh, NodeRecord
<1> HIDE DEF o
<1>10. ns \in [Object -> NodeRecord] /\ \A j \in Object : ns[j] = IF j = i THEN o ELSE node[j]
  BY <1>5, <1>9
<1> HIDE DEF ns
<1>11. \A j \in Object : node[j].pending => backend = "windows"
  BY DEF DirInv, MarksAreNts
<1>12. CASE node' = Closed(node, i, t)
  <2>1. TreeStep(t)
    BY <1>3, <1>4, <1>5, <1>8, <1>11, <1>12, TreeClosed
  <2> QED
    BY <1>3, <2>1, CallEnds
<1>13. CASE Empty(i) /\ node' = Closed(ns, i, t)
  <2>1. Outside \in Object /\ ns[Outside].type = "Dir"
    BY <1>2, <1>4, <1>10 DEF Outside, Object, Parameters, NodesOK
  <2>2. /\ \A j \in Object : (ns[j].type = "none") <=> (node[j].type = "none")
        /\ \A j \in Object, m \in Names : ns[j].entries[m] = node[j].entries[m]
        /\ \A j \in Object : ns[j].gone <=> node[j].gone
        /\ \A j \in Object : ns[j].pending <=> node[j].pending
    BY <1>2, <1>5, <1>9, <1>10, <1>13 DEF Empty
  <2>3. NodesOK(ns) /\ (Vacant(node) => Vacant(ns)) /\ (Kept(node) => Kept(ns))
    BY <1>4, <1>10, <2>1, <2>2, SameShape
  <2>4. TreeStep(t)
    BY <1>3, <1>4, <1>5, <1>8, <1>11, <1>13, <2>2, <2>3, TreeClosed
  <2> QED
    BY <1>3, <2>4, CallEnds
<1> QED
  BY <1>6, <1>12, <1>13

\* The calls that only look, and set_unix_mode, which only sets a mode.
LEMMA LookKeeps ==
    ASSUME Parameters, DirInv, NEW t \in Worker, UNCHANGED <<backend, openat2, node, cap, held>>,
           call[t].h = 0,
           (UNCHANGED call /\ call[t] = NoCall) \/ call' = [call EXCEPT ![t] = NoCall]
    PROVE  DirInv'
<1>1. TreeStep(t)
  BY TreeStays
<1> QED
  BY <1>1, CallEnds

LEMMA ReadLinkKeeps ==
    ASSUME Parameters, DirInv, NEW t \in Worker, NEW n \in Names, read_link(t, n)
    PROVE  DirInv'
<1>1. UNCHANGED <<node, cap, held>>
  BY DEF read_link
<1>2. CASE Linux /\ Enter(t, [NoCall EXCEPT !.op = "read_link", !.d = cap[t], !.a = n,
                                            !.size = FirstCap])
  <2> DEFINE d == cap[t]
             x == [NoCall EXCEPT !.op = "read_link", !.d = d, !.a = n, !.size = FirstCap]
  <2>1. Enter(t, x)
    BY <1>2
  <2>2. NoCall \in CallRecord /\ NoCall.h = 0 /\ FirstCap \in Nat /\ d \in Object
        /\ d \in 0..MaxNodes
    BY NoCalls DEF Parameters, DirInv, DirType, Object
  <2> HIDE DEF d
  <2>3. x \in CallRecord /\ x.op = "read_link" /\ x.h = 0 /\ x.d \in Object /\ x.a \in Names
    BY <2>2 DEF CallRecord
  <2> HIDE DEF x
  <2>4. CallMeans(x)
    BY <2>3 DEF CallMeans
  <2> QED
    BY <1>1, <2>1, <2>3, <2>4, EnterKeeps
<1>3. CASE call[t] = NoCall /\ UNCHANGED call /\ UNCHANGED <<backend, openat2>>
  BY <1>1, <1>3, NoCalls, LookKeeps
<1> QED
  BY <1>2, <1>3 DEF read_link, Same

LEMMA LinuxReadLinkKeeps ==
    ASSUME Parameters, DirInv, NEW t \in Worker, linux_read_link(t)
    PROVE  DirInv'
<1> DEFINE c == call[t]
<1>1. c \in CallRecord /\ CallMeans(c) /\ c.op = "read_link"
  BY DEF linux_read_link, DirInv, DirType, CallsMean
<1>2. c.h = 0 /\ c.size \in Nat
  <2> HIDE DEF c
  <2> QED
    BY <1>1 DEF CallMeans, CallRecord
<1>3. UNCHANGED <<backend, openat2, node, cap, held>>
  BY DEF linux_read_link, Leave, Return, Proceed, Same
<1>4. CASE call' = [call EXCEPT ![t] = NoCall]
  BY <1>2, <1>3, <1>4, LookKeeps
<1>5. CASE call' = [call EXCEPT ![t] = [c EXCEPT !.size = c.size * 4]]
  <2> DEFINE x == [c EXCEPT !.size = c.size * 4]
  <2>1. call' = [call EXCEPT ![t] = x]
    BY <1>5
  <2>2. c.size * 4 \in Nat
    BY <1>2
  <2>3. call[t].h = 0
    BY <1>2
  <2> HIDE DEF c
  <2>4. x \in CallRecord /\ x.op = "read_link" /\ x.h = 0 /\ x.d = c.d /\ x.a = c.a
    BY <1>1, <1>2, <2>2 DEF CallRecord
  <2> HIDE DEF x
  <2>5. CallMeans(x)
    BY <1>1, <2>4 DEF CallMeans
  <2> QED
    BY <1>3, <2>1, <2>3, <2>4, <2>5, CallGoesOn
<1> QED
  BY <1>4, <1>5 DEF linux_read_link, Leave, Return, Proceed

LEMMA ReadDirKeeps ==
    ASSUME Parameters, DirInv, NEW t \in Worker, read_dir(t)
    PROVE  DirInv'
<1>1. CASE mock_read_dir(t)
  <2>1. call[t] = NoCall /\ UNCHANGED <<call, node, cap, held, backend, openat2>>
    BY <1>1 DEF mock_read_dir, Starts, Same
  <2> QED
    BY <2>1, NoCalls, LookKeeps
<1>2. CASE /\ Enter(t, [NoCall EXCEPT !.op = "read_dir", !.d = cap[t], !.start = Bound(cap[t])])
           /\ UNCHANGED <<node, cap, held>>
  <2> DEFINE d == cap[t]
             b == Bound(cap[t])
             x == [NoCall EXCEPT !.op = "read_dir", !.d = d, !.start = b]
  <2>1. Enter(t, x)
    BY <1>2
  <2>2. NoCall \in CallRecord /\ NoCall.h = 0 /\ d \in 0..MaxNodes /\ b \in SUBSET Names
    BY NoCalls DEF Parameters, DirInv, DirType, Object, Bound
  <2> HIDE DEF d, b
  <2>3. x \in CallRecord /\ x.op = "read_dir" /\ x.h = 0
    BY <2>2 DEF CallRecord
  <2> HIDE DEF x
  <2>4. CallMeans(x)
    BY <2>3 DEF CallMeans
  <2> QED
    BY <1>2, <2>1, <2>3, <2>4, EnterKeeps
<1> QED
  BY <1>1, <1>2 DEF read_dir

LEMMA ListingKeeps ==
    ASSUME Parameters, DirInv, NEW t \in Worker,
           (\E n \in Names : ReadEntry(t, n)) \/ ReadDirEnds(t)
    PROVE  DirInv'
<1> DEFINE c == call[t]
<1>1. c \in CallRecord /\ CallMeans(c) /\ c.op = "read_dir"
  BY DEF ReadEntry, ReadDirEnds, DirInv, DirType, CallsMean
<1>2. call[t].h = 0
  BY <1>1 DEF CallMeans
<1>3. UNCHANGED <<backend, openat2, node, cap, held>>
  BY DEF ReadEntry, ReadDirEnds, linux_read_dir, read_dir_entries, Leave, Return, Proceed, Same
<1>4. CASE ReadDirEnds(t)
  <2>1. call' = [call EXCEPT ![t] = NoCall]
    BY <1>4 DEF ReadDirEnds, linux_read_dir, read_dir_entries, Leave, Return, Proceed
  <2> QED
    BY <1>2, <1>3, <2>1, LookKeeps
<1>5. ASSUME NEW n \in Names, ReadEntry(t, n)
      PROVE  DirInv'
  <2> DEFINE x == [c EXCEPT !.got = c.got \union {n}]
  <2>1. call' = [call EXCEPT ![t] = x]
    BY <1>5 DEF ReadEntry, Proceed
  <2> HIDE DEF c
  <2>2. x \in CallRecord /\ x.op = "read_dir" /\ x.h = c.h
    BY <1>1 DEF CallRecord
  <2>3. c.h = 0
    BY <1>2 DEF c
  <2> HIDE DEF x
  <2>4. CallMeans(x)
    BY <2>2, <2>3 DEF CallMeans
  <2> QED
    BY <1>2, <1>3, <2>1, <2>2, <2>4, CallGoesOn
<1> QED
  BY <1>4, <1>5

LEMMA SetUnixModeKeeps ==
    ASSUME Parameters, DirInv, NEW t \in Worker, NEW n \in Names, NEW w \in BOOLEAN,
           set_unix_mode(t, n, w)
    PROVE  DirInv'
<1> DEFINE i == Followed(cap[t], n)
           ns == [node EXCEPT ![i].writable = w]
<1>1. NodesOK(node) /\ (openat2 => Vacant(node)) /\ (backend # "mock" => Kept(node))
  BY DEF DirInv, Rooted
<1>2. backend = "linux" /\ i # 0 /\ node' = ns
  BY DEF set_unix_mode, Is
<1>3. call[t] = NoCall /\ UNCHANGED <<call, backend, openat2, cap, held>>
  BY DEF set_unix_mode, Once, Starts, Same
<1>4. i \in Object
  BY <1>1, <1>2, LookupIs DEF DirInv, Inside, Working, Real
<1> HIDE DEF i
<1>5. /\ ns \in [Object -> NodeRecord]
      /\ \A j \in Object : /\ ns[j].type = node[j].type /\ ns[j].entries = node[j].entries
                           /\ ns[j].gone = node[j].gone /\ ns[j].pending = node[j].pending
  <2> DEFINE o == [node[i] EXCEPT !.writable = w]
  <2>1. node \in [Object -> NodeRecord] /\ node[i] \in NodeRecord
    BY <1>1, <1>4 DEF NodesOK
  <2>2. o \in NodeRecord /\ o.type = node[i].type /\ o.entries = node[i].entries
        /\ o.gone = node[i].gone /\ o.pending = node[i].pending
    BY <2>1 DEF NodeRecord
  <2>3. ns = [node EXCEPT ![i] = o]
    OBVIOUS
  <2> HIDE DEF o, ns
  <2> QED
    BY <1>4, <2>1, <2>2, <2>3
<1> HIDE DEF ns
<1>6. Outside \in Object
  BY DEF Object, Outside, Parameters
<1>7. NodesOK(ns) /\ (openat2 => Vacant(ns)) /\ (backend # "mock" => Kept(ns))
  <2>1. ns[Outside].type = "Dir"
    BY <1>1, <1>5, <1>6 DEF NodesOK
  <2>2. NodesOK(ns) /\ (Vacant(node) => Vacant(ns)) /\ (Kept(node) => Kept(ns))
    BY <1>1, <1>5, <2>1, SameShape
  <2> QED
    BY <1>1, <2>2
<1>8. TreeStep(t)
  BY <1>2, <1>5, <1>7, TreeUnmarked
<1> QED
  BY <1>3, <1>8, CallEnds

-----------------------------------------------------------------------------
(* The theorems                                                            *)

LEMMA DirStarts == ASSUME Parameters, DirsInit PROVE DirInv
<1>1. PICK tree \in Trees :
          node = [i \in 1..MaxNodes |->
                    IF i = Root THEN [Obj("Dir") EXCEPT !.entries = tree.entries]
                    ELSE IF i = Outside THEN Obj("Dir")
                    ELSE IF i \in DOMAIN tree.objects
                         THEN LET o == tree.objects[i] IN
                              IF o.type # "Symlink" THEN Obj(o.type)
                              ELSE LinkObj(o.target,
                                     IF backend = "windows" THEN nt_substitute_name(to_wide_nt_component(o.target)) ELSE o.target,
                                     Absolute(o.target))
                    ELSE Nothing]
  BY DEF DirsInit
<1>2. /\ tree.entries \in [Names -> {0} \cup (DOMAIN tree.objects \cap 3..MaxNodes)]
      /\ \A i \in DOMAIN tree.objects \cap 3..MaxNodes :
            /\ \E n \in Names : tree.entries[n] = i
            /\ tree.objects[i].type \in {"File", "Dir", "Symlink"}
  BY DEF Parameters
<1>3. /\ Root \in Object /\ Outside \in Object /\ Root # Outside /\ 3..MaxNodes \subseteq Object
      /\ Object = {Root, Outside} \cup 3..MaxNodes
      /\ Root \notin 3..MaxNodes /\ Outside \notin 3..MaxNodes /\ 0 \notin 3..MaxNodes
      /\ 3..MaxNodes \subseteq 0..MaxNodes /\ 0 \in 0..MaxNodes
  BY DEF Parameters, Object, Root, Outside
<1>4. node[Root] \in NodeRecord /\ node[Root].type = "Dir" /\ ~node[Root].gone
      /\ ~node[Root].pending /\ node[Root].entries = tree.entries
  <2> DEFINE o == Obj("Dir")
             e == tree.entries
  <2>1. Fresh(o) /\ o.type = "Dir"
    BY NewObjects DEF Types
  <2>2. node[Root] = [o EXCEPT !.entries = e]
    BY <1>1, <1>3 DEF Object
  <2>3. e \in [Names -> 0..MaxNodes]
    BY <1>2, <1>3
  <2> HIDE DEF o, e
  <2>4. [o EXCEPT !.entries = e] \in NodeRecord /\ [o EXCEPT !.entries = e].type = "Dir"
        /\ ~[o EXCEPT !.entries = e].gone /\ ~[o EXCEPT !.entries = e].pending
        /\ [o EXCEPT !.entries = e].entries = e
    BY <2>1, <2>3 DEF Fresh, NodeRecord
  <2> QED
    BY <2>2, <2>4 DEF e
<1>5. Fresh(node[Outside]) /\ node[Outside].type = "Dir"
  BY <1>1, <1>3, NewObjects DEF Object, Types
<1>6. ASSUME NEW i \in 3..MaxNodes
      PROVE  /\ node[i] \in NodeRecord /\ ~node[i].gone /\ ~node[i].pending
             /\ \A n \in Names : node[i].entries[n] = 0
             /\ (node[i].type # "none") <=> i \in DOMAIN tree.objects
  <2>1. CASE i \in DOMAIN tree.objects
    <3> DEFINE o == tree.objects[i]
               wire == IF backend = "windows" THEN nt_substitute_name(to_wide_nt_component(o.target))
                       ELSE o.target
               abs == Absolute(o.target)
    <3>1. node[i] = IF o.type # "Symlink" THEN Obj(o.type) ELSE LinkObj(o.target, wire, abs)
      BY <1>1, <1>3, <2>1 DEF Object
    <3>2. o.target \in Given /\ abs \in BOOLEAN
      BY <2>1 DEF Given, Absolute
    <3>3. wire \in Words
      BY <3>2, WireIs
    <3>4. o.type \in {"File", "Dir", "Symlink"}
      BY <1>2, <2>1
    <3> HIDE DEF o, wire, abs
    <3>5. Fresh(node[i])
      BY <3>1, <3>2, <3>3, <3>4, NewObjects DEF Types
    <3> QED
      BY <2>1, <3>5 DEF Fresh
  <2>2. CASE i \notin DOMAIN tree.objects
    <3>1. node[i] = Nothing
      BY <1>1, <1>3, <2>2 DEF Object
    <3> QED
      BY <2>2, <3>1, NewObjects
  <2> QED
    BY <2>1, <2>2
<1>7. node \in [Object -> NodeRecord]
  <2>1. \A i \in Object : node[i] \in NodeRecord
    BY <1>3, <1>4, <1>5, <1>6 DEF Fresh
  <2>2. DOMAIN node = Object /\ node = [i \in DOMAIN node |-> node[i]]
    BY <1>1 DEF Object
  <2> QED
    BY <2>1, <2>2
<1>8. \A i \in Object : ~node[i].pending
  BY <1>3, <1>4, <1>5, <1>6 DEF Fresh
<1>9. NodesOK(node) /\ Vacant(node)
  <2>1. \A d \in Object, n \in Names :
            node[d].entries[n] = 0 \/ (d = Root /\ node[d].entries[n] = tree.entries[n])
    BY <1>3, <1>4, <1>5, <1>6 DEF Fresh
  <2>2. \A n \in Names : /\ tree.entries[n] # Outside
                         /\ tree.entries[n] # 0 => tree.entries[n] \in DOMAIN tree.objects \cap 3..MaxNodes
    BY <1>2, <1>3 DEF Outside
  <2>3. \A d \in Object, n \in Names : node[d].entries[n] # Outside
    BY <2>1, <2>2 DEF Outside
  <2>4. ASSUME NEW d \in Object, NEW n \in Names, NEW i \in Object, node[d].entries[n] = i
        PROVE  node[i].type # "none"
    <3>1. i # 0
      BY DEF Object
    <3>2. i \in DOMAIN tree.objects \cap 3..MaxNodes
      BY <2>1, <2>2, <2>4, <3>1
    <3> QED
      BY <1>6, <3>2
  <2>5. \A d \in Object : node[d].type = "none" => \A n \in Names : node[d].entries[n] = 0
    BY <1>4, <2>1
  <2> QED
    BY <1>3, <1>5, <1>7, <2>1, <2>3, <2>4, <2>5 DEF NodesOK, Vacant
<1>10. Kept(node)
  <2> SUFFICES ASSUME NEW i \in 3..MaxNodes, node[i].type # "none"
              PROVE  \E d \in Object, n \in Names : node[d].entries[n] = i
    BY DEF Kept
  <2>1. PICK n \in Names : tree.entries[n] = i
    BY <1>2, <1>6
  <2> QED
    BY <1>3, <1>4, <2>1
<1>11. DirType
  <2>1. /\ backend \in {"linux", "trackp", "windows", "mock"} /\ openat2 \in BOOLEAN
        /\ backend \in {"windows", "mock"} => openat2
    BY DEF DirsInit, Parameters
  <2>2. cap \in [Worker -> Object] /\ held \in [Worker -> 0..MaxNodes]
    BY <1>3 DEF DirsInit
  <2>3. call \in [Worker -> CallRecord]
    BY NoCalls DEF DirsInit
  <2> QED
    BY <2>1, <2>2, <2>3 DEF DirType
<1>12. Inside
  BY <1>3, <1>4 DEF Inside, Working, DirsInit
<1>13. CallsMean
  BY DEF DirsInit, CallsMean, CallMeans, NoCall
<1> QED
  BY <1>8, <1>9, <1>10, <1>11, <1>12, <1>13 DEF DirInv, Rooted, MarksAreNts, DeletesComplete, Object

LEMMA DirPersists == ASSUME Parameters, DirInv, [DirsNext]_dvars PROVE DirInv'
<1>1. CASE UNCHANGED dvars
  <2>1. UNCHANGED <<backend, openat2, node, cap, held, call>>
    BY <1>1 DEF dvars
  <2> QED
    BY <2>1 DEF DirInv, DirType, Rooted, Inside, Working, CallsMean, CallMeans, Linux, Real,
                MarksAreNts, DeletesComplete, Holders
<1>2. ASSUME NEW t \in Worker,
             \/ \E n \in Names, o \in Options : open(t, n, o)
             \/ drop_file(t) \/ open_ambient(t) \/ mock_insert(t)
             \/ \E p \in Paths : open_dir(t, p) \/ create_dir(t, p)
             \/ mkdirat_leaf(t) \/ mkdirat_fails(t)
      PROVE  DirInv'
  BY <1>2, OpenKeeps, DropKeeps, OpenAmbientKeeps, MockInsertKeeps, OpenDirKeeps, CreateDirKeeps,
     MkdiratLeafKeeps
<1>3. ASSUME NEW t \in Worker, NEW n \in Names,
             \/ remove_file(t, n) \/ remove_dir(t, n) \/ read_link(t, n) \/ ReadEntry(t, n)
             \/ \E w \in BOOLEAN : set_unix_mode(t, n, w)
      PROVE  DirInv'
  BY <1>3, RemoveKeeps, ReadLinkKeeps, ListingKeeps, SetUnixModeKeeps DEF remove_file, remove_dir
<1>4. ASSUME NEW t \in Worker,
             \/ mark_delete(t) \/ NtRename(t)
             \/ \E from, to \in Names : rename(t, from, to) \/ rename_no_replace(t, from, to)
             \/ \E target \in Targets, n \in Names : symlink(t, target, n)
             \/ SymlinkCreate(t) \/ SymlinkReparse(t) \/ linux_read_link(t)
      PROVE  DirInv'
  BY <1>4, MarkDeleteKeeps, NtRenameKeeps, RenameKeeps, SymlinkKeeps, SymlinkCreateKeeps,
     SymlinkReparseKeeps, LinuxReadLinkKeeps DEF rename, rename_no_replace
<1>5. ASSUME NEW t \in Worker, read_dir(t) \/ ReadDirEnds(t)
      PROVE  DirInv'
  BY <1>5, ReadDirKeeps, ListingKeeps
<1> QED
  BY <1>1, <1>2, <1>3, <1>4, <1>5 DEF DirsNext

\* The constants are what the proofs need.
LEMMA Dimensions == Parameters
BY DirectoryAssumption DEF LookParameters

\* The invariant holds in every state of every behaviour.
LEMMA DirInvariance == DirsSpec => []DirInv
<1> USE Dimensions
<1>1. DirsInit => DirInv
  BY DirStarts
<1>2. DirInv /\ [DirsNext]_dvars => DirInv'
  BY DirPersists
<1> QED
  BY <1>1, <1>2, PTL DEF DirsSpec

\* open_dir and create_dir never leave the tree through a link, for whatever
\* threads that swap links, names and directories meanwhile: with openat2, on
\* Windows and in the mock no capability is for the outside, the parent that
\* create_dir holds between its two calls is not the outside, and no directory
\* is made there.
THEOREM DirectoriesStayInside == DirsSpec => []Confined
<1> USE Dimensions
<1>1. DirInv => Confined
  <2> SUFFICES ASSUME DirInv, openat2
              PROVE  /\ \A t \in Worker : /\ cap[t] # Outside
                                          /\ call[t].op = "create_dir" => call[t].h # Outside
                     /\ \A n \in Names : ~Is(node[Outside].entries[n], "Dir")
    BY DEF Confined
  <2>1. \A t \in Worker : cap[t] # Outside
    BY DEF DirInv, Inside, Working
  <2>2. \A t \in Worker : call[t].op = "create_dir" => call[t].h # Outside
    BY DEF DirInv, CallsMean, CallMeans, Working
  <2>3. \A n \in Names : ~Is(node[Outside].entries[n], "Dir")
    BY DEF DirInv, Rooted, Vacant, Is
  <2> QED
    BY <2>1, <2>2, <2>3
<1> QED
  BY <1>1, DirInvariance, PTL

\* No object loses its name but by a removal or by a rename that was asked to
\* replace it (the mock excepted), and what Windows marked for deletion has a
\* name only while somebody holds a handle on it, in whatever order the steps
\* of create_dir, remove, rename, symlink and of dropped handles run.
THEOREM NamesAreAlwaysKept == DirsSpec => []NamesAreKept
<1> USE Dimensions
<1>1. DirInv => NamesAreKept
  <2>1. (Outside + 1)..MaxNodes = 3..MaxNodes /\ Object = 1..MaxNodes
    BY DEF Outside, Object
  <2> QED
    BY <2>1 DEF DirInv, Rooted, Kept, NamesAreKept, NothingVanishes
<1> QED
  BY <1>1, DirInvariance, PTL

-----------------------------------------------------------------------------
(* Lookups: links keep the targets they were given, only the libc backend   *)
(* changes a mode, and an answer is of what the call saw                    *)

LinksOK(ns) ==
    \A i \in Object : /\ ns[i].type = "Symlink" => ns[i].target \in Targets
                      /\ backend # "linux" => ns[i].writable

TargetsOK == \A t \in Worker : call[t].op = "symlink" => call[t].target \in Targets

GoodAnswer(a) ==
    /\ a.op = "read_dir" /\ ~a.failed => a.missed = {}
    /\ a.op = "read_link" => a.target \in Targets

AnswersOK ==
    answer = [t \in Worker |-> answer[t]] /\ \A t \in Worker : GoodAnswer(answer[t])

LookInv == LinksOK(node) /\ TargetsOK /\ AnswersOK

\* The parts of an object that links and modes are about.
Alike(ns, ms) ==
    \A j \in Object : /\ ms[j].type = ns[j].type /\ ms[j].target = ns[j].target
                      /\ ms[j].writable = ns[j].writable

LEMMA AlikeLinks ==
    ASSUME NEW ns, NEW ms, LinksOK(ns), Alike(ns, ms)
    PROVE  LinksOK(ms)
BY DEF LinksOK, Alike

LEMMA UnlinkedAlike ==
    ASSUME NEW ns \in [Object -> NodeRecord], NEW i PROVE Alike(ns, Unlinked(ns, i))
<1> SUFFICES ASSUME NEW j \in Object
            PROVE  /\ Unlinked(ns, i)[j].type = ns[j].type
                   /\ Unlinked(ns, i)[j].target = ns[j].target
                   /\ Unlinked(ns, i)[j].writable = ns[j].writable
  BY DEF Alike
<1>1. ns[j] \in NodeRecord /\ DOMAIN ns = Object
  OBVIOUS
<1> QED
  BY <1>1 DEF Unlinked, NodeRecord

LEMMA ClosedAlike ==
    ASSUME NEW ns \in [Object -> NodeRecord], NEW i, NEW t PROVE Alike(ns, Closed(ns, i, t))
BY UnlinkedAlike DEF Closed, Alike

LEMMA MovedAlike ==
    ASSUME Parameters, NodesOK(node), NEW i \in Object, NEW d \in Object, NEW to \in Names,
           NEW asked \in BOOLEAN
    PROVE  Alike(node, Moved(i, d, to, asked))
<1> DEFINE names(j) == [n \in Names |-> IF node[j].entries[n] = i THEN 0 ELSE node[j].entries[n]]
           cut == [k \in DOMAIN node |-> [node[k] EXCEPT !.entries = names(k)]]
           r == node[d].entries[to]
           at == IF r = 0 THEN i ELSE r
           nd == [cut[d] EXCEPT !.entries = [cut[d].entries EXCEPT ![to] = i]]
           mid == [cut EXCEPT ![d] = nd]
           g == r \notin {0, i} /\ asked
           na == [mid[at] EXCEPT !.gone = g]
<1>1. node \in [Object -> NodeRecord] /\ DOMAIN node = Object /\ at \in Object
  BY DEF NodesOK, NodeRecord, Object, Parameters
<1>2. Moved(i, d, to, asked) = [mid EXCEPT ![at] = na]
  BY <1>1 DEF Moved
<1> HIDE DEF names, r, g, at
<1>3. /\ DOMAIN cut = Object
      /\ \A j \in Object : /\ DOMAIN cut[j] = DOMAIN node[j] /\ cut[j].type = node[j].type
                           /\ cut[j].target = node[j].target /\ cut[j].writable = node[j].writable
  BY <1>1 DEF NodeRecord
<1>4. \A j \in Object : DOMAIN node[j] = {"type", "entries", "target", "wire", "dirlink",
                                          "writable", "pending", "gone"}
  BY <1>1 DEF NodeRecord
<1> HIDE DEF cut
<1>5. /\ nd.type = cut[d].type /\ nd.target = cut[d].target /\ nd.writable = cut[d].writable
      /\ DOMAIN nd = DOMAIN cut[d]
  BY <1>3, <1>4
<1> HIDE DEF nd
<1>6. /\ DOMAIN mid = Object
      /\ \A j \in Object : /\ DOMAIN mid[j] = DOMAIN node[j] /\ mid[j].type = node[j].type
                           /\ mid[j].target = node[j].target /\ mid[j].writable = node[j].writable
  BY <1>3, <1>5
<1> HIDE DEF mid
<1>7. na.type = mid[at].type /\ na.target = mid[at].target /\ na.writable = mid[at].writable
  BY <1>1, <1>4, <1>6
<1> HIDE DEF na
<1>8. \A j \in Object : [mid EXCEPT ![at] = na][j] = IF j = at THEN na ELSE mid[j]
  BY <1>6
<1> QED
  BY <1>1, <1>2, <1>6, <1>7, <1>8 DEF Alike

LEMMA PlacedLinks ==
    ASSUME Parameters, NodesOK(node), LinksOK(node), NEW k \in Object, NEW d \in Object,
           NEW n \in Names, NEW o \in NodeRecord, o.type = "Symlink" => o.target \in Targets,
           o.writable
    PROVE  LinksOK([node EXCEPT ![k] = o, ![d].entries[n] = k])
<1> DEFINE mid == [node EXCEPT ![k] = o]
           nd == [mid[d] EXCEPT !.entries = [mid[d].entries EXCEPT ![n] = k]]
           ms == [mid EXCEPT ![d] = nd]
<1>1. mid \in [Object -> NodeRecord] /\ \A j \in Object : mid[j] = IF j = k THEN o ELSE node[j]
  BY DEF NodesOK
<1>2. LinksOK(mid)
  BY <1>1 DEF LinksOK
<1>3. ms = [node EXCEPT ![k] = o, ![d].entries[n] = k]
  BY <1>1
<1> HIDE DEF mid
<1>4. nd.type = mid[d].type /\ nd.target = mid[d].target /\ nd.writable = mid[d].writable
  <2>1. mid[d] \in NodeRecord
    BY <1>1
  <2> QED
    BY <2>1 DEF NodeRecord
<1> HIDE DEF nd
<1>5. \A j \in Object : ms[j] = IF j = d THEN nd ELSE mid[j]
  BY <1>1
<1>6. Alike(mid, ms)
  BY <1>4, <1>5 DEF Alike
<1> HIDE DEF ms
<1> QED
  BY <1>2, <1>3, <1>6, AlikeLinks

LEMMA ObjectsLink ==
    ASSUME Parameters
    PROVE  /\ \A type \in Types : Obj(type).writable /\ Obj(type).type = type
           /\ \A target \in Given, wire \in Words, flag \in BOOLEAN :
                  /\ LinkObj(target, wire, flag).writable
                  /\ LinkObj(target, wire, flag).target = target
BY DEF Obj, LinkObj, Nothing

\* What the calls do to the tree, as far as links and modes are concerned.
LEMMA OpensLink ==
    ASSUME Parameters, DirInv, LinksOK(node), NEW t \in Worker,
           \/ \E n \in Names, o \in Options : open(t, n, o)
           \/ drop_file(t) \/ open_ambient(t) \/ mock_insert(t)
           \/ \E p \in Paths : open_dir(t, p) \/ create_dir(t, p)
           \/ mkdirat_leaf(t) \/ mkdirat_fails(t)
    PROVE  LinksOK(node')
<1> DEFINE Plain == {Obj("File"), Obj("Dir")}
<1>1. NodesOK(node) /\ node \in [Object -> NodeRecord]
  BY DEF DirInv, Rooted, NodesOK
<1>2. ASSUME NEW d \in Object, NEW n \in Names, NEW k \in 1..MaxNodes, NEW o \in Plain,
             node' = [node EXCEPT ![k] = o, ![d].entries[n] = k]
      PROVE  LinksOK(node')
  <2>1. o \in NodeRecord /\ o.type # "Symlink" /\ o.writable
    BY NewObjects, ObjectsLink DEF Types, Fresh
  <2>2. k \in Object
    BY DEF Object
  <2> HIDE DEF Plain
  <2> QED
    BY <1>1, <1>2, <2>1, <2>2, PlacedLinks
<1>3. ASSUME NEW loc, loc.dir # Top => loc.dir \in Object /\ loc.name \in Names,
             NEW k \in 1..MaxNodes, NEW o \in Plain, Make(loc, k, o)
      PROVE  LinksOK(node')
  <2>1. loc.dir \in Object /\ loc.name \in Names
    BY <1>3 DEF Make
  <2>2. node' = [node EXCEPT ![k] = o, ![loc.dir].entries[loc.name] = k]
    BY <1>3 DEF Make
  <2> QED
    BY <1>2, <2>1, <2>2
<1>4. Obj("File") \in Plain /\ Obj("Dir") \in Plain
  OBVIOUS
<1> HIDE DEF Plain
<1>5. ASSUME NEW d, Working(d), NEW n \in Names, mkdirat(d, n)
      PROVE  LinksOK(node')
  <2>1. PICK k \in 1..MaxNodes : Make([dir |-> d, name |-> n], k, Obj("Dir"))
    BY <1>5 DEF mkdirat
  <2> DEFINE loc == [dir |-> d, name |-> n]
  <2>2. Make(loc, k, Obj("Dir")) /\ loc.dir \in Object /\ loc.name \in Names
    BY <1>5, <2>1 DEF Working
  <2> HIDE DEF loc
  <2> QED
    BY <1>3, <1>4, <2>2
<1>6. Working(cap[t]) /\ cap[t] \in Object
  BY DEF DirInv, Inside, Working
<1>7. CASE UNCHANGED node
  BY <1>7
<1>8. CASE \E i : node' = Closed(node, i, t)
  <2>1. PICK i : node' = Closed(node, i, t)
    BY <1>8
  <2> QED
    BY <1>1, <2>1, ClosedAlike, AlikeLinks
<1>9. ASSUME NEW n \in Names, NEW o \in Options, open(t, n, o)
      PROVE  LinksOK(node')
  <2> DEFINE here == [dir |-> cap[t], name |-> n]
             Ok(loc) == loc.dir # Top => loc.dir \in Object /\ loc.name \in Names
  <2>1. Ok(here) /\ Ok(Final(here))
    BY <1>6, FinalIs
  <2>2. UNCHANGED node
        \/ \E k \in 1..MaxNodes : Make(here, k, Obj("File")) \/ Make(Final(here), k, Obj("File"))
    BY <1>9 DEF open, openat, windows_open, mock_open
  <2> HIDE DEF here
  <2> QED
    BY <1>3, <1>4, <1>7, <2>1, <2>2
<1>10. ASSUME mock_insert(t)
       PROVE  LinksOK(node')
  <2> DEFINE d == call[t].h
             n == call[t].a
  <2>1. d \in Object /\ n \in Names
    BY <1>10 DEF mock_insert, DirInv, CallsMean, CallMeans, Working
  <2>2. PICK k \in 1..MaxNodes : node' = [node EXCEPT ![k] = Obj("File"), ![d].entries[n] = k]
    BY <1>10 DEF mock_insert
  <2> HIDE DEF d, n
  <2> QED
    BY <1>2, <1>4, <2>1, <2>2
<1>11. ASSUME NEW p \in Paths, create_dir(t, p)
       PROVE  LinksOK(node')
  <2>1. p \in Seq(Names) /\ Len(p) \in {1, 2}
    BY DEF Parameters
  <2>2. p[1] \in Names /\ p[Len(p)] \in Names
    BY <2>1
  <2>3. CASE Linux /\ linux_create_dir(t, p)
    BY <1>5, <1>6, <1>7, <2>2, <2>3 DEF linux_create_dir
  <2>4. CASE backend = "windows" /\ windows_create_dir(t, p)
    <3> DEFINE d == IF Len(p) = 1 THEN cap[t]
                    ELSE open_relative_r2(cap[t], p[1], {"DIRECTORY_FILE"})
    <3>1. d # 0 /\ mkdirat(d, p[Len(p)])
      BY <2>4 DEF windows_create_dir
    <3>2. <<p[1]>> \in Seq(Names) /\ Len(<<p[1]>>) = 1 /\ Head(<<p[1]>>) = p[1]
      BY <2>2
    <3>3. windows_open_dir(cap[t], <<p[1]>>) = open_relative_r2(cap[t], p[1], {"DIRECTORY_FILE"})
      BY <3>2 DEF windows_open_dir
    <3>4. Working(d)
      BY <1>6, <3>1, <3>2, <3>3, OpenDirIs
    <3> HIDE DEF d
    <3> QED
      BY <1>5, <2>2, <3>1, <3>4
  <2>5. CASE backend = "mock" /\ mock_create_dir(t, p)
    <3>1. PICK k \in 1..MaxNodes :
              node' = [node EXCEPT ![k] = Obj("Dir"), ![cap[t]].entries[p[1]] = k]
      BY <2>5 DEF mock_create_dir
    <3> QED
      BY <1>2, <1>4, <1>6, <2>2, <3>1
  <2> QED
    BY <1>11, <2>3, <2>4, <2>5 DEF create_dir
<1>12. ASSUME mkdirat_leaf(t)
       PROVE  LinksOK(node')
  <2>1. Working(call[t].h) /\ call[t].a \in Names /\ mkdirat(call[t].h, call[t].a)
    BY <1>12 DEF mkdirat_leaf, DirInv, CallsMean, CallMeans
  <2> QED
    BY <1>5, <2>1
<1> QED
  BY <1>7, <1>8, <1>9, <1>10, <1>11, <1>12 DEF drop_file, open_ambient, open_dir, mkdirat_fails

LEMMA RemovesLink ==
    ASSUME Parameters, DirInv, LinksOK(node), NEW t \in Worker,
           \/ \E n \in Names : remove_file(t, n) \/ remove_dir(t, n)
           \/ \E n \in Names, w \in BOOLEAN : set_unix_mode(t, n, w)
           \/ mark_delete(t)
    PROVE  LinksOK(node')
<1>1. NodesOK(node) /\ node \in [Object -> NodeRecord]
  BY DEF DirInv, Rooted, NodesOK
<1>2. CASE \E n \in Names : remove_file(t, n) \/ remove_dir(t, n)
  <2>1. UNCHANGED node \/ \E i : node' = Unlinked(node, i)
    BY <1>2 DEF remove_file, remove_dir, RemoveEntry, unlinkat, mock_remove, windows_remove
  <2> QED
    BY <1>1, <2>1, UnlinkedAlike, AlikeLinks
<1>3. ASSUME NEW n \in Names, NEW w \in BOOLEAN, set_unix_mode(t, n, w)
      PROVE  LinksOK(node')
  <2> DEFINE i == Followed(cap[t], n)
             o == [node[i] EXCEPT !.writable = w]
  <2>1. backend = "linux" /\ i # 0 /\ node' = [node EXCEPT ![i] = o]
    BY <1>3 DEF set_unix_mode, Is
  <2>2. i \in Object
    BY <1>1, <2>1, LookupIs DEF DirInv, Inside, Working, Real
  <2> HIDE DEF i
  <2>3. node[i] \in NodeRecord
    BY <1>1, <2>2
  <2>4. o.type = node[i].type /\ o.target = node[i].target
    BY <2>3 DEF NodeRecord
  <2> HIDE DEF o
  <2> QED
    BY <1>1, <2>1, <2>2, <2>4 DEF LinksOK
<1>4. ASSUME mark_delete(t)
      PROVE  LinksOK(node')
  <2> DEFINE i == call[t].h
             o == [node[i] EXCEPT !.pending = TRUE]
             marked == [node EXCEPT ![i] = o]
  <2>1. i \in Object /\ node[i] \in NodeRecord
    BY <1>1, <1>4 DEF mark_delete, DirInv, CallsMean, CallMeans, Real
  <2>2. node' = Closed(node, i, t) \/ node' = Closed(marked, i, t)
    BY <1>4 DEF mark_delete
  <2> HIDE DEF i
  <2>3. o \in NodeRecord /\ o.type = node[i].type /\ o.target = node[i].target
        /\ o.writable = node[i].writable
    BY <2>1 DEF NodeRecord
  <2> HIDE DEF o
  <2>4. marked \in [Object -> NodeRecord] /\ Alike(node, marked)
    BY <1>1, <2>1, <2>3 DEF Alike
  <2> HIDE DEF marked
  <2>5. LinksOK(marked)
    BY <2>4, AlikeLinks
  <2> QED
    BY <1>1, <2>2, <2>4, <2>5, ClosedAlike, AlikeLinks
<1> QED
  BY <1>2, <1>3, <1>4

LEMMA RenamesLink ==
    ASSUME Parameters, DirInv, LinksOK(node), NEW t \in Worker,
           \/ NtRename(t)
           \/ \E from, to \in Names : rename(t, from, to) \/ rename_no_replace(t, from, to)
    PROVE  LinksOK(node')
<1>1. NodesOK(node) /\ node \in [Object -> NodeRecord]
  BY DEF DirInv, Rooted, NodesOK
<1>2. ASSUME NEW i \in Object, NEW d \in Object, NEW to \in Names, NEW asked \in BOOLEAN,
             node' = Moved(i, d, to, asked)
      PROVE  LinksOK(node')
  BY <1>1, <1>2, MovedAlike, AlikeLinks
<1>3. ASSUME NEW from \in Names, NEW to \in Names, NEW replace \in BOOLEAN,
             RenameEntry(t, from, to, replace)
      PROVE  LinksOK(node')
  <2> DEFINE d == cap[t]
             i == Entry(d, from)
  <2>1. UNCHANGED node \/ (i # 0 /\ node' = Moved(i, d, to, replace))
    BY <1>3 DEF RenameEntry, linux_rename, renameat2_raw, mock_rename_impl, windows_rename
  <2>2. d \in Object /\ Real(d)
    BY DEF DirInv, Inside, Working, Real
  <2>3. i # 0 => i \in Object
    BY <1>1, <2>2, EntryIs
  <2> HIDE DEF i, d
  <2> QED
    BY <1>2, <2>1, <2>2, <2>3
<1>4. ASSUME NtRename(t)
      PROVE  LinksOK(node')
  <2> DEFINE c == call[t]
  <2>1. node' = Moved(c.h, c.d, c.b, c.flag) \/ node' = Closed(node, c.h, t)
    BY <1>4 DEF NtRename
  <2>2. c \in CallRecord /\ CallMeans(c) /\ c.op = "rename"
    BY <1>4 DEF NtRename, DirInv, DirType, CallsMean
  <2> HIDE DEF c
  <2>3. c.h \in Object /\ c.d \in Object /\ c.b \in Names /\ c.flag \in BOOLEAN
    BY <2>2 DEF CallMeans, CallRecord, Real, Working
  <2> QED
    BY <1>1, <1>2, <2>1, <2>3, ClosedAlike, AlikeLinks
<1> QED
  BY <1>3, <1>4 DEF rename, rename_no_replace

LEMMA SymlinksLink ==
    ASSUME Parameters, DirInv, LinksOK(node), TargetsOK, NEW t \in Worker,
           \/ \E target \in Targets, n \in Names : symlink(t, target, n)
           \/ SymlinkCreate(t) \/ SymlinkReparse(t)
    PROVE  LinksOK(node')
<1>1. NodesOK(node) /\ node \in [Object -> NodeRecord]
  BY DEF DirInv, Rooted, NodesOK
<1>2. ASSUME NEW target \in Targets, NEW n \in Names, symlink(t, target, n)
      PROVE  LinksOK(node')
  <2> DEFINE o == LinkObj(target, target, FALSE)
             d == cap[t]
  <2>1. target \in Given /\ target \in Words
    BY WireIs DEF Given
  <2>2. o \in NodeRecord /\ o.target = target /\ o.writable
    BY <2>1, NewObjects, ObjectsLink DEF Fresh
  <2>3. d \in Object
    BY DEF DirInv, Inside, Working
  <2>4. UNCHANGED node
        \/ \E k \in 1..MaxNodes : node' = [node EXCEPT ![k] = o, ![d].entries[n] = k]
    BY <1>2 DEF symlink, symlinkat, mock_symlink, windows_symlink, Make
  <2> HIDE DEF o, d
  <2> QED
    BY <1>1, <2>2, <2>3, <2>4, PlacedLinks DEF Object
<1>3. ASSUME SymlinkCreate(t)
      PROVE  LinksOK(node')
  <2> DEFINE c == call[t]
             d == c.d
             n == c.a
             o == Obj(IF c.flag THEN "Dir" ELSE "File")
  <2>1. o \in NodeRecord /\ o.type # "Symlink" /\ o.writable
    BY NewObjects, ObjectsLink DEF Types, Fresh
  <2>2. d \in Object /\ n \in Names
    BY <1>3 DEF SymlinkCreate, DirInv, CallsMean, CallMeans, Working
  <2>3. UNCHANGED node
        \/ \E k \in 1..MaxNodes : node' = [node EXCEPT ![k] = o, ![d].entries[n] = k]
    BY <1>3 DEF SymlinkCreate, Make
  <2> HIDE DEF o, c, d, n
  <2> QED
    BY <1>1, <2>1, <2>2, <2>3, PlacedLinks DEF Object
<1>4. ASSUME SymlinkReparse(t)
      PROVE  LinksOK(node')
  <2> DEFINE c == call[t]
             i == c.h
             link == LinkObj(c.target, nt_substitute_name(to_wide_nt_component(c.target)), c.flag)
             o == [link EXCEPT !.pending = node[i].pending]
             ns == [node EXCEPT ![i] = o]
  <2>1. node' = Closed(node, i, t) \/ node' = Closed(ns, i, t)
    BY <1>4 DEF SymlinkReparse
  <2>2. c \in CallRecord /\ CallMeans(c) /\ c.op = "symlink" /\ c.stage # "create"
    BY <1>4 DEF SymlinkReparse, DirInv, DirType, CallsMean
  <2>3. c.target \in Targets
    BY <2>2 DEF TargetsOK
  <2> HIDE DEF c
  <2>4. i \in Object /\ c.flag \in BOOLEAN /\ c.target \in Given
    BY <2>2 DEF CallMeans, Working, CallRecord
  <2>5. link \in NodeRecord /\ link.target = c.target /\ link.writable
    BY <2>4, WireIs, NewObjects, ObjectsLink DEF Fresh
  <2>6. node[i] \in NodeRecord
    BY <1>1, <2>4
  <2> HIDE DEF link, i
  <2>7. o \in NodeRecord /\ o.target = link.target /\ o.writable
    BY <2>5, <2>6 DEF NodeRecord
  <2> HIDE DEF o
  <2>8. ns \in [Object -> NodeRecord] /\ LinksOK(ns)
    BY <1>1, <2>3, <2>4, <2>5, <2>7 DEF LinksOK
  <2> HIDE DEF ns
  <2> QED
    BY <1>1, <2>1, <2>8, ClosedAlike, AlikeLinks
<1> QED
  BY <1>2, <1>3, <1>4

\* What a call in progress is about, and what it answers.
LEMMA CallStep ==
    ASSUME Parameters, DirInv, TargetsOK, NEW t \in Worker, NEW x, call' = [call EXCEPT ![t] = x],
           x.op = "symlink" => x.target \in Targets
    PROVE  TargetsOK'
BY DEF TargetsOK, DirInv, DirType

LEMMA AnswerStep ==
    ASSUME AnswersOK, NEW t \in Worker, NEW a, answer' = [answer EXCEPT ![t] = a], GoodAnswer(a)
    PROVE  AnswersOK'
<1> DEFINE old == answer
<1>1. old = [u \in Worker |-> old[u]] /\ \A u \in Worker : GoodAnswer(old[u])
  BY DEF AnswersOK
<1>2. answer' = [old EXCEPT ![t] = a]
  OBVIOUS
<1>3. \A u \in Worker : answer'[u] = IF u = t THEN a ELSE old[u]
  BY <1>1, <1>2
<1>4. answer' = [u \in Worker |-> answer'[u]]
  BY <1>1, <1>2
<1> HIDE DEF old
<1>5. \A u \in Worker : GoodAnswer(answer'[u])
  BY <1>1, <1>3
<1>6. \A u \in Worker : GoodAnswer(answer[u])'
  BY <1>5 DEF GoodAnswer
<1> QED
  BY <1>4, <1>6 DEF AnswersOK

LEMMA GoodAnswers ==
    /\ GoodAnswer(NoAnswer)
    /\ \A target \in Targets : GoodAnswer(LinkAnswer(target))
BY DEF GoodAnswer, NoAnswer, LinkAnswer

\* Every whole call, and every one that begins, first has no answer.
LEMMA StartsAnswer ==
    ASSUME AnswersOK, NEW t \in Worker, Starts(t) \/ UNCHANGED answer
    PROVE  AnswersOK'
<1>1. CASE Starts(t)
  BY <1>1, AnswerStep, GoodAnswers DEF Starts
<1>2. CASE UNCHANGED answer
  BY <1>2 DEF AnswersOK, GoodAnswer
<1> QED
  BY <1>1, <1>2

\* The calls that answer.
LEMMA ReadLinkAnswers ==
    ASSUME Parameters, DirInv, LinksOK(node), AnswersOK, NEW t \in Worker, NEW n \in Names,
           read_link(t, n)
    PROVE  AnswersOK'
<1> DEFINE r == IF backend = "windows" THEN windows_read_link(cap[t], n) ELSE mock_read_link(cap[t], n)
<1>1. Starts(t) \/ (r # <<>> /\ answer' = [answer EXCEPT ![t] = LinkAnswer(r[1])])
  BY DEF read_link, Enter
<1>2. CASE Starts(t)
  BY <1>2, StartsAnswer
<1>3. CASE r # <<>> /\ answer' = [answer EXCEPT ![t] = LinkAnswer(r[1])]
  <2>1. NodesOK(node) /\ Real(cap[t])
    BY DEF DirInv, Rooted, Inside, Working, Real
  <2>2. ASSUME NEW i, i # 0 => Real(i), Is(i, "Symlink")
        PROVE  node[i].target \in Targets
    BY <2>2 DEF Is, Real, LinksOK
  <2>3. r[1] \in Targets
    <3> DEFINE i == open_relative(cap[t], n, {"OPEN_REPARSE_POINT"})
               e == Entry(cap[t], n)
    <3>1. (i # 0 => Real(i)) /\ (e # 0 => Real(e))
      BY <2>1, NtOpenIs, LookupIs DEF open_relative
    <3>2. \E j \in {i, e} : Is(j, "Symlink") /\ r = <<node[j].target>>
      BY <1>3 DEF windows_read_link, mock_read_link
    <3> HIDE DEF i, e, r
    <3> QED
      BY <2>2, <3>1, <3>2
  <2> HIDE DEF r
  <2> QED
    BY <1>3, <2>3, AnswerStep, GoodAnswers
<1> QED
  BY <1>1, <1>2, <1>3

LEMMA LinuxReadLinkAnswers ==
    ASSUME Parameters, DirInv, LinksOK(node), AnswersOK, NEW t \in Worker,
           linux_read_link(t), call[t].d \in Object, call[t].a \in Names
    PROVE  AnswersOK'
<1> DEFINE i == Entry(call[t].d, call[t].a)
<1>1. UNCHANGED answer
      \/ (Is(i, "Symlink") /\ answer' = [answer EXCEPT ![t] = LinkAnswer(node[i].target)])
  BY DEF linux_read_link, Leave, Proceed, Return
<1>2. NodesOK(node)
  BY DEF DirInv, Rooted
<1>3. i # 0 => i \in Object
  BY <1>2, EntryIs
<1> HIDE DEF i
<1>4. Is(i, "Symlink") => node[i].target \in Targets
  BY <1>3 DEF Is, LinksOK
<1> QED
  BY <1>1, <1>4, StartsAnswer, AnswerStep, GoodAnswers

LEMMA ReadDirAnswers ==
    ASSUME AnswersOK, NEW t \in Worker, ReadDirEnds(t)
    PROVE  AnswersOK'
<1> DEFINE got == call[t].got
<1>1. AllSeen(t) => GoodAnswer(Listing(t, got, FALSE))
  <2>1. AllSeen(t) => (Bound(call[t].d) \intersect call[t].start) \ got = {}
    BY DEF AllSeen, Enumerated
  <2> QED
    BY <2>1 DEF GoodAnswer, Listing, NoAnswer
<1>2. GoodAnswer(Listing(t, got, TRUE))
  BY DEF GoodAnswer, Listing, NoAnswer
<1>3. UNCHANGED answer
      \/ (AllSeen(t) /\ answer' = [answer EXCEPT ![t] = Listing(t, got, FALSE)])
      \/ answer' = [answer EXCEPT ![t] = Listing(t, got, TRUE)]
  BY DEF ReadDirEnds, linux_read_dir, read_dir_entries, Leave, Proceed, Return
<1> QED
  BY <1>1, <1>2, <1>3, StartsAnswer, AnswerStep

LEMMA NtRenameAnswers ==
    ASSUME AnswersOK, NEW t \in Worker, NtRename(t)
    PROVE  AnswersOK'
<1>1. UNCHANGED answer
      \/ \E d, from, to, was : answer' = [answer EXCEPT ![t] = RenameAnswer(d, from, to, was)]
  BY DEF NtRename, Leave, Proceed, Return
<1>2. \A d, from, to, was : GoodAnswer(RenameAnswer(d, from, to, was))
  BY DEF GoodAnswer, RenameAnswer, NoAnswer
<1> QED
  BY <1>1, <1>2, StartsAnswer, AnswerStep

LEMMA TargetsPersist ==
    ASSUME Parameters, DirInv, TargetsOK, DirsNext
    PROVE  TargetsOK' /\ UNCHANGED backend
<1> DEFINE Kind(x) == x.op = "symlink" => x.target \in Targets
           Fine(t) == UNCHANGED call \/ \E x : call' = [call EXCEPT ![t] = x] /\ Kind(x)
           Fields(x) == DOMAIN x = {"op", "stage", "d", "h", "a", "b", "flag", "target", "size",
                                    "start", "got"}
<1>1. NoCall.op = "none" /\ Kind(NoCall) /\ Fields(NoCall)
  BY DEF NoCall
<1>2. ASSUME NEW t \in Worker, Once(t) PROVE Fine(t) /\ UNCHANGED backend
  BY <1>2 DEF Once, Same
<1>3. ASSUME NEW t \in Worker, Leave(t) \/ \E r : Return(t, r) PROVE Fine(t) /\ UNCHANGED backend
  BY <1>1, <1>3 DEF Leave, Return, Proceed, Same
<1>4. ASSUME NEW t \in Worker, NEW x, Enter(t, x) \/ Proceed(t, x), Kind(x)
      PROVE  Fine(t) /\ UNCHANGED backend
  BY <1>4 DEF Enter, Proceed, Same
<1>5. \A t \in Worker : call[t] \in CallRecord /\ Kind(call[t])
  BY DEF DirInv, DirType, TargetsOK
<1>6. ASSUME NEW t \in Worker,
             \/ \E n \in Names, o \in Options : open(t, n, o)
             \/ drop_file(t) \/ open_ambient(t) \/ mock_insert(t)
             \/ mkdirat_leaf(t) \/ mkdirat_fails(t)
             \/ \E p \in Paths : open_dir(t, p)
      PROVE  Fine(t) /\ UNCHANGED backend
  <2>1. \A n, h : Kind([NoCall EXCEPT !.op = "open", !.a = n, !.h = h])
    BY <1>1
  <2>2. CASE drop_file(t) \/ open_ambient(t)
    BY <2>2 DEF drop_file, open_ambient, Same
  <2>3. CASE mock_insert(t) \/ mkdirat_leaf(t) \/ mkdirat_fails(t)
    BY <1>3, <2>3 DEF mock_insert, mkdirat_leaf, mkdirat_fails
  <2>4. CASE \E p \in Paths : open_dir(t, p)
    BY <1>2, <2>4 DEF open_dir
  <2> HIDE DEF Kind, Fine
  <2>5. CASE \E n \in Names, o \in Options : open(t, n, o)
    BY <1>2, <1>4, <2>1, <2>5 DEF open, mock_open
  <2> QED
    BY <1>6, <2>2, <2>3, <2>4, <2>5
<1>7. ASSUME NEW t \in Worker, NEW p \in Paths, create_dir(t, p)
      PROVE  Fine(t) /\ UNCHANGED backend
  <2>1. \A h, a, b : Kind([NoCall EXCEPT !.op = "create_dir", !.h = h, !.a = a, !.b = b])
    BY <1>1
  <2> HIDE DEF Kind, Fine
  <2> QED
    BY <1>2, <1>4, <1>7, <2>1 DEF create_dir, linux_create_dir, windows_create_dir, mock_create_dir
<1>8. ASSUME NEW t \in Worker, NEW n \in Names,
             \/ remove_file(t, n) \/ remove_dir(t, n) \/ ReadEntry(t, n)
             \/ \E w \in BOOLEAN : set_unix_mode(t, n, w)
      PROVE  Fine(t) /\ UNCHANGED backend
  <2>1. \A h : Kind([NoCall EXCEPT !.op = "remove", !.h = h])
    BY <1>1
  <2>2. CASE ReadEntry(t, n)
    <3> DEFINE c == call[t]
               x == [c EXCEPT !.got = c.got \union {n}]
    <3>1. Proceed(t, x) /\ c.op = "read_dir" /\ c \in CallRecord
      BY <1>5, <2>2 DEF ReadEntry
    <3> HIDE DEF c
    <3>2. Kind(x)
      BY <3>1 DEF CallRecord
    <3> QED
      BY <1>4, <3>1, <3>2
  <2> HIDE DEF Kind, Fine
  <2>3. CASE remove_file(t, n) \/ remove_dir(t, n)
    BY <1>2, <1>4, <2>1, <2>3 DEF remove_file, remove_dir, RemoveEntry, windows_remove
  <2>4. CASE \E w \in BOOLEAN : set_unix_mode(t, n, w)
    BY <1>2, <2>4 DEF set_unix_mode
  <2> QED
    BY <1>8, <2>2, <2>3, <2>4
<1>9. ASSUME NEW t \in Worker, NEW n \in Names, read_link(t, n)
      PROVE  Fine(t) /\ UNCHANGED backend
  <2>1. \A d, a, z : Kind([NoCall EXCEPT !.op = "read_link", !.d = d, !.a = a, !.size = z])
    BY <1>1
  <2>2. CASE UNCHANGED call /\ UNCHANGED backend
    BY <2>2
  <2> HIDE DEF Kind, Fine
  <2> QED
    BY <1>4, <1>9, <2>1, <2>2 DEF read_link, Same
<1>10. ASSUME NEW t \in Worker, mark_delete(t) \/ NtRename(t)
       PROVE  Fine(t) /\ UNCHANGED backend
  <2> HIDE DEF Kind, Fine
  <2> QED
    BY <1>3, <1>10 DEF mark_delete, NtRename
<1>11. ASSUME NEW t \in Worker,
              \E from, to \in Names : rename(t, from, to) \/ rename_no_replace(t, from, to)
       PROVE  Fine(t) /\ UNCHANGED backend
  <2>1. \A h, d, a, b, f, z : Kind([NoCall EXCEPT !.op = "rename", !.h = h, !.d = d, !.a = a,
                                                  !.b = b, !.flag = f, !.size = z])
    BY <1>1
  <2>2. PICK from \in Names, to \in Names, replace \in BOOLEAN : RenameEntry(t, from, to, replace)
    BY <1>11 DEF rename, rename_no_replace
  <2> DEFINE x(h, z) == [NoCall EXCEPT !.op = "rename", !.h = h, !.d = cap[t], !.a = from,
                                       !.b = to, !.flag = replace, !.size = z]
  <2>3. Once(t) \/ \E h, z : Enter(t, x(h, z))
    BY <2>2 DEF RenameEntry, linux_rename, windows_rename, mock_rename_impl
  <2>4. \A h, z : Kind(x(h, z))
    BY <2>1
  <2> HIDE DEF Kind, Fine, x
  <2> QED
    BY <1>2, <1>4, <2>3, <2>4
<1>12. ASSUME NEW t \in Worker, NEW target \in Targets, NEW n \in Names, symlink(t, target, n)
       PROVE  Fine(t) /\ UNCHANGED backend
  <2>1. \A d, a, f : Kind([NoCall EXCEPT !.op = "symlink", !.stage = "create", !.d = d, !.a = a,
                                         !.target = target, !.flag = f])
    BY <1>1
  <2> HIDE DEF Kind, Fine
  <2> QED
    BY <1>2, <1>4, <1>12, <2>1 DEF symlink, windows_symlink
<1>13. ASSUME NEW t \in Worker, SymlinkCreate(t)
       PROVE  Fine(t) /\ UNCHANGED backend
  <2> DEFINE c == call[t]
  <2>1. c \in CallRecord /\ Kind(c)
    BY <1>5
  <2>2. Leave(t) \/ \E k \in 1..MaxNodes : Proceed(t, [c EXCEPT !.stage = "reparse", !.h = k])
    BY <1>13 DEF SymlinkCreate
  <2> HIDE DEF c
  <2>3. \A k \in 1..MaxNodes : Kind([c EXCEPT !.stage = "reparse", !.h = k])
    BY <2>1 DEF CallRecord
  <2> HIDE DEF Kind, Fine
  <2> QED
    BY <1>3, <1>4, <2>2, <2>3
<1>14. ASSUME NEW t \in Worker, linux_read_link(t)
       PROVE  Fine(t) /\ UNCHANGED backend
  <2> DEFINE c == call[t]
             x == [c EXCEPT !.size = c.size * 4]
  <2>1. c \in CallRecord /\ c.op = "read_link"
    BY <1>5, <1>14 DEF linux_read_link
  <2>2. Leave(t) \/ (\E r : Return(t, r)) \/ Proceed(t, x)
    BY <1>14 DEF linux_read_link
  <2> HIDE DEF c
  <2>3. Kind(x)
    BY <2>1 DEF CallRecord
  <2> HIDE DEF Kind, Fine, x
  <2> QED
    BY <1>3, <1>4, <2>2, <2>3
<1>15. ASSUME NEW t \in Worker, SymlinkReparse(t) \/ ReadDirEnds(t)
       PROVE  Fine(t) /\ UNCHANGED backend
  <2> HIDE DEF Kind, Fine
  <2> QED
    BY <1>3, <1>15 DEF SymlinkReparse, ReadDirEnds, linux_read_dir, read_dir_entries
<1>16. ASSUME NEW t \in Worker, read_dir(t)
       PROVE  Fine(t) /\ UNCHANGED backend
  <2>1. \A d, b : Kind([NoCall EXCEPT !.op = "read_dir", !.d = d, !.start = b])
    BY <1>1
  <2>2. CASE UNCHANGED call /\ UNCHANGED backend
    BY <2>2
  <2> HIDE DEF Kind, Fine
  <2> QED
    BY <1>4, <1>16, <2>1, <2>2 DEF read_dir, mock_read_dir, Same
<1>17. PICK t \in Worker : Fine(t) /\ UNCHANGED backend
  <2> HIDE DEF Kind, Fine
  <2> QED
    BY <1>6, <1>7, <1>8, <1>9, <1>10, <1>11, <1>12, <1>13, <1>14, <1>15, <1>16 DEF DirsNext
<1>18. CASE UNCHANGED call
  BY <1>17, <1>18 DEF TargetsOK
<1>19. CASE \E x : call' = [call EXCEPT ![t] = x] /\ Kind(x)
  BY <1>17, <1>19, CallStep
<1> QED
  BY <1>17, <1>18, <1>19

LEMMA AnswersPersist ==
    ASSUME Parameters, DirInv, LookInv, DirsNext
    PROVE  AnswersOK'
<1>1. LinksOK(node) /\ AnswersOK
  BY DEF LookInv
<1>2. ASSUME NEW t \in Worker,
             \/ \E n \in Names, o \in Options : open(t, n, o)
             \/ drop_file(t) \/ open_ambient(t) \/ mock_insert(t)
             \/ mkdirat_leaf(t) \/ mkdirat_fails(t)
             \/ \E p \in Paths : open_dir(t, p) \/ create_dir(t, p)
             \/ mark_delete(t) \/ SymlinkCreate(t) \/ SymlinkReparse(t)
      PROVE  Starts(t) \/ UNCHANGED answer
  BY <1>2 DEF open, mock_open, drop_file, open_ambient, mock_insert, mkdirat_leaf, mkdirat_fails,
     open_dir, create_dir, linux_create_dir, windows_create_dir, mock_create_dir, mark_delete,
     SymlinkCreate, SymlinkReparse, Once, Enter, Leave, Proceed
<1>3. ASSUME NEW t \in Worker,
             \/ \E n \in Names : remove_file(t, n) \/ remove_dir(t, n) \/ ReadEntry(t, n)
             \/ \E n \in Names, w \in BOOLEAN : set_unix_mode(t, n, w)
             \/ \E from, to \in Names : rename(t, from, to) \/ rename_no_replace(t, from, to)
             \/ \E target \in Targets, n \in Names : symlink(t, target, n)
             \/ read_dir(t)
      PROVE  Starts(t) \/ UNCHANGED answer
  BY <1>3 DEF remove_file, remove_dir, RemoveEntry, windows_remove, ReadEntry, set_unix_mode, rename,
     rename_no_replace, RenameEntry, linux_rename, windows_rename, mock_rename_impl, symlink,
     windows_symlink, read_dir, mock_read_dir, Once, Enter, Proceed
<1>4. ASSUME NEW t \in Worker, linux_read_link(t)
      PROVE  AnswersOK'
  <2>1. call[t].d \in Object /\ call[t].a \in Names
    BY <1>4 DEF linux_read_link, DirInv, CallsMean, CallMeans
  <2> QED
    BY <1>1, <1>4, <2>1, LinuxReadLinkAnswers
<1>5. ASSUME NEW t \in Worker,
             (\E n \in Names : read_link(t, n)) \/ NtRename(t) \/ ReadDirEnds(t)
      PROVE  AnswersOK'
  BY <1>1, <1>5, ReadLinkAnswers, NtRenameAnswers, ReadDirAnswers
<1> QED
  BY <1>1, <1>2, <1>3, <1>4, <1>5, StartsAnswer DEF DirsNext

LEMMA LookPersists == ASSUME Parameters, DirInv, LookInv, [DirsNext]_dvars PROVE LookInv'
<1>1. LinksOK(node) /\ TargetsOK /\ AnswersOK
  BY DEF LookInv
<1>2. CASE UNCHANGED dvars
  BY <1>1, <1>2 DEF dvars, LookInv, LinksOK, TargetsOK, AnswersOK, GoodAnswer
<1>3. CASE DirsNext
  <2>1. TargetsOK' /\ UNCHANGED backend /\ AnswersOK'
    BY <1>1, <1>3, TargetsPersist, AnswersPersist
  <2>2. LinksOK(node')
    <3>1. ASSUME NEW t \in Worker,
                 \/ \E n \in Names : read_link(t, n) \/ ReadEntry(t, n)
                 \/ linux_read_link(t) \/ read_dir(t) \/ ReadDirEnds(t)
          PROVE  UNCHANGED node
      BY <3>1 DEF read_link, ReadEntry, linux_read_link, read_dir, mock_read_dir, ReadDirEnds
    <3>2. UNCHANGED node => LinksOK(node')
      BY <1>1
    <3> QED
      BY <1>1, <1>3, <3>1, <3>2, OpensLink, RemovesLink, RenamesLink, SymlinksLink DEF DirsNext
  <2>3. LinksOK(node)'
    BY <2>1, <2>2 DEF LinksOK
  <2> QED
    BY <2>1, <2>3 DEF LookInv
<1> QED
  BY <1>2, <1>3

LEMMA LookStarts == ASSUME LookParameters, DirsInit PROVE LookInv
<1>1. PICK tree \in Trees :
          node = [i \in 1..MaxNodes |->
                    IF i = Root THEN [Obj("Dir") EXCEPT !.entries = tree.entries]
                    ELSE IF i = Outside THEN Obj("Dir")
                    ELSE IF i \in DOMAIN tree.objects
                         THEN LET o == tree.objects[i] IN
                              IF o.type # "Symlink" THEN Obj(o.type)
                              ELSE LinkObj(o.target,
                                     IF backend = "windows" THEN nt_substitute_name(to_wide_nt_component(o.target)) ELSE o.target,
                                     Absolute(o.target))
                    ELSE Nothing]
  BY DEF DirsInit
<1>2. /\ \A i \in DOMAIN tree.objects \cap 3..MaxNodes :
            tree.objects[i].type \in {"File", "Dir", "Symlink"}
      /\ \A i \in DOMAIN tree.objects :
            tree.objects[i].type = "Symlink" => tree.objects[i].target \in Targets
  BY DEF LookParameters, Parameters
<1>3. Parameters /\ DirInv
  BY DirStarts DEF LookParameters
<1>4. ASSUME NEW i \in Object
      PROVE  node[i].writable /\ (node[i].type = "Symlink" => node[i].target \in Targets)
  <2>1. CASE i = Root
    <3> DEFINE o == Obj("Dir")
    <3>1. o \in NodeRecord /\ o.type = "Dir" /\ o.writable
      BY <1>3, NewObjects, ObjectsLink DEF Types, Fresh
    <3>2. node[i] = [o EXCEPT !.entries = tree.entries]
      BY <1>1, <2>1 DEF Object
    <3> HIDE DEF o
    <3> QED
      BY <3>1, <3>2 DEF NodeRecord
  <2>2. CASE i # Root /\ i = Outside
    <3>1. node[i] = Obj("Dir")
      BY <1>1, <2>2 DEF Object
    <3> QED
      BY <1>3, <3>1, ObjectsLink DEF Types
  <2>3. CASE i \notin {Root, Outside} /\ i \in DOMAIN tree.objects
    <3> DEFINE o == tree.objects[i]
               wire == IF backend = "windows" THEN nt_substitute_name(to_wide_nt_component(o.target))
                       ELSE o.target
               abs == Absolute(o.target)
    <3>1. node[i] = IF o.type # "Symlink" THEN Obj(o.type) ELSE LinkObj(o.target, wire, abs)
      BY <1>1, <2>3 DEF Object
    <3>2. o.target \in Given /\ abs \in BOOLEAN
      BY <2>3 DEF Given, Absolute
    <3>3. wire \in Words
      BY <3>2, WireIs
    <3>4. i \in 3..MaxNodes
      BY <1>3, <2>3 DEF Object, Root, Outside, Parameters
    <3>5. o.type \in {"File", "Dir", "Symlink"} /\ (o.type = "Symlink" => o.target \in Targets)
      BY <1>2, <2>3, <3>4
    <3> HIDE DEF o, wire, abs
    <3> QED
      BY <1>3, <3>1, <3>2, <3>3, <3>5, ObjectsLink DEF Types
  <2>4. CASE i \notin {Root, Outside} /\ i \notin DOMAIN tree.objects
    <3>1. node[i] = Nothing
      BY <1>1, <2>4 DEF Object
    <3> QED
      BY <3>1 DEF Nothing
  <2> QED
    BY <2>1, <2>2, <2>3, <2>4
<1>5. LinksOK(node)
  BY <1>4 DEF LinksOK
<1>6. TargetsOK
  BY DEF DirsInit, TargetsOK, NoCall
<1>7. AnswersOK
  BY GoodAnswers DEF DirsInit, AnswersOK
<1> QED
  BY <1>5, <1>6, <1>7 DEF LookInv

LEMMA LookupsAgree == ASSUME LookParameters, DirInv, LookInv PROVE LookupContract
<1> SUFFICES ASSUME NEW t \in Worker, NEW n \in Names
            PROVE  LET d == cap[t]
                       e == Entry(d, n)
                       f == Followed(d, n)
                   IN /\ e = 0 \/ ~node[e].pending =>
                             /\ metadata(d, n) = (IF e = 0 THEN "NotFound" ELSE node[e].type)
                             /\ file_id(d, n) = e
                      /\ access(d, n, {})
                      /\ backend # "mock" /\ (f = 0 \/ ~node[f].pending)
                            => access(d, n, {"write"}) = (f # 0 /\ node[f].writable)
  BY DEF LookupContract
<1> DEFINE d == cap[t]
           e == Entry(d, n)
           f == Followed(d, n)
<1>1. Parameters /\ NodesOK(node) /\ node \in [Object -> NodeRecord] /\ Real(d)
  BY DEF LookParameters, DirInv, Rooted, NodesOK, Inside, Working, Real
<1>2. backend \in {"linux", "trackp", "windows", "mock"}
  BY DEF DirInv, DirType
<1>3. f # 0 => f \in Object
  BY <1>1, LookupIs DEF Real
<1>4. NtOpen(d, n, {"OPEN_REPARSE_POINT"}) = IF e = 0 \/ node[e].pending THEN 0 ELSE e
  BY DEF NtOpen
<1>5. NtOpen(d, n, {}) = IF f = 0 \/ node[f].pending THEN 0 ELSE f
  BY DEF NtOpen
<1>6. f # 0 => /\ node[f].writable \in BOOLEAN
               /\ backend = "windows" => node[f].writable
  BY <1>1, <1>3 DEF NodeRecord, LookInv, LinksOK
<1>7. e = 0 \/ ~node[e].pending => /\ metadata(d, n) = (IF e = 0 THEN "NotFound" ELSE node[e].type)
                                   /\ file_id(d, n) = e
  BY <1>2, <1>4 DEF metadata, linux_statat, windows_metadata, mock_metadata, file_id, linux_file_id,
     windows_file_id, mock_file_id, open_relative, file_type_of_attributes, Linux
<1>8. access(d, n, {})
  BY DEF access, linux_access, windows_access, mock_access
<1>9. backend # "mock" /\ (f = 0 \/ ~node[f].pending)
          => access(d, n, {"write"}) = (f # 0 /\ node[f].writable)
  <2> SUFFICES ASSUME backend # "mock", f = 0 \/ ~node[f].pending
              PROVE  access(d, n, {"write"}) = (f # 0 /\ node[f].writable)
    OBVIOUS
  <2>1. CASE Linux
    <3>1. access(d, n, {"write"}) = (f # 0 /\ ("write" \in {"write"} => node[f].writable))
      BY <2>1 DEF access, linux_access
    <3> QED
      BY <1>6, <3>1
  <2>2. CASE ~Linux
    <3>1. backend = "windows"
      BY <1>2, <2>2 DEF Linux
    <3>2. access(d, n, {"write"}) = (NtOpen(d, n, {}) # 0)
      BY <2>2, <3>1 DEF access, windows_access, open_relative
    <3> HIDE DEF f, d
    <3> QED
      BY <1>5, <1>6, <3>1, <3>2
  <2> QED
    BY <2>1, <2>2
<1> QED
  BY <1>7, <1>8, <1>9

-----------------------------------------------------------------------------
(* The conversions                                                         *)

\* Nanoseconds and ticks: the quotient and the remainder are of one number.
LEMMA TickArithmetic ==
    ASSUME NEW S \in Nat, NEW T \in Nat \ {0}, S % T = 0, NEW a \in Nat
    PROVE  (a \div T) * S + (a % T) * (S \div T) = a * (S \div T)
<1> DEFINE k == S \div T
           q == a \div T
           m == a % T
<1>1. k \in Nat /\ q \in Nat /\ m \in Nat
  OBVIOUS
<1>2. S = k * T
  BY <1>1
<1>3. a = q * T + m
  BY <1>1
<1> HIDE DEF k, q, m
<1>4. q * (k * T) = (q * T) * k
  BY <1>1
<1>5. (q * T + m) * k = (q * T) * k + m * k
  BY <1>1
<1>6. q * S + m * k = a * k
  BY <1>1, <1>2, <1>3, <1>4, <1>5
<1> QED
  BY <1>6 DEF k, q, m

\* A set of positions that has a member has a last one.
LEMMA LastPosition ==
    ASSUME NEW m \in Nat, NEW P \in SUBSET (1..m), P # {}
    PROVE  \E i \in P : \A j \in P : j <= i
<1> DEFINE Q == {n \in Nat : \E i \in P : n = m - i}
<1>1. Q \subseteq Nat /\ Q # {}
  <2>1. PICK i \in P : TRUE
    OBVIOUS
  <2>2. m - i \in Q
    OBVIOUS
  <2> QED
    BY <2>2
<1>2. PICK n \in Q : \A k \in Q : ~(<<k, n>> \in OpToRel(<, Nat))
  BY <1>1, NatLessThanWellFounded, WFMin
<1>3. \A k \in Q : ~(k < n)
  BY <1>1, <1>2 DEF OpToRel
<1>4. PICK i \in P : n = m - i
  OBVIOUS
<1>5. ASSUME NEW j \in P PROVE j <= i
  <2>1. m - j \in Q
    OBVIOUS
  <2>2. ~(m - j < m - i)
    BY <1>3, <1>4, <2>1
  <2>3. i \in Int /\ j \in Int
    OBVIOUS
  <2> QED
    BY <2>2, <2>3
<1> QED
  BY <1>4, <1>5

\* A sequence is what comes before a slash, the slash, what comes up to the last
\* name's end, and the rest.
LEMMA CutTogether ==
    ASSUME NEW S, "/" \in S, NEW rel \in Seq(S), NEW pos \in 1..Len(rel),
           NEW last \in 1..Len(rel), pos < last, rel[pos] = "/", \A i \in (last + 1)..Len(rel) : rel[i] = "/"
    PROVE  rel = SubSeq(rel, 1, pos - 1) \o <<"/">> \o SubSeq(rel, pos + 1, last)
                 \o [i \in 1..(Len(rel) - last) |-> "/"]
<1> DEFINE a == SubSeq(rel, 1, pos - 1)
           b == SubSeq(rel, pos + 1, last)
           c == [i \in 1..(Len(rel) - last) |-> "/"]
           ab == a \o <<"/">>
           abb == ab \o b
           all == abb \o c
<1>0. Len(rel) \in Nat /\ pos \in Nat /\ last \in Nat /\ 1 <= pos /\ last <= Len(rel)
  OBVIOUS
<1>1. a \in Seq(S) /\ Len(a) = pos - 1 /\ \A i \in 1..(pos - 1) : a[i] = rel[i]
  BY <1>0
<1>2. b \in Seq(S) /\ Len(b) = last - pos /\ \A i \in 1..(last - pos) : b[i] = rel[pos + i]
  BY <1>0
<1>3. c \in Seq(S) /\ Len(c) = Len(rel) - last /\ \A i \in 1..(Len(rel) - last) : c[i] = "/"
  <2>1. Len(rel) - last \in Nat
    BY <1>0
  <2>2. c \in [1..(Len(rel) - last) -> S]
    OBVIOUS
  <2> QED
    BY <2>1, <2>2
<1> HIDE DEF a, b, c
<1>4. /\ ab \in Seq(S) /\ Len(ab) = pos
      /\ \A i \in 1..pos : ab[i] = IF i < pos THEN a[i] ELSE "/"
  BY <1>0, <1>1
<1> HIDE DEF ab
<1>5. /\ abb \in Seq(S) /\ Len(abb) = last
      /\ \A i \in 1..last : abb[i] = IF i <= pos THEN ab[i] ELSE b[i - pos]
  <2>1. /\ abb \in Seq(S) /\ Len(abb) = Len(ab) + Len(b)
        /\ \A i \in 1..(Len(ab) + Len(b)) : abb[i] = IF i <= Len(ab) THEN ab[i] ELSE b[i - Len(ab)]
    BY <1>2, <1>4, ConcatProperties
  <2>2. Len(ab) + Len(b) = last
    BY <1>0, <1>2, <1>4
  <2> QED
    BY <1>4, <2>1, <2>2
<1> HIDE DEF abb
<1>6. /\ all \in Seq(S) /\ Len(all) = Len(rel)
      /\ \A i \in 1..Len(rel) : all[i] = IF i <= last THEN abb[i] ELSE c[i - last]
  <2>1. /\ all \in Seq(S) /\ Len(all) = Len(abb) + Len(c)
        /\ \A i \in 1..(Len(abb) + Len(c)) : all[i] = IF i <= Len(abb) THEN abb[i] ELSE c[i - Len(abb)]
    BY <1>3, <1>5, ConcatProperties
  <2>2. Len(abb) + Len(c) = Len(rel)
    BY <1>0, <1>3, <1>5
  <2> QED
    BY <1>5, <2>1, <2>2
<1> HIDE DEF all
<1>7. ASSUME NEW i \in 1..Len(rel) PROVE all[i] = rel[i]
  <2>1. CASE i < pos
    <3>1. i <= last /\ i <= pos /\ i \in 1..last /\ i \in 1..pos /\ i \in 1..(pos - 1)
      BY <1>0, <2>1
    <3>2. all[i] = abb[i] /\ abb[i] = ab[i] /\ ab[i] = a[i]
      BY <1>4, <1>5, <1>6, <2>1, <3>1
    <3> QED
      BY <1>1, <3>1, <3>2
  <2>2. CASE i = pos
    BY <1>0, <1>4, <1>5, <1>6, <2>2
  <2>3. CASE i > pos /\ i <= last
    <3>1. i - pos \in 1..(last - pos) /\ pos + (i - pos) = i
      BY <1>0, <2>3
    <3>2. i \in 1..last /\ ~(i <= pos)
      BY <1>0, <2>3
    <3>3. all[i] = abb[i] /\ abb[i] = b[i - pos]
      BY <1>5, <1>6, <2>3, <3>2
    <3> QED
      BY <1>2, <3>1, <3>3
  <2>4. CASE i > last
    <3>1. i - last \in 1..(Len(rel) - last) /\ i \in (last + 1)..Len(rel)
      BY <1>0, <2>4
    <3> QED
      BY <1>0, <1>3, <1>6, <2>4, <3>1
  <2> QED
    BY <1>0, <2>1, <2>2, <2>3, <2>4
<1>8. rel = all
  BY <1>6, <1>7, SeqEqual
<1> QED
  BY <1>8 DEF all, abb, ab, a, b, c

LEMMA SplitIsExact ==
    ASSUME NEW S, NEW rel \in Seq(S)
    PROVE  LET cut == split_last_component(rel) IN
           IF cut = <<>> THEN \A i, j \in DOMAIN rel : i < j /\ rel[i] = "/" => rel[j] = "/"
           ELSE /\ cut[2] # <<>> /\ \A i \in DOMAIN cut[2] : cut[2][i] # "/"
                /\ \E k \in 0..Len(rel) : rel = cut[1] \o <<"/">> \o cut[2] \o [i \in 1..k |-> "/"]
<1> DEFINE solid == {i \in DOMAIN rel : rel[i] # "/"}
           last == CHOOSE i \in solid : \A j \in solid : j <= i
           slashes == {i \in 1..last : rel[i] = "/"}
           pos == CHOOSE i \in slashes : \A j \in slashes : j <= i
           cut == split_last_component(rel)
<1>1. Len(rel) \in Nat /\ DOMAIN rel = 1..Len(rel)
  OBVIOUS
<1>2. cut = IF solid = {} THEN <<>>
            ELSE IF slashes = {} THEN <<>>
            ELSE <<SubSeq(rel, 1, pos - 1), SubSeq(rel, pos + 1, last)>>
  BY Zenon DEF split_last_component
<1>3. solid # {} => last \in solid /\ \A j \in solid : j <= last
  <2> SUFFICES ASSUME solid # {} PROVE last \in solid /\ \A j \in solid : j <= last
    OBVIOUS
  <2>1. solid \in SUBSET (1..Len(rel))
    BY <1>1
  <2> HIDE DEF solid
  <2>2. \E i \in solid : \A j \in solid : j <= i
    BY <1>1, <2>1, LastPosition
  <2> QED
    BY <2>2
<1>4. \A i \in 1..Len(rel) : (i \in solid) <=> (rel[i] # "/")
  BY <1>1
<1>5. solid \subseteq 1..Len(rel)
  BY <1>1
<1> HIDE DEF solid, cut
<1>6. CASE solid = {}
  BY <1>1, <1>2, <1>4, <1>6 DEF cut
<1>7. CASE solid # {} /\ slashes = {}
  <2>1. last \in 1..Len(rel)
    BY <1>3, <1>5, <1>7
  <2>2. ASSUME NEW i \in 1..Len(rel), NEW j \in 1..Len(rel), i < j, rel[i] = "/"
        PROVE  rel[j] = "/"
    <3> HIDE DEF last
    <3>1. i \notin 1..last
      BY <1>7, <2>2
    <3>2. ~(j <= last)
      BY <2>1, <2>2, <3>1
    <3> QED
      BY <1>3, <1>4, <1>7, <3>2
  <2>3. cut = <<>>
    BY <1>2, <1>7
  <2> QED
    BY <1>1, <2>2, <2>3 DEF cut
<1>8. CASE solid # {} /\ slashes # {}
  <2>1. last \in 1..Len(rel) /\ last \in Nat /\ rel[last] # "/"
    <3>1. last \in solid
      BY <1>3, <1>8
    <3> HIDE DEF last
    <3> QED
      BY <1>1, <1>4, <1>5, <3>1
  <2> HIDE DEF last
  <2>2. slashes \in SUBSET (1..last)
    OBVIOUS
  <2>3. \A i \in 1..last : (i \in slashes) <=> (rel[i] = "/")
    OBVIOUS
  <2> HIDE DEF slashes
  <2>4. \E i \in slashes : \A j \in slashes : j <= i
    BY <1>8, <2>1, <2>2, LastPosition
  <2>5. pos \in slashes /\ \A j \in slashes : j <= pos
    BY <2>4
  <2>6. pos \in 1..last /\ rel[pos] = "/"
    BY <2>2, <2>3, <2>5
  <2> HIDE DEF pos
  <2>7. pos < last /\ pos \in 1..Len(rel)
    BY <2>1, <2>6
  <2> DEFINE a == SubSeq(rel, 1, pos - 1)
             b == SubSeq(rel, pos + 1, last)
  <2>8. cut = <<a, b>>
    BY <1>2, <1>8
  <2>9. Len(b) = last - pos /\ DOMAIN b = 1..(last - pos) /\ \A i \in 1..(last - pos) : b[i] = rel[pos + i]
    BY <1>1, <2>1, <2>7
  <2>10. b # <<>>
    BY <2>1, <2>7, <2>9
  <2>11. ASSUME NEW i \in DOMAIN b PROVE b[i] # "/"
    <3>1. pos + i \in 1..last /\ ~(pos + i <= pos) /\ i \in 1..(last - pos)
      BY <2>1, <2>7, <2>9
    <3> HIDE DEF b
    <3> QED
      BY <2>3, <2>5, <2>9, <3>1
  <2>12. rel = a \o <<"/">> \o b \o [i \in 1..(Len(rel) - last) |-> "/"]
    <3>1. "/" \in S
      BY <2>6, <2>7
    <3>2. \A i \in (last + 1)..Len(rel) : rel[i] = "/"
      BY <1>1, <1>3, <1>4, <1>8, <2>1
    <3> QED
      BY <2>1, <2>6, <2>7, <3>1, <3>2, CutTogether
  <2>13. Len(rel) - last \in 0..Len(rel)
    BY <1>1, <2>1
  <2> HIDE DEF a, b
  <2>14. cut # <<>> /\ cut[1] = a /\ cut[2] = b
    BY <2>8
  <2> QED
    BY <2>10, <2>11, <2>12, <2>13, <2>14 DEF cut
<1> QED
  BY <1>6, <1>7, <1>8

LEMMA ConversionsHold == ASSUME LookParameters PROVE ConversionsExact
<1>1. /\ Secs \subseteq Int /\ Ticks \subseteq Int /\ EpochDiff \in Int
      /\ TickSecond \in Nat \ {0} /\ Second \in Nat /\ Second % TickSecond = 0
      /\ Rels \subseteq Seq(STRING)
  BY DEF LookParameters
<1>2. ASSUME NEW s \in Secs, NEW n \in 0..(Second - 1)
      PROVE  system_time_from_secs_nsec(s, n) = s * Second + n
  <2>1. s \in Int /\ Second \in Int /\ n \in Int
    BY <1>1
  <2>2. -((-s) * Second) = s * Second
    BY <2>1
  <2> QED
    BY <2>1, <2>2 DEF system_time_from_secs_nsec
<1>3. ASSUME NEW f \in Ticks
      PROVE  filetime_to_system_time(f) = (f - EpochDiff) * (Second \div TickSecond)
  <2> DEFINE unix == f - EpochDiff
             abs == IF unix >= 0 THEN unix ELSE -unix
             k == Second \div TickSecond
             time == (abs \div TickSecond) * Second + (abs % TickSecond) * k
  <2>1. unix \in Int /\ abs \in Nat /\ k \in Int
    BY <1>1
  <2>2. filetime_to_system_time(f) = IF unix >= 0 THEN time ELSE -time
    BY DEF filetime_to_system_time
  <2> HIDE DEF abs
  <2>3. time = abs * k
    BY <1>1, <2>1, TickArithmetic
  <2>4. abs = IF unix >= 0 THEN unix ELSE -unix
    BY DEF abs
  <2> HIDE DEF time, k, unix
  <2>5. -((-unix) * k) = unix * k
    BY <2>1
  <2>6. filetime_to_system_time(f) = unix * k
    BY <2>1, <2>2, <2>3, <2>4, <2>5
  <2> QED
    BY <2>6 DEF unix, k
<1>4. ASSUME NEW rel \in Rels
      PROVE  LET cut == split_last_component(rel) IN
             IF cut = <<>> THEN \A i, j \in DOMAIN rel : i < j /\ rel[i] = "/" => rel[j] = "/"
             ELSE /\ cut[2] # <<>> /\ \A i \in DOMAIN cut[2] : cut[2][i] # "/"
                  /\ \E k \in 0..Len(rel) : rel = cut[1] \o <<"/">> \o cut[2] \o [i \in 1..k |-> "/"]
  <2>1. rel \in Seq(STRING)
    BY <1>1
  <2> QED
    BY <2>1, SplitIsExact, Zenon
<1> QED
  BY <1>2, <1>3, <1>4 DEF ConversionsExact

\* A listing has every name that was there from its beginning to its end, a
\* read_link returns a whole target as it was stored, metadata, file_id and
\* access follow links alike on every backend (access not on the mock, where it
\* knows no modes), and times and paths survive their conversions: for any
\* number of threads that change the directory meanwhile, any instants and paths
\* of any length.
THEOREM LookupsAreAlwaysExact == DirsSpec => []LookupsAreExact
<1>1. Parameters /\ LookParameters
  BY Dimensions, DirectoryAssumption
<1>2. DirsInit => DirInv /\ LookInv
  BY <1>1, DirStarts, LookStarts
<1>3. (DirInv /\ LookInv) /\ [DirsNext]_dvars => (DirInv /\ LookInv)'
  BY <1>1, DirPersists, LookPersists
<1>4. DirInv /\ LookInv => LookupsAreExact
  <2> SUFFICES ASSUME DirInv, LookInv PROVE LookupsAreExact
    OBVIOUS
  <2>1. ListingComplete /\ LinksWhole
    BY DEF LookInv, AnswersOK, GoodAnswer, ListingComplete, LinksWhole
  <2> QED
    BY <1>1, <2>1, LookupsAgree, ConversionsHold DEF LookupsAreExact
<1> QED
  BY <1>2, <1>3, <1>4, PTL DEF DirsSpec
=============================================================================
