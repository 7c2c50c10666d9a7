---------------------------- MODULE NetworkProofs ----------------------------
(***************************************************************************)
(* Theorems about the network: the mock's registry, queues and streams,    *)
(* and the sockets of the real backends.  They hold for any number of      *)
(* threads, listeners, connections and bytes, and for every length of the  *)
(* buffers and of sun_path.                                                *)
(***************************************************************************)
EXTENDS Sockets, MockNet, SequenceTheorems, WellFoundedInduction, TLAPS

-----------------------------------------------------------------------------
(* The mock network                                                        *)

SomeAddr == [kind : {"none", "tcp", "unix", "udp"}, port : Nat]
Datagram == [from : SomeAddr, to : SomeAddr, len : Nat]
Listener == [st : {"none", "live", "closing", "gone"}, addr : SomeAddr,
             queue : Seq((1..MaxConns) \union Datagram)]
Flags == [StreamEnds -> BOOLEAN]
ByteSeqs == [StreamEnds -> Seq(Nat)]
Connection == [kind : {"none", "tcp", "unix"}, queued : 0..MaxListeners, open : Flags,
               chan : [StreamEnds -> Seq(Seq(Nat))], read_buf : ByteSeqs,
               reading : Flags, timeout : Flags, sent : ByteSeqs, got : ByteSeqs, ended : Flags]

MockTypes ==
    /\ registry \in [Addresses -> 0..MaxListeners]
    /\ nextport \in Nat /\ nextport >= FirstPort
    /\ lst \in [1..MaxListeners -> Listener]
    /\ conn \in [1..MaxConns -> Connection]
    /\ dialing \in [Dialer -> [addr : SomeAddr, tx : 0..MaxListeners]]

Streaming(a) == a.kind \in {"tcp", "unix"}

\* A listener that was made has an address that was to be had, and streams
\* queue connections.
ListenersAreBound ==
    \A l \in 1..MaxListeners :
        /\ lst[l].st # "none" => lst[l].addr \in Addresses
        /\ lst[l].st # "none" /\ Streaming(lst[l].addr) =>
              \A i \in 1..Len(lst[l].queue) : lst[l].queue[i] \in 1..MaxConns

\* A connect in progress has found a listener of streams, which may be gone.
DialsAreStreams ==
    \A t \in Dialer : dialing[t].tx # 0 =>
        /\ Streaming(dialing[t].addr)
        /\ lst[dialing[t].tx].st # "none" /\ Streaming(lst[dialing[t].tx].addr)

\* A connection that was not accepted is in the queue of a listener of streams.
QueuedAreWaiting ==
    \A c \in 1..MaxConns : conn[c].queued # 0 =>
        /\ lst[conn[c].queued].st \in {"live", "closing"} /\ Streaming(lst[conn[c].queued].addr)
        /\ \E i \in 1..Len(lst[conn[c].queued].queue) : lst[conn[c].queued].queue[i] = c

\* The bytes of s are those after the first n.
Follows(s, n) == \A i \in 1..Len(s) : s[i] = n + i

\* The chunks of q, some of them empty: b[k] bytes were sent before the k-th, so
\* that each goes on where the one before it ends, from the bytes after the first
\* m up to n.
ChunksFollow(q, m, n) ==
    \E b \in [1..(Len(q) + 1) -> 0..n] :
       /\ b[1] = m /\ b[Len(q) + 1] = n
       /\ \A k \in 1..Len(q) : Follows(q[k], b[k]) /\ b[k + 1] = b[k] + Len(q[k])

\* What was sent to an end o of a connection has been got, is kept of a chunk,
\* or is in the channel, in this order and each byte once.
StreamFlows(x, o) ==
    /\ Follows(x.sent[Other(o)], 0)
    /\ Follows(x.got[o], 0)
    /\ Follows(x.read_buf[o], Len(x.got[o]))
    /\ ChunksFollow(x.chan[o], Len(x.got[o]) + Len(x.read_buf[o]), Len(x.sent[Other(o)]))

StreamsFlow ==
    \A c \in 1..MaxConns :
        /\ conn[c].kind = "none" => conn[c] = NoConn
        /\ \A o \in StreamEnds : StreamFlows(conn[c], o)

MockInv == /\ MockTypes /\ ListenersAreBound /\ DialsAreStreams /\ QueuedAreWaiting
           /\ StreamsFlow /\ RegistryAgrees

-----------------------------------------------------------------------------
\* What the constants of the mock are.
LEMMA MockConstants == MockParameters
  BY MockAssumption

LEMMA EndsDiffer ==
    ASSUME NEW e \in StreamEnds
    PROVE  Other(e) \in StreamEnds /\ Other(Other(e)) = e /\ Other(e) # e
  BY DEF StreamEnds, Other

LEMMA NoConnType == NoConn \in Connection
<1>1. MockParameters
  BY MockConstants
<1>2. <<>> \in Seq(Nat) /\ <<>> \in Seq(Seq(Nat))
  OBVIOUS
<1> QED
  BY <1>1, <1>2 DEF MockParameters, NoConn, Connection, Flags, ByteSeqs

LEMMA NoChunks ==
    ASSUME NEW m \in Nat, NEW n \in Nat
    PROVE  ChunksFollow(<<>>, m, n) <=> m = n
<1>1. Len(<<>>) = 0
  OBVIOUS
<1>2. ASSUME m = n PROVE ChunksFollow(<<>>, m, n)
  <2> DEFINE f == [k \in 1..1 |-> n]
  <2>1. f \in [1..1 -> 0..n] /\ f[1] = n
    OBVIOUS
  <2> HIDE DEF f
  <2>2. 0 + 1 = 1 /\ 1..0 = {}
    OBVIOUS
  <2>3. \E b \in [1..1 -> 0..n] : b[1] = m /\ b[1] = n
    BY <1>2, <2>1
  <2> QED
    BY <1>1, <2>2, <2>3 DEF ChunksFollow
<1>3. ASSUME ChunksFollow(<<>>, m, n) PROVE m = n
  BY <1>1, <1>3 DEF ChunksFollow
<1> QED
  BY <1>2, <1>3

LEMMA NoConnFlows ==
    ASSUME NEW o \in StreamEnds
    PROVE  StreamFlows(NoConn, o)
<1>1. NoConn.got[o] = <<>> /\ NoConn.read_buf[o] = <<>> /\ NoConn.chan[o] = <<>>
      /\ NoConn.sent[Other(o)] = <<>>
  BY EndsDiffer DEF NoConn
<1>2. Len(<<>>) = 0 /\ 0 + 0 = 0 /\ ChunksFollow(<<>>, 0, 0)
  BY NoChunks
<1> QED
  BY <1>1, <1>2 DEF StreamFlows, Follows

\* A step of one stream that leaves the queues alone.
StreamStep(c) ==
    /\ UNCHANGED <<registry, nextport, lst, dialing>>
    /\ conn' \in [1..MaxConns -> Connection]
    /\ \A d \in 1..MaxConns : d # c => conn'[d] = conn[d]
    /\ conn[c].kind # "none" /\ conn'[c].kind = conn[c].kind /\ conn'[c].queued = conn[c].queued
    /\ \A o \in StreamEnds : StreamFlows(conn'[c], o)

LEMMA StreamStepInv ==
    ASSUME MockInv, NEW c \in 1..MaxConns, StreamStep(c)
    PROVE  MockInv'
<1> USE DEF MockInv, StreamStep
<1>1. MockTypes'
  BY DEF MockTypes
<1>2. ListenersAreBound' /\ DialsAreStreams' /\ RegistryAgrees'
  BY DEF ListenersAreBound, DialsAreStreams, RegistryAgrees
<1>3. QueuedAreWaiting'
  <2> SUFFICES ASSUME NEW d \in 1..MaxConns
               PROVE  conn'[d].queued = conn[d].queued
    BY DEF QueuedAreWaiting
  <2> QED
    OBVIOUS
<1>4. StreamsFlow'
  <2> SUFFICES ASSUME NEW d \in 1..MaxConns
               PROVE  /\ conn'[d].kind = "none" => conn'[d] = NoConn
                      /\ \A o \in StreamEnds : StreamFlows(conn'[d], o)
    BY DEF StreamsFlow
  <2>1. CASE d = c
    BY <2>1
  <2>2. CASE d # c
    BY <2>2 DEF StreamsFlow
  <2> QED
    BY <2>1, <2>2
<1> QED
  BY <1>1, <1>2, <1>3, <1>4

\* Steps that change flags of a stream only.
SameBytes(x, y) == x.sent = y.sent /\ x.got = y.got /\ x.read_buf = y.read_buf /\ x.chan = y.chan

LEMMA SameBytesFlow ==
    ASSUME NEW x, NEW y, NEW o, StreamFlows(x, o), SameBytes(x, y)
    PROVE  StreamFlows(y, o)
  BY DEF StreamFlows, SameBytes

LEMMA FlagTypes ==
    ASSUME NEW x \in Connection, NEW e \in StreamEnds, NEW b \in BOOLEAN
    PROVE  /\ [x EXCEPT !.reading[e] = b] \in Connection
           /\ [x EXCEPT !.open[e] = b] \in Connection
           /\ [x EXCEPT !.timeout[e] = b] \in Connection
<1>1. x.reading \in Flags /\ x.open \in Flags /\ x.timeout \in Flags
  BY DEF Connection
<1>2. [x.reading EXCEPT ![e] = b] \in Flags /\ [x.open EXCEPT ![e] = b] \in Flags
      /\ [x.timeout EXCEPT ![e] = b] \in Flags
  BY <1>1 DEF Flags
<1>3. \A f \in Flags : /\ [x EXCEPT !.reading = f] \in Connection
                       /\ [x EXCEPT !.open = f] \in Connection
                       /\ [x EXCEPT !.timeout = f] \in Connection
  BY DEF Connection
<1> QED
  BY <1>2, <1>3

LEMMA FlagStep ==
    ASSUME MockInv, NEW c \in 1..MaxConns, NEW e \in StreamEnds, conn[c].kind # "none",
           \/ BeginMockRead(c, e) \/ ReadTimeout(c, e) \/ drop_stream(c, e)
           \/ \E on \in BOOLEAN : mock_set_read_timeout(c, e, on)
    PROVE  StreamStep(c)
<1>1. conn \in [1..MaxConns -> Connection] /\ UNCHANGED <<registry, nextport, lst, dialing>>
  BY DEF MockInv, MockTypes, BeginMockRead, ReadTimeout, drop_stream, mock_set_read_timeout
<1>2. PICK x \in Connection : /\ conn' = [conn EXCEPT ![c] = x] /\ SameBytes(conn[c], x)
                              /\ x.kind = conn[c].kind /\ x.queued = conn[c].queued
  <2> USE <1>1
  <2>0. conn[c] \in Connection /\ TRUE \in BOOLEAN /\ FALSE \in BOOLEAN
    OBVIOUS
  <2>1. CASE BeginMockRead(c, e)
    <3>1. [conn[c] EXCEPT !.reading[e] = TRUE] \in Connection
      BY <2>0, FlagTypes
    <3> WITNESS [conn[c] EXCEPT !.reading[e] = TRUE] \in Connection
    <3> QED
      BY <2>1, <2>0 DEF BeginMockRead, Connection, SameBytes
  <2>2. CASE ReadTimeout(c, e)
    <3>1. [conn[c] EXCEPT !.reading[e] = FALSE] \in Connection
      BY <2>0, FlagTypes
    <3> WITNESS [conn[c] EXCEPT !.reading[e] = FALSE] \in Connection
    <3> QED
      BY <2>2, <2>0 DEF ReadTimeout, Connection, SameBytes
  <2>3. CASE drop_stream(c, e)
    <3>1. [conn[c] EXCEPT !.open[e] = FALSE] \in Connection
      BY <2>0, FlagTypes
    <3> WITNESS [conn[c] EXCEPT !.open[e] = FALSE] \in Connection
    <3> QED
      BY <2>3, <2>0 DEF drop_stream, Connection, SameBytes
  <2>4. ASSUME NEW on \in BOOLEAN, mock_set_read_timeout(c, e, on)
        PROVE  \E x \in Connection : /\ conn' = [conn EXCEPT ![c] = x] /\ SameBytes(conn[c], x)
                              /\ x.kind = conn[c].kind /\ x.queued = conn[c].queued
    <3>1. [conn[c] EXCEPT !.timeout[e] = on] \in Connection
      BY <2>0, FlagTypes
    <3> WITNESS [conn[c] EXCEPT !.timeout[e] = on] \in Connection
    <3> QED
      BY <2>4, <2>0 DEF mock_set_read_timeout, Connection, SameBytes
  <2> QED
    BY <2>1, <2>2, <2>3, <2>4
<1>3. conn'[c] = x /\ conn' \in [1..MaxConns -> Connection]
      /\ \A d \in 1..MaxConns : d # c => conn'[d] = conn[d]
  BY <1>1, <1>2
<1>4. \A o \in StreamEnds : StreamFlows(conn'[c], o)
  BY <1>2, <1>3, SameBytesFlow DEF MockInv, StreamsFlow
<1> QED
  BY <1>1, <1>2, <1>3, <1>4 DEF StreamStep

-----------------------------------------------------------------------------
(* Runs of bytes                                                           *)

LEMMA FollowsConcat ==
    ASSUME NEW s \in Seq(Nat), NEW t \in Seq(Nat), NEW n \in Nat,
           Follows(s, n), Follows(t, n + Len(s))
    PROVE  s \o t \in Seq(Nat) /\ Len(s \o t) = Len(s) + Len(t) /\ Follows(s \o t, n)
<1>1. /\ s \o t \in Seq(Nat) /\ Len(s \o t) = Len(s) + Len(t) /\ Len(s) \in Nat /\ Len(t) \in Nat
      /\ \A i \in 1..(Len(s) + Len(t)) : (s \o t)[i] = IF i <= Len(s) THEN s[i] ELSE t[i - Len(s)]
  BY ConcatProperties, LenProperties
<1>2. ASSUME NEW i \in 1..(Len(s) + Len(t)) PROVE (s \o t)[i] = n + i
  <2>1. CASE i <= Len(s)
    BY <1>1, <2>1 DEF Follows
  <2>2. CASE ~(i <= Len(s))
    <3>1. i - Len(s) \in 1..Len(t)
      BY <1>1, <2>2
    <3> QED
      BY <1>1, <2>2, <3>1 DEF Follows
  <2> QED
    BY <2>1, <2>2
<1> QED
  BY <1>1, <1>2 DEF Follows

LEMMA FollowsPart ==
    ASSUME NEW s \in Seq(Nat), NEW n \in Nat, NEW k \in 0..Len(s), Follows(s, n)
    PROVE  /\ SubSeq(s, 1, k) \in Seq(Nat) /\ Len(SubSeq(s, 1, k)) = k
           /\ Follows(SubSeq(s, 1, k), n)
           /\ SubSeq(s, k + 1, Len(s)) \in Seq(Nat) /\ Len(SubSeq(s, k + 1, Len(s))) = Len(s) - k
           /\ Follows(SubSeq(s, k + 1, Len(s)), n + k)
<1>1. Len(s) \in Nat
  OBVIOUS
<1>2. /\ SubSeq(s, 1, k) \in Seq(Nat) /\ Len(SubSeq(s, 1, k)) = k
      /\ \A i \in 1..k : SubSeq(s, 1, k)[i] = s[i]
  BY <1>1
<1>3. /\ SubSeq(s, k + 1, Len(s)) \in Seq(Nat) /\ Len(SubSeq(s, k + 1, Len(s))) = Len(s) - k
      /\ \A i \in 1..(Len(s) - k) : SubSeq(s, k + 1, Len(s))[i] = s[k + i]
  BY <1>1
<1> QED
  BY <1>1, <1>2, <1>3 DEF Follows

\* Sequences of numbered bytes are told apart by their lengths.
LEMMA FollowsPrefix ==
    ASSUME NEW s \in Seq(Nat), NEW t \in Seq(Nat), Follows(s, 0), Follows(t, 0), Len(s) <= Len(t)
    PROVE  s = SubSeq(t, 1, Len(s))
<1>1. Len(s) \in 0..Len(t)
  OBVIOUS
<1>2. /\ SubSeq(t, 1, Len(s)) \in Seq(Nat) /\ Len(SubSeq(t, 1, Len(s))) = Len(s)
      /\ Follows(SubSeq(t, 1, Len(s)), 0)
  BY <1>1, FollowsPart
<1>3. \A i \in 1..Len(s) : s[i] = SubSeq(t, 1, Len(s))[i]
  BY <1>2 DEF Follows
<1> QED
  BY <1>2, <1>3, SeqEqual

LEMMA FollowsSame ==
    ASSUME NEW s \in Seq(Nat), NEW t \in Seq(Nat), Follows(s, 0), Follows(t, 0), Len(s) = Len(t)
    PROVE  s = t
<1>1. \A i \in 1..Len(s) : s[i] = t[i]
  BY DEF Follows
<1> QED
  BY <1>1, SeqEqual

LEMMA EmptyIffZero ==
    ASSUME NEW S, NEW s \in Seq(S)
    PROVE  Len(s) \in Nat /\ (s = <<>> <=> Len(s) = 0)
  BY EmptySeq, LenProperties

LEMMA Appended ==
    ASSUME NEW S, NEW s \in Seq(S), NEW x \in S
    PROVE  /\ Append(s, x) \in Seq(S) /\ Append(s, x) # <<>> /\ Len(Append(s, x)) = Len(s) + 1
           /\ Append(s, x)[Len(s) + 1] = x /\ \A i \in 1..Len(s) : Append(s, x)[i] = s[i]
  BY AppendProperties

LEMMA Dequeued ==
    ASSUME NEW S, NEW s \in Seq(S), s # <<>>
    PROVE  /\ Head(s) \in S /\ Head(s) = s[1] /\ Len(s) \in Nat \ {0}
           /\ Tail(s) \in Seq(S) /\ Len(Tail(s)) = Len(s) - 1
           /\ \A i \in 1..Len(Tail(s)) : Tail(s)[i] = s[i + 1]
  BY HeadTailProperties, EmptySeq

LEMMA ChunkAppended ==
    ASSUME NEW q \in Seq(Seq(Nat)), NEW ch \in Seq(Nat), NEW m \in Nat, NEW n \in Nat,
           ChunksFollow(q, m, n), Follows(ch, n)
    PROVE  ChunksFollow(Append(q, ch), m, n + Len(ch))
<1> DEFINE r == Append(q, ch)
           w == Len(ch)
           z == Len(q)
<1>1. /\ Len(r) = z + 1 /\ r[z + 1] = ch /\ z \in Nat /\ w \in Nat
      /\ \A i \in 1..z : r[i] = q[i]
  <2> DEFINE S == Seq(Nat)
  <2>1. q \in Seq(S) /\ ch \in S
    OBVIOUS
  <2> HIDE DEF S
  <2>2. z \in Nat
    BY <2>1, LenProperties
  <2> QED
    BY <2>1, <2>2, Appended
<1>2. PICK b \in [1..(z + 1) -> 0..n] :
         /\ b[1] = m /\ b[z + 1] = n
         /\ \A k \in 1..z : Follows(q[k], b[k]) /\ b[k + 1] = b[k] + Len(q[k])
  BY DEF ChunksFollow
<1> DEFINE d == [k \in 1..(z + 1 + 1) |-> IF k <= z + 1 THEN b[k] ELSE n + w]
<1> HIDE DEF r, w, z
<1>3. d \in [1..(z + 1 + 1) -> 0..(n + w)]
  <2> SUFFICES ASSUME NEW k \in 1..(z + 1 + 1) PROVE (IF k <= z + 1 THEN b[k] ELSE n + w) \in 0..(n + w)
    OBVIOUS
  <2>1. CASE k <= z + 1
    <3>1. k \in 1..(z + 1)
      BY <1>1, <2>1
    <3>2. b[k] \in 0..n
      BY <1>2, <3>1
    <3> QED
      BY <1>1, <2>1, <3>2
  <2>2. CASE ~(k <= z + 1)
    BY <1>1, <2>2
  <2> QED
    BY <2>1, <2>2
<1>4. d[1] = m /\ d[z + 1 + 1] = n + w
  BY <1>1, <1>2
<1>5. ASSUME NEW k \in 1..(z + 1) PROVE Follows(r[k], d[k]) /\ d[k + 1] = d[k] + Len(r[k])
  <2>1. CASE k \in 1..z
    <3>a. k \in 1..(z + 1 + 1) /\ k + 1 \in 1..(z + 1 + 1) /\ k <= z + 1 /\ k + 1 <= z + 1
      BY <1>1, <2>1
    <3>b. d[k] = b[k]
      BY <3>a
    <3>c. d[k + 1] = b[k + 1]
      BY <3>a
    <3>1. d[k] = b[k] /\ d[k + 1] = b[k + 1] /\ r[k] = q[k]
      BY <1>1, <2>1, <3>b, <3>c
    <3> QED
      BY <1>2, <2>1, <3>1
  <2>2. CASE k = z + 1
    <3>1. d[k] = n /\ d[k + 1] = n + w /\ r[k] = ch
      BY <1>1, <1>2, <2>2
    <3> QED
      BY <3>1 DEF w
  <2> QED
    BY <1>1, <2>1, <2>2
<1> HIDE DEF d
<1>6. \E f \in [1..(z + 1 + 1) -> 0..(n + w)] :
         /\ f[1] = m /\ f[z + 1 + 1] = n + w
         /\ \A k \in 1..(z + 1) : Follows(r[k], f[k]) /\ f[k + 1] = f[k] + Len(r[k])
  BY <1>3, <1>4, <1>5
<1>7. ChunksFollow(r, m, n + w)
  BY <1>1, <1>6 DEF ChunksFollow
<1> QED
  BY <1>7 DEF r, w

LEMMA ChunkTaken ==
    ASSUME NEW q \in Seq(Seq(Nat)), NEW m \in Nat, NEW n \in Nat, ChunksFollow(q, m, n), q # <<>>
    PROVE  /\ Head(q) \in Seq(Nat) /\ Tail(q) \in Seq(Seq(Nat))
           /\ Follows(Head(q), m)
           /\ m + Len(Head(q)) <= n
           /\ ChunksFollow(Tail(q), m + Len(Head(q)), n)
<1> DEFINE r == Tail(q)
           h == Head(q)
           z == Len(q)
<1>1. /\ h \in Seq(Nat) /\ h = q[1] /\ z \in Nat \ {0} /\ r \in Seq(Seq(Nat)) /\ Len(r) = z - 1
      /\ \A i \in 1..Len(r) : r[i] = q[i + 1]
  <2> DEFINE S == Seq(Nat)
  <2>1. q \in Seq(S)
    OBVIOUS
  <2> HIDE DEF S
  <2>2. /\ h \in S /\ h = q[1] /\ z \in Nat \ {0} /\ r \in Seq(S) /\ Len(r) = z - 1
        /\ \A i \in 1..Len(r) : r[i] = q[i + 1]
    BY <2>1, Dequeued
  <2> QED
    BY <2>2 DEF S
<1>2. PICK b \in [1..(z + 1) -> 0..n] :
         /\ b[1] = m /\ b[z + 1] = n
         /\ \A k \in 1..z : Follows(q[k], b[k]) /\ b[k + 1] = b[k] + Len(q[k])
  BY DEF ChunksFollow
<1> HIDE DEF r, h, z
<1>3. Follows(h, m) /\ b[1 + 1] = m + Len(h) /\ b[1 + 1] \in 0..n
  <2>1. 1 \in 1..z /\ 1 + 1 \in 1..(z + 1)
    BY <1>1
  <2> QED
    BY <1>1, <1>2, <2>1
<1> DEFINE d == [k \in 1..z |-> b[k + 1]]
<1>4. d \in [1..z -> 0..n]
  <2> SUFFICES ASSUME NEW k \in 1..z PROVE b[k + 1] \in 0..n
    OBVIOUS
  <2>1. k + 1 \in 1..(z + 1)
    BY <1>1
  <2> QED
    BY <1>2, <2>1
<1>5. d[1] = m + Len(h) /\ d[z] = n
  BY <1>1, <1>2, <1>3
<1>6. ASSUME NEW k \in 1..(z - 1) PROVE Follows(r[k], d[k]) /\ d[k + 1] = d[k] + Len(r[k])
  <2>1. k \in 1..z /\ k + 1 \in 1..z /\ r[k] = q[k + 1]
    BY <1>1
  <2>2. d[k] = b[k + 1] /\ d[k + 1] = b[k + 1 + 1]
    BY <2>1
  <2>3. Follows(q[k + 1], b[k + 1]) /\ b[k + 1 + 1] = b[k + 1] + Len(q[k + 1])
    BY <1>2, <2>1
  <2> QED
    BY <2>1, <2>2, <2>3
<1> HIDE DEF d
<1>7. Len(r) + 1 = z /\ Len(r) = z - 1
  BY <1>1
<1>8. ChunksFollow(r, m + Len(h), n)
  BY <1>4, <1>5, <1>6, <1>7 DEF ChunksFollow
<1>9. m + Len(h) <= n
  BY <1>3
<1> QED
  BY <1>1, <1>3, <1>8, <1>9 DEF r, h

-----------------------------------------------------------------------------
(* What a write and a read do to the bytes of a connection                 *)

Channels == [StreamEnds -> Seq(Seq(Nat))]

LEMMA ConnectionFields ==
    ASSUME NEW x \in Connection
    PROVE  /\ x.sent \in ByteSeqs /\ x.got \in ByteSeqs /\ x.read_buf \in ByteSeqs
           /\ x.chan \in Channels /\ x.ended \in Flags /\ x.reading \in Flags /\ x.open \in Flags
           /\ \A e \in StreamEnds : /\ x.sent[e] \in Seq(Nat) /\ x.got[e] \in Seq(Nat)
                                    /\ x.read_buf[e] \in Seq(Nat) /\ x.chan[e] \in Seq(Seq(Nat))
                                    /\ x.ended[e] \in BOOLEAN /\ x.open[e] \in BOOLEAN
<1>1. /\ x.sent \in ByteSeqs /\ x.got \in ByteSeqs /\ x.read_buf \in ByteSeqs
      /\ x.chan \in Channels /\ x.ended \in Flags /\ x.reading \in Flags /\ x.open \in Flags
  BY DEF Connection, Channels
<1>2. \A e \in StreamEnds : /\ x.sent[e] \in Seq(Nat) /\ x.got[e] \in Seq(Nat)
                            /\ x.read_buf[e] \in Seq(Nat)
  BY <1>1 DEF ByteSeqs
<1>3. \A e \in StreamEnds : x.chan[e] \in Seq(Seq(Nat))
  BY <1>1 DEF Channels
<1>4. \A e \in StreamEnds : x.ended[e] \in BOOLEAN /\ x.open[e] \in BOOLEAN
  BY <1>1 DEF Flags
<1> QED
  BY <1>1, <1>2, <1>3, <1>4

\* y is x after e has written the bytes b.
Wrote(x, y, e, b) ==
    /\ y.sent = [x.sent EXCEPT ![e] = @ \o b]
    /\ y.chan = [x.chan EXCEPT ![Other(e)] = Append(@, b)]
    /\ y.got = x.got /\ y.read_buf = x.read_buf /\ y.open = x.open /\ y.ended = x.ended
    /\ y.kind = x.kind /\ y.queued = x.queued

LEMMA WriteChanges ==
    ASSUME MockInv, NEW c \in 1..MaxConns, NEW e \in StreamEnds, NEW n \in Chunks, Write(c, e, n)
    PROVE  /\ UNCHANGED <<registry, nextport, lst, dialing>>
           /\ conn' \in [1..MaxConns -> Connection]
           /\ \A d \in 1..MaxConns : d # c => conn'[d] = conn[d]
           /\ Wrote(conn[c], conn'[c], e, Numbered(c, e, n))
<1> DEFINE x == conn[c]
           b == Numbered(c, e, n)
           f == [x.sent EXCEPT ![e] = @ \o b]
           g == [x.chan EXCEPT ![Other(e)] = Append(@, b)]
           y == [x EXCEPT !.sent = f, !.chan = g]
<1>1. conn \in [1..MaxConns -> Connection] /\ x \in Connection
  BY DEF MockInv, MockTypes
<1>2. conn' = [conn EXCEPT ![c] = y] /\ UNCHANGED <<registry, nextport, lst, dialing>>
  BY <1>1 DEF Write
<1>3. b \in Seq(Nat)
  <2>1. n \in Nat /\ x.sent[e] \in Seq(Nat)
    BY <1>1, MockConstants, ConnectionFields DEF MockParameters
  <2>2. \A i \in 1..n : Len(x.sent[e]) + i \in Nat
    BY <2>1
  <2> HIDE DEF x
  <2>3. [i \in 1..n |-> Len(x.sent[e]) + i] \in Seq(Nat)
    BY <2>1, <2>2
  <2> QED
    BY <2>3 DEF Numbered, x
<1>4. f \in ByteSeqs
  <2>1. x.sent[e] \o b \in Seq(Nat) /\ x.sent \in [StreamEnds -> Seq(Nat)]
    BY <1>1, <1>3, ConnectionFields, ConcatProperties DEF ByteSeqs
  <2> QED
    BY <2>1 DEF ByteSeqs
<1>5. g \in Channels
  <2> DEFINE S == Seq(Nat)
  <2>1. x.chan[Other(e)] \in Seq(S) /\ b \in S /\ x.chan \in [StreamEnds -> Seq(S)]
    BY <1>1, <1>3, EndsDiffer, ConnectionFields DEF Channels
  <2> HIDE DEF S
  <2>2. Append(x.chan[Other(e)], b) \in Seq(S)
    BY <2>1, AppendProperties
  <2>3. g \in [StreamEnds -> Seq(S)]
    BY <2>1, <2>2
  <2> QED
    BY <2>3 DEF S, Channels
<1> HIDE DEF f, g, b
<1>6. y \in Connection /\ y.sent = f /\ y.chan = g /\ y.got = x.got /\ y.read_buf = x.read_buf
      /\ y.open = x.open /\ y.ended = x.ended /\ y.kind = x.kind /\ y.queued = x.queued
  BY <1>1, <1>4, <1>5 DEF Connection, Channels
<1> HIDE DEF y
<1>7. conn'[c] = y /\ conn' \in [1..MaxConns -> Connection]
      /\ \A d \in 1..MaxConns : d # c => conn'[d] = conn[d]
  BY <1>1, <1>2, <1>6
<1>8. Wrote(x, y, e, b)
  BY <1>6 DEF Wrote, f, g
<1> QED
  BY <1>2, <1>7, <1>8 DEF b

LEMMA WroteFlows ==
    ASSUME NEW x \in Connection, NEW y \in Connection, NEW e \in StreamEnds, NEW b \in Seq(Nat),
           Follows(b, Len(x.sent[e])), Wrote(x, y, e, b),
           \A o \in StreamEnds : StreamFlows(x, o)
    PROVE  /\ \A o \in StreamEnds : StreamFlows(y, o)
           /\ y.sent[e] \in Seq(Nat) /\ Len(y.sent[e]) = Len(x.sent[e]) + Len(b)
<1> DEFINE o == Other(e)
           n == Len(x.sent[e])
<1>1. o \in StreamEnds /\ Other(o) = e /\ o # e
  BY EndsDiffer
<1>2. x.sent[e] \in Seq(Nat) /\ x.chan[o] \in Seq(Seq(Nat)) /\ x.got[o] \in Seq(Nat)
      /\ x.read_buf[o] \in Seq(Nat) /\ x.sent \in [StreamEnds -> Seq(Nat)]
      /\ x.chan \in [StreamEnds -> Seq(Seq(Nat))]
  BY <1>1, ConnectionFields DEF ByteSeqs, Channels
<1>3. n \in Nat /\ Len(b) \in Nat
  BY <1>2
<1>4. y.sent[e] = x.sent[e] \o b /\ y.chan[o] = Append(x.chan[o], b)
  BY <1>1, <1>2 DEF Wrote
<1>5. y.sent[o] = x.sent[o] /\ y.chan[e] = x.chan[e] /\ y.got = x.got /\ y.read_buf = x.read_buf
  BY <1>1, <1>2 DEF Wrote
<1>6. /\ Follows(x.sent[e], 0) /\ Follows(x.got[o], 0) /\ Follows(x.read_buf[o], Len(x.got[o]))
      /\ ChunksFollow(x.chan[o], Len(x.got[o]) + Len(x.read_buf[o]), n)
  BY <1>1 DEF StreamFlows
<1>7. /\ y.sent[e] \in Seq(Nat) /\ Len(y.sent[e]) = n + Len(b) /\ Follows(y.sent[e], 0)
  <2>1. Follows(b, 0 + Len(x.sent[e]))
    BY <1>3
  <2> QED
    BY <1>2, <1>3, <1>4, <1>6, <2>1, FollowsConcat
<1>8. ChunksFollow(y.chan[o], Len(x.got[o]) + Len(x.read_buf[o]), n + Len(b))
  <2> DEFINE q == x.chan[o]
             m == Len(x.got[o]) + Len(x.read_buf[o])
  <2>a. Len(x.got[o]) \in Nat /\ Len(x.read_buf[o]) \in Nat
    BY <1>2
  <2>b. m \in Nat
    <3> DEFINE u == Len(x.got[o])
               v == Len(x.read_buf[o])
    <3>1. u \in Nat /\ v \in Nat
      BY <2>a
    <3> HIDE DEF u, v
    <3>2. u + v \in Nat
      BY <3>1
    <3> QED
      BY <3>2 DEF u, v
  <2>1. q \in Seq(Seq(Nat)) /\ n \in Nat /\ m \in Nat /\ ChunksFollow(q, m, n) /\ Follows(b, n)
        /\ y.chan[o] = Append(q, b)
    BY <1>2, <1>3, <1>4, <1>6, <2>b
  <2> HIDE DEF q, n, m
  <2>2. ChunksFollow(Append(q, b), m, n + Len(b))
    BY <2>1, ChunkAppended
  <2> QED
    BY <2>1, <2>2 DEF m
<1>9. StreamFlows(y, o)
  BY <1>1, <1>5, <1>6, <1>7, <1>8 DEF StreamFlows
<1>10. StreamFlows(y, e)
  BY <1>1, <1>5 DEF StreamFlows
<1>11. \A p \in StreamEnds : p = e \/ p = o
  BY DEF StreamEnds, Other
<1> QED
  BY <1>7, <1>9, <1>10, <1>11

LEMMA WriteStep ==
    ASSUME MockInv, NEW c \in 1..MaxConns, NEW e \in StreamEnds, NEW n \in Chunks,
           conn[c].kind # "none", Write(c, e, n)
    PROVE  StreamStep(c) /\ Len(conn'[c].sent[e]) = Len(conn[c].sent[e]) + n
<1> DEFINE b == Numbered(c, e, n)
<1>1. conn[c] \in Connection /\ conn'[c] \in Connection /\ Wrote(conn[c], conn'[c], e, b)
  BY WriteChanges DEF MockInv, MockTypes
<1>2. n \in Nat /\ Len(conn[c].sent[e]) \in Nat
  BY <1>1, MockConstants, ConnectionFields DEF MockParameters
<1>3. b \in Seq(Nat) /\ Len(b) = n /\ Follows(b, Len(conn[c].sent[e]))
  <2> DEFINE m == Len(conn[c].sent[e])
  <2>1. m \in Nat
    BY <1>2
  <2>2. b = [i \in 1..n |-> m + i]
    BY DEF Numbered
  <2> HIDE DEF m, b
  <2>3. b \in Seq(Nat) /\ Len(b) = n /\ \A i \in 1..n : b[i] = m + i
    BY <1>2, <2>1, <2>2
  <2> QED
    BY <1>2, <2>3 DEF Follows, m
<1> HIDE DEF b
<1>4. \A o \in StreamEnds : StreamFlows(conn[c], o)
  BY DEF MockInv, StreamsFlow
<1>5. /\ \A o \in StreamEnds : StreamFlows(conn'[c], o)
      /\ Len(conn'[c].sent[e]) = Len(conn[c].sent[e]) + n
  BY <1>1, <1>3, <1>4, WroteFlows
<1>6. conn'[c].kind = conn[c].kind /\ conn'[c].queued = conn[c].queued
  BY <1>1 DEF Wrote
<1> QED
  BY <1>5, <1>6, WriteChanges DEF StreamStep

\* y is x after e has read k bytes of a chunk, with the channel q behind it.
Got(x, y, e, chunk, k, q) ==
    /\ y.got = [x.got EXCEPT ![e] = @ \o SubSeq(chunk, 1, k)]
    /\ y.read_buf = [x.read_buf EXCEPT ![e] = SubSeq(chunk, k + 1, Len(chunk))]
    /\ y.chan = [x.chan EXCEPT ![e] = q]
    /\ y.sent = x.sent /\ y.open = x.open /\ y.kind = x.kind /\ y.queued = x.queued

\* The chunk is what comes next, and q what comes after it.
Ready(x, e, chunk, q) ==
    /\ chunk \in Seq(Nat) /\ Follows(chunk, Len(x.got[e]))
    /\ q \in Seq(Seq(Nat))
    /\ ChunksFollow(q, Len(x.got[e]) + Len(chunk), Len(x.sent[Other(e)]))
    /\ Len(x.got[e]) + Len(chunk) <= Len(x.sent[Other(e)])

\* Where the chunks begin is no later than where they end.
LEMMA ChunksFit ==
    ASSUME NEW q \in Seq(Seq(Nat)), NEW m \in Nat, NEW n \in Nat, ChunksFollow(q, m, n)
    PROVE  m <= n
<1>1. PICK b \in [1..(Len(q) + 1) -> 0..n] : b[1] = m
  BY DEF ChunksFollow
<1>2. 1 \in 1..(Len(q) + 1)
  BY LenProperties
<1> QED
  BY <1>1, <1>2

LEMMA ReadyChunk ==
    ASSUME NEW x \in Connection, NEW e \in StreamEnds, StreamFlows(x, e)
    PROVE  /\ x.read_buf[e] # <<>> => Ready(x, e, x.read_buf[e], x.chan[e])
           /\ x.read_buf[e] = <<>> /\ x.chan[e] # <<>> => Ready(x, e, Head(x.chan[e]), Tail(x.chan[e]))
<1> DEFINE g == Len(x.got[e])
           rb == x.read_buf[e]
           q == x.chan[e]
           n == Len(x.sent[Other(e)])
<1>1. x.got[e] \in Seq(Nat) /\ rb \in Seq(Nat) /\ q \in Seq(Seq(Nat)) /\ x.sent[Other(e)] \in Seq(Nat)
  BY EndsDiffer, ConnectionFields
<1>2. g \in Nat /\ n \in Nat /\ Len(rb) \in Nat /\ Len(<<>>) = 0
  BY <1>1
<1>3. Follows(rb, g) /\ ChunksFollow(q, g + Len(rb), n)
  BY DEF StreamFlows
<1>4. Ready(x, e, rb, q)
  <2>1. g + Len(rb) \in Nat
    <3> HIDE DEF g, rb
    <3> QED
      BY <1>2
  <2>2. g + Len(rb) <= n
    <3> HIDE DEF g, rb, q, n
    <3> QED
      BY <1>1, <1>2, <1>3, <2>1, ChunksFit
  <2> QED
    BY <1>1, <1>3, <2>2 DEF Ready
<1>5. ASSUME rb = <<>>, q # <<>> PROVE Ready(x, e, Head(q), Tail(q))
  <2> HIDE DEF g, rb, q, n
  <2>1. g + Len(rb) = g
    BY <1>2, <1>5
  <2>2. ChunksFollow(q, g, n)
    BY <1>3, <2>1
  <2>3. /\ Head(q) \in Seq(Nat) /\ Tail(q) \in Seq(Seq(Nat)) /\ Follows(Head(q), g)
        /\ g + Len(Head(q)) <= n
        /\ ChunksFollow(Tail(q), g + Len(Head(q)), n)
    BY <1>1, <1>2, <1>5, <2>2, ChunkTaken
  <2> QED
    BY <2>3 DEF Ready, g, n
<1> QED
  BY <1>4, <1>5

LEMMA GotFlows ==
    ASSUME NEW x \in Connection, NEW y, NEW e \in StreamEnds, NEW chunk, NEW q, NEW k \in Nat,
           Ready(x, e, chunk, q), k <= Len(chunk), Got(x, y, e, chunk, k, q),
           \A o \in StreamEnds : StreamFlows(x, o)
    PROVE  /\ \A o \in StreamEnds : StreamFlows(y, o)
           /\ y.got \in ByteSeqs /\ y.read_buf \in ByteSeqs /\ y.chan \in Channels
           /\ Len(y.got[e]) = Len(x.got[e]) + k /\ Len(y.got[e]) <= Len(x.sent[Other(e)])
<1> DEFINE o == Other(e)
           g == Len(x.got[e])
           n == Len(x.sent[o])
           a == SubSeq(chunk, 1, k)
           r == SubSeq(chunk, k + 1, Len(chunk))
<1>1. o \in StreamEnds /\ Other(o) = e /\ o # e
  BY EndsDiffer
<1>2. x.got \in [StreamEnds -> Seq(Nat)] /\ x.read_buf \in [StreamEnds -> Seq(Nat)]
      /\ x.chan \in [StreamEnds -> Seq(Seq(Nat))] /\ x.got[e] \in Seq(Nat) /\ x.sent[o] \in Seq(Nat)
  BY <1>1, ConnectionFields DEF ByteSeqs, Channels
<1>3. g \in Nat /\ n \in Nat
  BY <1>2
<1>4. /\ chunk \in Seq(Nat) /\ Len(chunk) \in Nat /\ Follows(chunk, g)
      /\ q \in Seq(Seq(Nat)) /\ ChunksFollow(q, g + Len(chunk), n) /\ g + Len(chunk) <= n
  BY DEF Ready
<1>5. k \in 0..Len(chunk)
  BY <1>4
<1>6. /\ a \in Seq(Nat) /\ Len(a) = k /\ Follows(a, g)
      /\ r \in Seq(Nat) /\ Len(r) = Len(chunk) - k /\ Follows(r, g + k)
  <2> HIDE DEF g
  <2> QED
    BY <1>3, <1>4, <1>5, FollowsPart
<1>7. y.got[e] = x.got[e] \o a /\ y.read_buf[e] = r /\ y.chan[e] = q /\ y.sent = x.sent
  BY <1>2 DEF Got
<1>8. y.got[o] = x.got[o] /\ y.read_buf[o] = x.read_buf[o] /\ y.chan[o] = x.chan[o]
  BY <1>1, <1>2 DEF Got
<1>9. Follows(x.got[e], 0)
  BY DEF StreamFlows
<1> HIDE DEF a, r
<1>10. y.got[e] \in Seq(Nat) /\ Len(y.got[e]) = g + k /\ Follows(y.got[e], 0)
  <2>1. Follows(a, 0 + Len(x.got[e]))
    BY <1>3, <1>6
  <2> DEFINE s == x.got[e]
  <2>2. s \in Seq(Nat) /\ Follows(s, 0) /\ Follows(a, 0 + Len(s)) /\ y.got[e] = s \o a /\ g = Len(s)
    BY <1>2, <1>7, <1>9, <2>1
  <2> HIDE DEF s, g
  <2>3. s \o a \in Seq(Nat) /\ Len(s \o a) = Len(s) + Len(a) /\ Follows(s \o a, 0)
    BY <1>6, <2>2, FollowsConcat
  <2> QED
    BY <1>6, <2>2, <2>3
<1>11. StreamFlows(y, e)
  <2>1. Follows(y.read_buf[e], Len(y.got[e]))
    BY <1>6, <1>7, <1>10
  <2> DEFINE m == Len(chunk)
             from == Len(y.got[e]) + Len(y.read_buf[e])
  <2>2. from = g + k + (m - k) /\ m \in Nat
    BY <1>4, <1>6, <1>7, <1>10
  <2> HIDE DEF m, g, from
  <2>3. from = g + m
    BY <1>3, <2>2
  <2>4. ChunksFollow(q, from, n)
    BY <1>4, <2>3 DEF m
  <2>5. Follows(y.sent[o], 0)
    BY <1>7 DEF StreamFlows
  <2> QED
    BY <1>4, <1>7, <1>10, <2>1, <2>4, <2>5 DEF StreamFlows, from
<1>12. StreamFlows(y, o)
  <2>1. StreamFlows(x, o)
    BY <1>1
  <2> QED
    BY <1>7, <1>8, <2>1 DEF StreamFlows
<1>13. \A p \in StreamEnds : p = e \/ p = o
  BY DEF StreamEnds, Other
<1>14. y.got \in ByteSeqs /\ y.read_buf \in ByteSeqs
  <2>1. x.got[e] \o a \in Seq(Nat) /\ y.got = [x.got EXCEPT ![e] = x.got[e] \o a]
        /\ y.read_buf = [x.read_buf EXCEPT ![e] = r]
    BY <1>7, <1>10 DEF Got, a, r
  <2> QED
    BY <1>2, <1>6, <2>1 DEF ByteSeqs
<1>15. y.chan \in Channels
  BY <1>2, <1>4 DEF Got, Channels
<1>16. g + k <= n
  <2> DEFINE m == Len(chunk)
  <2>1. m \in Nat /\ k <= m /\ g + m <= n
    BY <1>4
  <2> HIDE DEF m, g, n
  <2> QED
    BY <1>3, <2>1
<1> QED
  BY <1>10, <1>11, <1>12, <1>13, <1>14, <1>15, <1>16

\* How much of a chunk a read takes.
TakenOf(chunk) == IF Len(chunk) < ReadBuf THEN Len(chunk) ELSE ReadBuf

LEMMA TakeStep ==
    ASSUME MockInv, NEW c \in 1..MaxConns, NEW e \in StreamEnds, NEW chunk, NEW q,
           conn[c].kind # "none", Ready(conn[c], e, chunk, q), Take(c, e, chunk, q),
           UNCHANGED <<registry, nextport, lst, dialing>>
    PROVE  /\ StreamStep(c)
           /\ TakenOf(chunk) \in Nat /\ (TakenOf(chunk) = 0 <=> Len(chunk) = 0)
           /\ Got(conn[c], conn'[c], e, chunk, TakenOf(chunk), q)
           /\ conn'[c].ended[Other(e)] = conn[c].ended[Other(e)]
           /\ TakenOf(chunk) # 0 => conn'[c].ended = conn[c].ended
           /\ Len(conn'[c].got[e]) = Len(conn[c].got[e]) + TakenOf(chunk)
           /\ Len(conn'[c].got[e]) <= Len(conn[c].sent[Other(e)])
<1> DEFINE x == conn[c]
           k == TakenOf(chunk)
           G == [x.got EXCEPT ![e] = @ \o SubSeq(chunk, 1, k)]
           R == [x.read_buf EXCEPT ![e] = SubSeq(chunk, k + 1, Len(chunk))]
           Q == [x.chan EXCEPT ![e] = q]
           B == [x.reading EXCEPT ![e] = FALSE]
           E == [x.ended EXCEPT ![e] = @ \/ k = 0]
           y == [x EXCEPT !.got = G, !.read_buf = R, !.chan = Q, !.reading = B, !.ended = E]
<1>1. conn \in [1..MaxConns -> Connection] /\ x \in Connection
  BY DEF MockInv, MockTypes
<1>2. conn' = [conn EXCEPT ![c] = y]
  <2>1. conn' = [conn EXCEPT ![c] = [x EXCEPT !.got[e] = @ \o SubSeq(chunk, 1, k),
                                              !.read_buf[e] = SubSeq(chunk, k + 1, Len(chunk)),
                                              !.chan[e] = q, !.reading[e] = FALSE,
                                              !.ended[e] = @ \/ k = 0]]
    BY <1>1 DEF Take, TakenOf
  <2> HIDE DEF k
  <2>2. y = [x EXCEPT !.got[e] = @ \o SubSeq(chunk, 1, k),
                      !.read_buf[e] = SubSeq(chunk, k + 1, Len(chunk)),
                      !.chan[e] = q, !.reading[e] = FALSE, !.ended[e] = @ \/ k = 0]
    BY <1>1 DEF Connection
  <2> QED
    BY <2>1, <2>2
<1>3. k \in Nat /\ k <= Len(chunk) /\ (k = 0 <=> Len(chunk) = 0)
  <2>1. Len(chunk) \in Nat /\ ReadBuf \in Nat \ {0}
    BY MockConstants DEF Ready, MockParameters
  <2> QED
    BY <2>1 DEF TakenOf
<1>4. B \in Flags
  BY <1>1, ConnectionFields DEF Flags
<1>5. E \in Flags /\ E[Other(e)] = x.ended[Other(e)] /\ (k # 0 => E = x.ended)
  <2>1. x.ended \in [StreamEnds -> BOOLEAN] /\ x.ended[e] \in BOOLEAN
    BY <1>1, ConnectionFields DEF Flags
  <2>2. (x.ended[e] \/ k = 0) \in BOOLEAN /\ (k # 0 => (x.ended[e] \/ k = 0) = x.ended[e])
    <3> HIDE DEF k, x
    <3> QED
      BY <2>1
  <2> DEFINE v == (x.ended[e] \/ k = 0)
  <2>3. E = [x.ended EXCEPT ![e] = v]
    OBVIOUS
  <2>4. v \in BOOLEAN /\ (k # 0 => v = x.ended[e])
    BY <2>2
  <2>5. Other(e) # e /\ Other(e) \in StreamEnds
    BY EndsDiffer
  <2> HIDE DEF k, v
  <2> QED
    BY <2>1, <2>3, <2>4, <2>5 DEF Flags
<1> HIDE DEF G, R, Q, B, E, k
<1>6. y.got = G /\ y.read_buf = R /\ y.chan = Q /\ y.sent = x.sent /\ y.open = x.open /\ y.kind = x.kind
      /\ y.queued = x.queued /\ y.ended = E
  BY <1>1 DEF Connection
<1>7. Got(x, y, e, chunk, k, q)
  BY <1>6 DEF Got, G, R, Q
<1> HIDE DEF y
<1>8. /\ \A o \in StreamEnds : StreamFlows(y, o)
      /\ y.got \in ByteSeqs /\ y.read_buf \in ByteSeqs /\ y.chan \in Channels
      /\ Len(y.got[e]) = Len(x.got[e]) + k /\ Len(y.got[e]) <= Len(x.sent[Other(e)])
  <2>1. \A o \in StreamEnds : StreamFlows(x, o)
    BY DEF MockInv, StreamsFlow
  <2>2. Ready(x, e, chunk, q)
    OBVIOUS
  <2> HIDE DEF x
  <2> QED
    BY <1>1, <1>3, <1>7, <2>1, <2>2, GotFlows
<1>9. y \in Connection
  <2>1. G \in ByteSeqs /\ R \in ByteSeqs /\ Q \in Channels /\ E \in Flags
    BY <1>5, <1>6, <1>8
  <2> QED
    BY <1>1, <1>4, <2>1 DEF Connection, Channels, y
<1>10. conn'[c] = y /\ conn' \in [1..MaxConns -> Connection]
       /\ \A d \in 1..MaxConns : d # c => conn'[d] = conn[d]
  BY <1>1, <1>2, <1>9
<1>11. y.ended = E
  BY <1>6
<1> QED
  BY <1>3, <1>5, <1>6, <1>7, <1>8, <1>10, <1>11 DEF StreamStep, k

\* The end: nothing is left to read.
LEMMA EndStep ==
    ASSUME MockInv, NEW c \in 1..MaxConns, NEW e \in StreamEnds, conn[c].kind # "none",
           conn[c].read_buf[e] = <<>>, conn[c].chan[e] = <<>>,
           conn' = [conn EXCEPT ![c].reading[e] = FALSE, ![c].ended[e] = TRUE],
           UNCHANGED <<registry, nextport, lst, dialing>>
    PROVE  /\ StreamStep(c) /\ conn[c].got[e] = conn[c].sent[Other(e)]
           /\ conn'[c].ended = [conn[c].ended EXCEPT ![e] = TRUE]
           /\ conn'[c].got = conn[c].got /\ conn'[c].sent = conn[c].sent /\ conn'[c].open = conn[c].open
<1> DEFINE x == conn[c]
           B == [x.reading EXCEPT ![e] = FALSE]
           E == [x.ended EXCEPT ![e] = TRUE]
           y == [x EXCEPT !.reading = B, !.ended = E]
<1>1. conn \in [1..MaxConns -> Connection] /\ x \in Connection
  BY DEF MockInv, MockTypes
<1>2. conn' = [conn EXCEPT ![c] = y]
  BY <1>1
<1>3. B \in Flags /\ E \in Flags
  BY <1>1, ConnectionFields DEF Flags
<1> HIDE DEF B, E
<1>4. y \in Connection /\ y.ended = E /\ y.got = x.got /\ y.sent = x.sent /\ y.open = x.open
      /\ y.kind = x.kind /\ y.queued = x.queued /\ SameBytes(x, y)
  BY <1>1, <1>3 DEF Connection, SameBytes
<1> HIDE DEF y
<1>5. conn'[c] = y /\ conn' \in [1..MaxConns -> Connection]
      /\ \A d \in 1..MaxConns : d # c => conn'[d] = conn[d]
  BY <1>1, <1>2, <1>4
<1>6. \A o \in StreamEnds : StreamFlows(x, o)
  BY DEF MockInv, StreamsFlow
<1>7. \A o \in StreamEnds : StreamFlows(y, o)
  BY <1>4, <1>6, SameBytesFlow
<1>8. x.got[e] = x.sent[Other(e)]
  <2> DEFINE s == x.got[e]
             t == x.sent[Other(e)]
  <2>1. s \in Seq(Nat) /\ t \in Seq(Nat) /\ Follows(s, 0) /\ Follows(t, 0)
        /\ ChunksFollow(<<>>, Len(s) + Len(<<>>), Len(t))
    BY <1>1, <1>6, EndsDiffer, ConnectionFields DEF StreamFlows
  <2> HIDE DEF s, t
  <2>2. Len(s) + Len(<<>>) = Len(s) /\ Len(s) \in Nat /\ Len(t) \in Nat
    BY <2>1
  <2>a. Len(s) = Len(t)
    BY <2>1, <2>2, NoChunks
  <2>3. s = t
    BY <2>1, <2>a, FollowsSame
  <2> QED
    BY <2>3 DEF s, t
<1> QED
  BY <1>4, <1>5, <1>7, <1>8 DEF StreamStep, E

-----------------------------------------------------------------------------
(* Listeners, queues and the registry                                      *)

LEMMA AddressFacts ==
    ASSUME NEW a \in Addresses
    PROVE  a \in SomeAddr
<1>1. MockParameters
  BY MockConstants
<1> QED
  BY <1>1 DEF Addresses, SomeAddr, MockParameters

LEMMA ListenerFields ==
    ASSUME NEW x \in Listener
    PROVE  /\ x.st \in {"none", "live", "closing", "gone"} /\ x.addr \in SomeAddr
           /\ x.queue \in Seq((1..MaxConns) \union Datagram)
  BY DEF Listener

LEMMA RegisterInv ==
    ASSUME MockInv, NEW a \in Addresses, Register(a), UNCHANGED <<conn, dialing>>,
           nextport' \in Nat, nextport' >= FirstPort
    PROVE  MockInv'
<1>1. CASE registry[a] # 0
  <2>1. UNCHANGED <<lst, registry, conn, dialing>>
    BY <1>1 DEF Register
  <2>2. MockTypes'
    BY <2>1 DEF MockInv, MockTypes
  <2>3. ListenersAreBound' /\ DialsAreStreams' /\ QueuedAreWaiting'
    BY <2>1 DEF MockInv, ListenersAreBound, DialsAreStreams, QueuedAreWaiting
  <2>4. StreamsFlow' /\ RegistryAgrees'
    BY <2>1 DEF MockInv, StreamsFlow, RegistryAgrees
  <2> QED
    BY <2>2, <2>3, <2>4 DEF MockInv
<1>2. CASE registry[a] = 0
  <2>1. PICK l \in 1..MaxListeners :
           /\ lst[l].st = "none"
           /\ lst' = [lst EXCEPT ![l] = [st |-> "live", addr |-> a, queue |-> <<>>]]
           /\ registry' = [registry EXCEPT ![a] = l]
    BY <1>2 DEF Register
  <2> DEFINE new == [st |-> "live", addr |-> a, queue |-> <<>>]
  <2>2. /\ registry \in [Addresses -> 0..MaxListeners] /\ lst \in [1..MaxListeners -> Listener]
        /\ conn \in [1..MaxConns -> Connection]
        /\ dialing \in [Dialer -> [addr : SomeAddr, tx : 0..MaxListeners]]
    BY DEF MockInv, MockTypes
  <2>3. new \in Listener /\ new.st = "live" /\ new.addr = a /\ new.queue = <<>>
    BY AddressFacts DEF Listener
  <2>4. lst'[l] = new /\ \A k \in 1..MaxListeners : k # l => lst'[k] = lst[k]
    BY <2>1, <2>2
  <2>5. registry'[a] = l /\ \A b \in Addresses : b # a => registry'[b] = registry[b]
    BY <2>1, <2>2
  <2> HIDE DEF new
  <2>6. MockTypes'
    <3>1. lst' \in [1..MaxListeners -> Listener]
      BY <2>1, <2>2, <2>3 DEF new
    <3>2. registry' \in [Addresses -> 0..MaxListeners]
      <4>1. l \in 0..MaxListeners
        BY MockConstants DEF MockParameters
      <4> QED
        BY <2>1, <2>2, <4>1
    <3> QED
      BY <2>2, <3>1, <3>2 DEF MockTypes
  <2>7. ListenersAreBound'
    <3> SUFFICES ASSUME NEW k \in 1..MaxListeners
                 PROVE  /\ lst'[k].st # "none" => lst'[k].addr \in Addresses
                        /\ lst'[k].st # "none" /\ Streaming(lst'[k].addr) =>
                              \A i \in 1..Len(lst'[k].queue) : lst'[k].queue[i] \in 1..MaxConns
      BY DEF ListenersAreBound
    <3>1. CASE k = l
      BY <2>3, <2>4, <3>1
    <3>2. CASE k # l
      BY <2>4, <3>2 DEF MockInv, ListenersAreBound
    <3> QED
      BY <3>1, <3>2
  <2>8. DialsAreStreams'
    <3> SUFFICES ASSUME NEW t \in Dialer, dialing[t].tx # 0
                 PROVE  /\ Streaming(dialing[t].addr)
                        /\ lst'[dialing[t].tx].st # "none" /\ Streaming(lst'[dialing[t].tx].addr)
      BY DEF DialsAreStreams
    <3>1. dialing[t].tx \in 1..MaxListeners
      BY <2>2
    <3>2. lst[dialing[t].tx].st # "none" /\ Streaming(lst[dialing[t].tx].addr) /\ Streaming(dialing[t].addr)
      BY DEF MockInv, DialsAreStreams
    <3> QED
      BY <2>1, <2>4, <3>1, <3>2
  <2>9. QueuedAreWaiting'
    <3> SUFFICES ASSUME NEW c \in 1..MaxConns, conn[c].queued # 0
                 PROVE  lst'[conn[c].queued] = lst[conn[c].queued]
      BY DEF MockInv, QueuedAreWaiting
    <3>1. conn[c].queued \in 1..MaxListeners
      BY <2>2 DEF Connection
    <3>2. lst[conn[c].queued].st # "none"
      BY DEF MockInv, QueuedAreWaiting
    <3> QED
      BY <2>1, <2>4, <3>1, <3>2
  <2>10. RegistryAgrees'
    <3> SUFFICES ASSUME NEW b \in Addresses, NEW k \in 1..MaxListeners
                 PROVE  registry'[b] = k <=> lst'[k].st = "live" /\ lst'[k].addr = b
      BY DEF RegistryAgrees
    <3>1. registry[b] = k <=> lst[k].st = "live" /\ lst[k].addr = b
      BY DEF MockInv, RegistryAgrees
    <3>2. k # 0
      OBVIOUS
    <3>3. CASE k = l
      BY <2>1, <2>3, <2>4, <2>5, <3>1, <3>3
    <3>4. CASE k # l
      BY <1>2, <2>4, <2>5, <3>1, <3>2, <3>4
    <3> QED
      BY <3>3, <3>4
  <2>11. StreamsFlow'
    BY DEF MockInv, StreamsFlow
  <2> QED
    BY <2>6, <2>7, <2>8, <2>9, <2>10, <2>11 DEF MockInv
<1> QED
  BY <1>1, <1>2

LEMMA ListenInv ==
    ASSUME MockInv, NEW a \in Addr, mock_listen(a)
    PROVE  MockInv'
<1> DEFINE addr == IF a.port = 0 THEN [a EXCEPT !.port = nextport] ELSE a
<1>1. MockParameters
  BY MockConstants
<1>2. nextport \in Nat /\ nextport >= FirstPort
  BY DEF MockInv, MockTypes
<1>3. a \in [kind : {"tcp", "unix", "udp"}, port : Nat] /\ (a.kind = "unix" => a.port # 0)
  BY <1>1 DEF MockParameters
<1>4. addr \in Addresses /\ nextport' \in Nat /\ nextport' >= FirstPort
  <2>1. CASE a.port = 0
    <3>1. nextport <= LastPort /\ nextport' = nextport + 1
      BY <2>1 DEF mock_listen, next_ephemeral_port
    <3>2. nextport \in FirstPort..LastPort /\ a.kind \in {"tcp", "udp"}
      BY <1>1, <1>2, <1>3, <2>1, <3>1 DEF MockParameters
    <3>3. addr = [kind |-> a.kind, port |-> nextport]
      BY <1>3, <2>1
    <3>4. addr \in Addresses
      BY <3>2, <3>3 DEF Addresses
    <3>5. FirstPort \in Nat
      BY <1>1 DEF MockParameters
    <3> QED
      BY <1>2, <3>1, <3>4, <3>5
  <2>2. CASE a.port # 0
    BY <1>2, <2>2 DEF Addresses, mock_listen
  <2> QED
    BY <2>1, <2>2
<1>5. Register(addr) /\ UNCHANGED <<conn, dialing>>
  BY DEF mock_listen
<1> HIDE DEF addr
<1> QED
  BY <1>4, <1>5, RegisterInv

\* A step that changes one listener only: it stays made, at its address, and
\* its queue keeps what it must.
LEMMA OneListenerInv ==
    ASSUME MockInv, NEW l \in 1..MaxListeners, NEW x \in Listener,
           lst' = [lst EXCEPT ![l] = x], UNCHANGED <<nextport, conn, dialing>>,
           x.st \in {"live", "closing"}, x.addr = lst[l].addr, lst[l].st = "live",
           Streaming(x.addr) => x.queue = lst[l].queue,
           registry' \in [Addresses -> 0..MaxListeners], RegistryAgrees'
    PROVE  MockInv'
<1>1. /\ lst \in [1..MaxListeners -> Listener] /\ conn \in [1..MaxConns -> Connection]
      /\ dialing \in [Dialer -> [addr : SomeAddr, tx : 0..MaxListeners]]
  BY DEF MockInv, MockTypes
<1>2. lst'[l] = x /\ \A k \in 1..MaxListeners : k # l => lst'[k] = lst[k]
  BY <1>1
<1>3. MockTypes'
  BY <1>1 DEF MockInv, MockTypes
<1>4. ListenersAreBound'
  <2> SUFFICES ASSUME NEW k \in 1..MaxListeners
               PROVE  /\ lst'[k].st # "none" => lst'[k].addr \in Addresses
                      /\ lst'[k].st # "none" /\ Streaming(lst'[k].addr) =>
                            \A i \in 1..Len(lst'[k].queue) : lst'[k].queue[i] \in 1..MaxConns
    BY DEF ListenersAreBound
  <2>1. CASE k = l
    BY <1>2, <2>1 DEF MockInv, ListenersAreBound
  <2>2. CASE k # l
    BY <1>2, <2>2 DEF MockInv, ListenersAreBound
  <2> QED
    BY <2>1, <2>2
<1>5. DialsAreStreams'
  <2> SUFFICES ASSUME NEW t \in Dialer, dialing[t].tx # 0
               PROVE  /\ Streaming(dialing[t].addr)
                      /\ lst'[dialing[t].tx].st # "none" /\ Streaming(lst'[dialing[t].tx].addr)
    BY DEF DialsAreStreams
  <2>1. dialing[t].tx \in 1..MaxListeners
    BY <1>1
  <2>2. lst[dialing[t].tx].st # "none" /\ Streaming(lst[dialing[t].tx].addr) /\ Streaming(dialing[t].addr)
    BY DEF MockInv, DialsAreStreams
  <2> QED
    BY <1>2, <2>1, <2>2
<1>6. QueuedAreWaiting'
  <2> SUFFICES ASSUME NEW c \in 1..MaxConns, conn[c].queued # 0
               PROVE  /\ lst'[conn[c].queued].st \in {"live", "closing"}
                      /\ Streaming(lst'[conn[c].queued].addr)
                      /\ \E i \in 1..Len(lst'[conn[c].queued].queue) : lst'[conn[c].queued].queue[i] = c
    BY DEF QueuedAreWaiting
  <2>1. conn[c].queued \in 1..MaxListeners
    BY <1>1 DEF Connection
  <2>2. /\ lst[conn[c].queued].st \in {"live", "closing"}
        /\ Streaming(lst[conn[c].queued].addr)
        /\ \E i \in 1..Len(lst[conn[c].queued].queue) : lst[conn[c].queued].queue[i] = c
    BY DEF MockInv, QueuedAreWaiting
  <2> QED
    BY <1>2, <2>1, <2>2
<1>7. StreamsFlow'
  BY DEF MockInv, StreamsFlow
<1> QED
  BY <1>3, <1>4, <1>5, <1>6, <1>7 DEF MockInv

LEMMA DeregisterInv ==
    ASSUME MockInv, NEW l \in 1..MaxListeners, NEW k, Deregister(l, k)
    PROVE  MockInv'
<1> DEFINE x == [lst[l] EXCEPT !.st = "closing"]
           a == lst[l].addr
<1>1. lst \in [1..MaxListeners -> Listener] /\ registry \in [Addresses -> 0..MaxListeners]
  BY DEF MockInv, MockTypes
<1>2. x \in Listener /\ x.st = "closing" /\ x.addr = a /\ x.queue = lst[l].queue
  BY <1>1 DEF Listener
<1>3. /\ lst[l].st = "live" /\ lst' = [lst EXCEPT ![l] = x] /\ UNCHANGED <<nextport, conn, dialing>>
      /\ registry' = [registry EXCEPT ![a] = 0]
  BY <1>1 DEF Deregister
<1>4. a \in Addresses
  BY <1>3 DEF MockInv, ListenersAreBound
<1>5. registry' \in [Addresses -> 0..MaxListeners]
  <2>1. 0 \in 0..MaxListeners
    BY MockConstants DEF MockParameters
  <2> QED
    BY <1>1, <1>3, <2>1
<1>6. RegistryAgrees'
  <2> SUFFICES ASSUME NEW b \in Addresses, NEW m \in 1..MaxListeners
               PROVE  registry'[b] = m <=> lst'[m].st = "live" /\ lst'[m].addr = b
    BY DEF RegistryAgrees
  <2> HIDE DEF x, a
  <2>1. /\ registry[b] = m <=> lst[m].st = "live" /\ lst[m].addr = b
        /\ registry[a] = m <=> lst[m].st = "live" /\ lst[m].addr = a
        /\ registry[a] = l <=> lst[l].st = "live" /\ lst[l].addr = a
    BY <1>4 DEF MockInv, RegistryAgrees
  <2>2. m # 0 /\ registry[a] = l
    BY <1>3, <2>1 DEF a
  <2>3. CASE m = l
    BY <1>1, <1>2, <1>3, <1>4, <2>1, <2>2, <2>3
  <2>4. CASE m # l
    BY <1>1, <1>3, <1>4, <2>1, <2>2, <2>4
  <2> QED
    BY <2>3, <2>4
<1> HIDE DEF x
<1> QED
  BY <1>2, <1>3, <1>5, <1>6, OneListenerInv

LEMMA SendToInv ==
    ASSUME MockInv, NEW l \in 1..MaxListeners, NEW a \in Addr, NEW n \in Chunks, mock_udp_send_to(l, a, n)
    PROVE  MockInv'
<1> DEFINE r == registry[a]
           d == [from |-> lst[l].addr, to |-> a, len |-> n]
           x == [lst[r] EXCEPT !.queue = <<d>>]
<1>1. lst \in [1..MaxListeners -> Listener] /\ registry \in [Addresses -> 0..MaxListeners]
  BY DEF MockInv, MockTypes
<1>2. MockParameters
  BY MockConstants
<1>3. a \in Addresses /\ a \in SomeAddr /\ a.kind = "udp"
  BY <1>2 DEF mock_udp_send_to, Addresses, SomeAddr, MockParameters
<1>4. r \in 1..MaxListeners
  BY <1>1, <1>3 DEF mock_udp_send_to
<1>5. lst[r].st = "live" /\ lst[r].addr = a
  BY <1>3, <1>4 DEF MockInv, RegistryAgrees
<1>6. d \in Datagram
  BY <1>1, <1>2, <1>3, ListenerFields DEF Datagram, MockParameters
<1>7. /\ lst' = [lst EXCEPT ![r] = x] /\ UNCHANGED <<registry, nextport, conn, dialing>>
  BY <1>1, <1>4 DEF mock_udp_send_to
<1>8. x \in Listener /\ x.st = "live" /\ x.addr = a
  <2> DEFINE S == (1..MaxConns) \union Datagram
  <2> HIDE DEF d
  <2>1. d \in S
    BY <1>6
  <2>2. lst[r] \in [st : {"none", "live", "closing", "gone"}, addr : SomeAddr, queue : Seq(S)]
    BY <1>1, <1>4 DEF Listener
  <2> HIDE DEF S
  <2>3. <<d>> \in Seq(S)
    BY <2>1
  <2>4. x \in [st : {"none", "live", "closing", "gone"}, addr : SomeAddr, queue : Seq(S)]
        /\ x.st = lst[r].st /\ x.addr = lst[r].addr
    BY <2>2, <2>3
  <2> QED
    BY <1>5, <2>4 DEF Listener, S
<1>9. ~Streaming(x.addr)
  BY <1>3, <1>8 DEF Streaming
<1>10. RegistryAgrees'
  <2> SUFFICES ASSUME NEW b \in Addresses, NEW m \in 1..MaxListeners
               PROVE  lst'[m].st = lst[m].st /\ lst'[m].addr = lst[m].addr
    BY <1>7 DEF MockInv, RegistryAgrees
  <2> HIDE DEF x, r
  <2> QED
    BY <1>1, <1>4, <1>5, <1>7, <1>8
<1> HIDE DEF x, r
<1> QED
  BY <1>1, <1>4, <1>5, <1>7, <1>8, <1>9, <1>10, OneListenerInv

LEMMA RecvFromInv ==
    ASSUME MockInv, NEW l \in 1..MaxListeners, mock_udp_recv_from(l)
    PROVE  MockInv'
<1> DEFINE x == [lst[l] EXCEPT !.queue = <<>>]
<1>1. lst \in [1..MaxListeners -> Listener] /\ registry \in [Addresses -> 0..MaxListeners]
  BY DEF MockInv, MockTypes
<1>2. x \in Listener /\ x.st = lst[l].st /\ x.addr = lst[l].addr
  <2>1. <<>> \in Seq((1..MaxConns) \union Datagram)
    OBVIOUS
  <2> QED
    BY <1>1, <2>1 DEF Listener
<1>3. /\ lst[l].st = "live" /\ lst[l].addr.kind = "udp" /\ lst' = [lst EXCEPT ![l] = x]
      /\ UNCHANGED <<registry, nextport, conn, dialing>>
  BY <1>1 DEF mock_udp_recv_from
<1>4. RegistryAgrees'
  <2> SUFFICES ASSUME NEW b \in Addresses, NEW m \in 1..MaxListeners
               PROVE  lst'[m].st = lst[m].st /\ lst'[m].addr = lst[m].addr
    BY <1>3 DEF MockInv, RegistryAgrees
  <2> HIDE DEF x
  <2> QED
    BY <1>1, <1>2, <1>3
<1>5. ~Streaming(x.addr)
  BY <1>2, <1>3 DEF Streaming
<1> HIDE DEF x
<1> QED
  BY <1>1, <1>2, <1>3, <1>4, <1>5, OneListenerInv

LEMMA LookupInv ==
    ASSUME MockInv, NEW t \in Dialer, NEW a \in Addresses, Streaming(a), Lookup(t, a)
    PROVE  MockInv'
<1>1. /\ registry \in [Addresses -> 0..MaxListeners] /\ nextport \in Nat /\ nextport >= FirstPort
      /\ dialing \in [Dialer -> [addr : SomeAddr, tx : 0..MaxListeners]]
  BY DEF MockInv, MockTypes
<1>2. /\ registry[a] \in 1..MaxListeners /\ UNCHANGED <<registry, lst, conn>>
      /\ dialing' = [dialing EXCEPT ![t] = [addr |-> a, tx |-> registry[a]]]
      /\ nextport' = nextport + 1 \/ nextport' = nextport
  BY <1>1 DEF Lookup, next_ephemeral_port
<1>3. lst[registry[a]].st = "live" /\ lst[registry[a]].addr = a
  BY <1>2 DEF MockInv, RegistryAgrees
<1>4. MockTypes'
  <2>1. dialing' \in [Dialer -> [addr : SomeAddr, tx : 0..MaxListeners]]
    <3>1. [addr |-> a, tx |-> registry[a]] \in [addr : SomeAddr, tx : 0..MaxListeners]
      BY <1>1, AddressFacts
    <3> QED
      BY <1>1, <1>2, <3>1
  <2>2. nextport' \in Nat /\ nextport' >= FirstPort
    <3>1. FirstPort \in Nat
      BY MockConstants DEF MockParameters
    <3> QED
      BY <1>1, <1>2, <3>1
  <2> QED
    BY <1>2, <2>1, <2>2 DEF MockInv, MockTypes
<1>5. ListenersAreBound' /\ QueuedAreWaiting' /\ StreamsFlow' /\ RegistryAgrees'
  BY <1>2 DEF MockInv, ListenersAreBound, QueuedAreWaiting, StreamsFlow, RegistryAgrees
<1>6. DialsAreStreams'
  <2> SUFFICES ASSUME NEW u \in Dialer, dialing'[u].tx # 0
               PROVE  /\ Streaming(dialing'[u].addr)
                      /\ lst[dialing'[u].tx].st # "none" /\ Streaming(lst[dialing'[u].tx].addr)
    BY <1>2 DEF DialsAreStreams
  <2>1. CASE u = t
    <3>1. dialing'[u].addr = a /\ dialing'[u].tx = registry[a]
      BY <1>1, <1>2, <2>1
    <3> QED
      BY <1>3, <3>1
  <2>2. CASE u # t
    <3>1. dialing'[u] = dialing[u]
      BY <1>1, <1>2, <2>2
    <3> QED
      BY <3>1 DEF MockInv, DialsAreStreams
  <2> QED
    BY <2>1, <2>2
<1> QED
  BY <1>4, <1>5, <1>6 DEF MockInv

LEMMA AcceptInv ==
    ASSUME MockInv, NEW l \in 1..MaxListeners, NEW k \in {"tcp", "unix"}, mock_accept(l, k)
    PROVE  MockInv'
<1> DEFINE q == lst[l].queue
           h == Head(q)
           x == [lst[l] EXCEPT !.queue = Tail(q)]
           y == [conn[h] EXCEPT !.queued = 0]
<1>1. /\ lst \in [1..MaxListeners -> Listener] /\ conn \in [1..MaxConns -> Connection]
      /\ dialing \in [Dialer -> [addr : SomeAddr, tx : 0..MaxListeners]]
  BY DEF MockInv, MockTypes
<1>2. /\ lst[l].st = "live" /\ Streaming(lst[l].addr) /\ q # <<>>
      /\ lst' = [lst EXCEPT ![l] = x] /\ UNCHANGED <<registry, nextport, dialing>>
      /\ conn' = [conn EXCEPT ![h] = y]
  BY <1>1 DEF mock_accept, Streaming
<1>3. /\ h = q[1] /\ Len(q) \in Nat \ {0}
      /\ Tail(q) \in Seq((1..MaxConns) \union Datagram) /\ Len(Tail(q)) = Len(q) - 1
      /\ \A i \in 1..Len(Tail(q)) : Tail(q)[i] = q[i + 1]
  <2> DEFINE S == (1..MaxConns) \union Datagram
  <2>1. q \in Seq(S)
    BY <1>1, ListenerFields
  <2> HIDE DEF S, q
  <2> QED
    BY <1>2, <2>1, Dequeued DEF S
<1>4. \A i \in 1..Len(q) : q[i] \in 1..MaxConns
  BY <1>2 DEF MockInv, ListenersAreBound
<1>5. h \in 1..MaxConns
  BY <1>3, <1>4
<1>6. x \in Listener /\ x.st = "live" /\ x.addr = lst[l].addr /\ x.queue = Tail(q)
  BY <1>1, <1>2, <1>3 DEF Listener
<1>7. /\ y \in Connection /\ y.queued = 0 /\ y.kind = conn[h].kind /\ SameBytes(conn[h], y)
      /\ conn[h] = NoConn => y = NoConn
  <2>1. y \in Connection /\ y.queued = 0 /\ y.kind = conn[h].kind /\ SameBytes(conn[h], y)
    <3>1. 0 \in 0..MaxListeners /\ conn[h] \in Connection
      BY <1>1, <1>5, MockConstants DEF MockParameters
    <3> QED
      BY <3>1 DEF Connection, SameBytes
  <2>2. [NoConn EXCEPT !.queued = 0] = NoConn
    <3>1. \A z \in Connection : z.queued = 0 => [z EXCEPT !.queued = 0] = z
      BY DEF Connection
    <3>2. NoConn.queued = 0
      BY DEF NoConn
    <3> QED
      BY <3>1, <3>2, NoConnType
  <2> QED
    BY <2>1, <2>2
<1> HIDE DEF x, y, h, q
<1>8. lst'[l] = x /\ \A m \in 1..MaxListeners : m # l => lst'[m] = lst[m]
  BY <1>1, <1>2
<1>9. conn'[h] = y /\ \A c \in 1..MaxConns : c # h => conn'[c] = conn[c]
  BY <1>1, <1>2, <1>5
<1>10. MockTypes'
  <2>1. lst' \in [1..MaxListeners -> Listener] /\ conn' \in [1..MaxConns -> Connection]
    BY <1>1, <1>2, <1>6, <1>7
  <2> QED
    BY <1>2, <2>1 DEF MockInv, MockTypes
<1>11. ListenersAreBound'
  <2> SUFFICES ASSUME NEW m \in 1..MaxListeners
               PROVE  /\ lst'[m].st # "none" => lst'[m].addr \in Addresses
                      /\ lst'[m].st # "none" /\ Streaming(lst'[m].addr) =>
                            \A i \in 1..Len(lst'[m].queue) : lst'[m].queue[i] \in 1..MaxConns
    BY DEF ListenersAreBound
  <2>1. CASE m = l
    <3>1. lst[l].addr \in Addresses
      BY <1>2 DEF MockInv, ListenersAreBound
    <3>2. \A i \in 1..Len(Tail(q)) : i + 1 \in 1..Len(q)
      BY <1>3
    <3>3. \A i \in 1..Len(Tail(q)) : Tail(q)[i] \in 1..MaxConns
      BY <1>3, <1>4, <3>2
    <3> QED
      BY <1>6, <1>8, <2>1, <3>1, <3>3
  <2>2. CASE m # l
    BY <1>8, <2>2 DEF MockInv, ListenersAreBound
  <2> QED
    BY <2>1, <2>2
<1>12. \A m \in 1..MaxListeners : lst'[m].st = lst[m].st /\ lst'[m].addr = lst[m].addr
  BY <1>2, <1>6, <1>8
<1>13. DialsAreStreams'
  <2>1. \A t \in Dialer : dialing[t].tx # 0 => dialing[t].tx \in 1..MaxListeners
    BY <1>1
  <2> QED
    BY <1>2, <1>12, <2>1 DEF MockInv, DialsAreStreams
<1>14. QueuedAreWaiting'
  <2> SUFFICES ASSUME NEW c \in 1..MaxConns, conn'[c].queued # 0
               PROVE  /\ lst'[conn'[c].queued].st \in {"live", "closing"}
                      /\ Streaming(lst'[conn'[c].queued].addr)
                      /\ \E i \in 1..Len(lst'[conn'[c].queued].queue) : lst'[conn'[c].queued].queue[i] = c
    BY DEF QueuedAreWaiting
  <2>1. c # h /\ conn'[c] = conn[c]
    BY <1>7, <1>9
  <2> DEFINE m == conn[c].queued
  <2>2. m \in 1..MaxListeners /\ conn'[c].queued = m
    BY <1>1, <2>1 DEF Connection
  <2>3. PICK i \in 1..Len(lst[m].queue) : lst[m].queue[i] = c
    BY <2>1, <2>2 DEF MockInv, QueuedAreWaiting
  <2>4. lst[m].st \in {"live", "closing"} /\ Streaming(lst[m].addr)
    BY <2>1, <2>2 DEF MockInv, QueuedAreWaiting
  <2> HIDE DEF m
  <2>5. \E j \in 1..Len(lst'[m].queue) : lst'[m].queue[j] = c
    <3>1. CASE m = l
      <4>1. lst[m].queue = q /\ lst'[m].queue = Tail(q)
        BY <1>6, <1>8, <3>1 DEF q
      <4>2. i # 1
        BY <1>3, <2>1, <2>3, <4>1
      <4>3. i - 1 \in 1..Len(Tail(q)) /\ (i - 1) + 1 = i
        BY <1>3, <2>3, <4>1, <4>2
      <4> QED
        BY <1>3, <2>3, <4>1, <4>3
    <3>2. CASE m # l
      BY <1>8, <2>2, <2>3, <3>2
    <3> QED
      BY <3>1, <3>2
  <2> QED
    BY <1>12, <2>2, <2>4, <2>5
<1>15. StreamsFlow'
  <2> SUFFICES ASSUME NEW c \in 1..MaxConns
               PROVE  /\ conn'[c].kind = "none" => conn'[c] = NoConn
                      /\ \A o \in StreamEnds : StreamFlows(conn'[c], o)
    BY DEF StreamsFlow
  <2>1. /\ conn[c].kind = "none" => conn[c] = NoConn
        /\ \A o \in StreamEnds : StreamFlows(conn[c], o)
    BY DEF MockInv, StreamsFlow
  <2>2. CASE c = h
    BY <1>7, <1>9, <2>1, <2>2, SameBytesFlow
  <2>3. CASE c # h
    BY <1>9, <2>1, <2>3
  <2> QED
    BY <2>2, <2>3
<1>16. RegistryAgrees'
  BY <1>2, <1>12 DEF MockInv, RegistryAgrees
<1> QED
  BY <1>10, <1>11, <1>13, <1>14, <1>15, <1>16 DEF MockInv

\* A server end that was queued closes, unless it has.
LEMMA DropReceiverConns ==
    ASSUME MockInv, NEW l \in 1..MaxListeners, DropReceiver(l), NEW c \in 1..MaxConns
    PROVE  /\ conn'[c] \in Connection /\ SameBytes(conn[c], conn'[c]) /\ conn'[c].kind = conn[c].kind
           /\ conn'[c].ended = conn[c].ended /\ conn'[c].queued \in {0, conn[c].queued} \ {l}
           /\ \/ conn'[c] = conn[c]
              \/ conn'[c].open = [conn[c].open EXCEPT !["server"] = FALSE] /\ conn[c].queued = l
<1> DEFINE f == [conn[c].open EXCEPT !["server"] = FALSE]
           y == [conn[c] EXCEPT !.open = f, !.queued = 0]
<1>1. conn \in [1..MaxConns -> Connection]
  BY DEF MockInv, MockTypes
<1>2. conn'[c] = IF conn[c].queued = l THEN y ELSE conn[c]
  BY <1>1 DEF DropReceiver, Connection
<1>3. f \in Flags
  BY <1>1, ConnectionFields DEF Flags, StreamEnds
<1> HIDE DEF f
<1>4. 0 \in 0..MaxListeners /\ l # 0
  BY MockConstants DEF MockParameters
<1>5. y \in Connection /\ SameBytes(conn[c], y) /\ y.kind = conn[c].kind /\ y.ended = conn[c].ended
      /\ y.queued = 0 /\ y.open = f
  BY <1>1, <1>3, <1>4 DEF Connection, SameBytes
<1> HIDE DEF y
<1>6. CASE conn[c].queued = l
  BY <1>2, <1>4, <1>5, <1>6 DEF f
<1>7. CASE conn[c].queued # l
  <2>1. conn'[c] = conn[c] /\ conn[c] \in Connection
    BY <1>1, <1>2, <1>7
  <2> QED
    BY <1>7, <2>1 DEF SameBytes
<1> QED
  BY <1>6, <1>7

LEMMA DropReceiverInv ==
    ASSUME MockInv, NEW l \in 1..MaxListeners, DropReceiver(l)
    PROVE  MockInv'
<1> DEFINE x == [lst[l] EXCEPT !.st = "gone", !.queue = <<>>]
<1>1. /\ lst \in [1..MaxListeners -> Listener] /\ conn \in [1..MaxConns -> Connection]
      /\ dialing \in [Dialer -> [addr : SomeAddr, tx : 0..MaxListeners]]
  BY DEF MockInv, MockTypes
<1>2. lst[l].st = "closing" /\ lst' = [lst EXCEPT ![l] = x] /\ UNCHANGED <<registry, nextport, dialing>>
  BY <1>1 DEF DropReceiver
<1>3. x \in Listener /\ x.st = "gone" /\ x.addr = lst[l].addr /\ x.queue = <<>>
  <2>1. <<>> \in Seq((1..MaxConns) \union Datagram)
    OBVIOUS
  <2> QED
    BY <1>1, <2>1 DEF Listener
<1> HIDE DEF x
<1>4. lst'[l] = x /\ \A m \in 1..MaxListeners : m # l => lst'[m] = lst[m]
  BY <1>1, <1>2
<1>5. MockTypes'
  <2>1. lst' \in [1..MaxListeners -> Listener]
    BY <1>1, <1>2, <1>3
  <2>2. DOMAIN conn = 1..MaxConns
    BY <1>1
  <2>3. DOMAIN conn' = 1..MaxConns /\ conn' = [c \in DOMAIN conn' |-> conn'[c]]
    BY <2>2 DEF DropReceiver
  <2>4. conn' \in [1..MaxConns -> Connection]
    BY <2>3, DropReceiverConns
  <2> QED
    BY <1>2, <2>1, <2>4 DEF MockInv, MockTypes
<1>6. ListenersAreBound'
  <2> SUFFICES ASSUME NEW m \in 1..MaxListeners
               PROVE  /\ lst'[m].st # "none" => lst'[m].addr \in Addresses
                      /\ lst'[m].st # "none" /\ Streaming(lst'[m].addr) =>
                            \A i \in 1..Len(lst'[m].queue) : lst'[m].queue[i] \in 1..MaxConns
    BY DEF ListenersAreBound
  <2>1. CASE m = l
    BY <1>2, <1>3, <1>4, <2>1 DEF MockInv, ListenersAreBound
  <2>2. CASE m # l
    BY <1>4, <2>2 DEF MockInv, ListenersAreBound
  <2> QED
    BY <2>1, <2>2
<1>7. DialsAreStreams'
  <2>1. \A t \in Dialer : dialing[t].tx # 0 => dialing[t].tx \in 1..MaxListeners
    BY <1>1
  <2>2. \A m \in 1..MaxListeners : lst'[m].addr = lst[m].addr /\ (lst[m].st # "none" => lst'[m].st # "none")
    BY <1>3, <1>4
  <2> QED
    BY <1>2, <2>1, <2>2 DEF MockInv, DialsAreStreams
<1>8. QueuedAreWaiting'
  <2> SUFFICES ASSUME NEW c \in 1..MaxConns, conn'[c].queued # 0
               PROVE  /\ conn[c].queued # 0 /\ conn'[c].queued = conn[c].queued
                      /\ lst'[conn[c].queued] = lst[conn[c].queued]
    BY DEF MockInv, QueuedAreWaiting
  <2>1. conn'[c].queued = conn[c].queued /\ conn[c].queued # l
    <3>1. conn'[c].queued \in {0, conn[c].queued} \ {l}
      BY DropReceiverConns
    <3> QED
      BY <3>1
  <2>2. conn[c].queued \in 1..MaxListeners
    BY <1>1, <2>1 DEF Connection
  <2> QED
    BY <1>4, <2>1, <2>2
<1>9. StreamsFlow'
  <2> SUFFICES ASSUME NEW c \in 1..MaxConns
               PROVE  /\ conn'[c].kind = "none" => conn'[c] = NoConn
                      /\ \A o \in StreamEnds : StreamFlows(conn'[c], o)
    BY DEF StreamsFlow
  <2>1. /\ conn[c].kind = "none" => conn[c] = NoConn
        /\ \A o \in StreamEnds : StreamFlows(conn[c], o)
    BY DEF MockInv, StreamsFlow
  <2>2. /\ SameBytes(conn[c], conn'[c]) /\ conn'[c].kind = conn[c].kind
        /\ conn'[c] = conn[c] \/ conn[c].queued = l
    BY DropReceiverConns
  <2>3. NoConn.queued = 0 /\ l # 0
    BY DEF NoConn
  <2> QED
    BY <2>1, <2>2, <2>3, SameBytesFlow
<1>10. RegistryAgrees'
  <2>1. \A m \in 1..MaxListeners : lst'[m].addr = lst[m].addr /\ (lst'[m].st = "live" <=> lst[m].st = "live")
    BY <1>2, <1>3, <1>4
  <2> QED
    BY <1>2, <2>1 DEF MockInv, RegistryAgrees
<1> QED
  BY <1>5, <1>6, <1>7, <1>8, <1>9, <1>10 DEF MockInv

LEMMA ConnectSendConn ==
    ASSUME MockInv, NEW t \in Dialer, ConnectSend(t)
    PROVE  \/ UNCHANGED <<conn, lst>>
           \/ \E c \in 1..MaxConns, x \in Connection :
                 /\ conn[c].kind = "none" /\ conn' = [conn EXCEPT ![c] = x]
                 /\ SameBytes(NoConn, x) /\ x.kind = dialing[t].addr.kind /\ x.kind # "none"
                 /\ x.ended = NoConn.ended /\ x.open = [e \in StreamEnds |-> TRUE]
                 /\ x.queued = dialing[t].tx /\ lst[dialing[t].tx].st # "gone"
                 /\ lst' = [lst EXCEPT ![dialing[t].tx].queue = Append(@, c)]
<1> DEFINE l == dialing[t].tx
           f == [e \in StreamEnds |-> TRUE]
           k == dialing[t].addr.kind
           x == [NoConn EXCEPT !.kind = k, !.queued = l, !.open = f]
<1>1. dialing \in [Dialer -> [addr : SomeAddr, tx : 0..MaxListeners]]
  BY DEF MockInv, MockTypes
<1>2. l \in 1..MaxListeners /\ l # 0 /\ k \in {"tcp", "unix"}
  BY <1>1 DEF ConnectSend, MockInv, DialsAreStreams, Streaming
<1>3. l \in 0..MaxListeners
  BY <1>1
<1>4. CASE lst[l].st = "gone"
  BY <1>4 DEF ConnectSend
<1>5. CASE lst[l].st # "gone"
  <2>1. PICK c \in 1..MaxConns :
           /\ conn[c].kind = "none" /\ conn' = [conn EXCEPT ![c] = x]
           /\ lst' = [lst EXCEPT ![l].queue = Append(@, c)]
    BY <1>5 DEF ConnectSend
  <2>2. f \in Flags
    BY DEF Flags
  <2> HIDE DEF f, k, l
  <2>3. x \in Connection /\ SameBytes(NoConn, x) /\ x.kind = k /\ x.queued = l /\ x.open = f
        /\ x.ended = NoConn.ended
    <3>1. NoConn \in Connection
      BY NoConnType
    <3>2. \A z \in Connection :
             LET y == [z EXCEPT !.kind = k, !.queued = l, !.open = f]
             IN  /\ y \in Connection /\ SameBytes(z, y) /\ y.kind = k /\ y.queued = l /\ y.open = f
                 /\ y.ended = z.ended
      BY <1>2, <1>3, <2>2 DEF Connection, SameBytes
    <3> QED
      BY <3>1, <3>2
  <2> HIDE DEF x
  <2> QED
    BY <1>2, <1>5, <2>1, <2>3 DEF f, k, l
<1> QED
  BY <1>4, <1>5

LEMMA ConnectSendInv ==
    ASSUME MockInv, NEW t \in Dialer, ConnectSend(t)
    PROVE  MockInv'
<1> DEFINE l == dialing[t].tx
<1>1. /\ lst \in [1..MaxListeners -> Listener] /\ conn \in [1..MaxConns -> Connection]
      /\ dialing \in [Dialer -> [addr : SomeAddr, tx : 0..MaxListeners]]
  BY DEF MockInv, MockTypes
<1>2. dialing' = [dialing EXCEPT ![t] = NoDial] /\ UNCHANGED <<registry, nextport>> /\ l # 0
  BY DEF ConnectSend
<1>3. dialing' \in [Dialer -> [addr : SomeAddr, tx : 0..MaxListeners]]
      /\ \A u \in Dialer : dialing'[u].tx # 0 => dialing'[u] = dialing[u]
  <2>1. NoDial \in [addr : SomeAddr, tx : 0..MaxListeners] /\ NoDial.tx = 0
    BY MockConstants DEF NoDial, NoAddr, SomeAddr, MockParameters
  <2> QED
    BY <1>1, <1>2, <2>1
<1>4. l \in 1..MaxListeners /\ lst[l].st # "none" /\ Streaming(lst[l].addr)
  BY <1>1, <1>2 DEF MockInv, DialsAreStreams
<1>5. CASE UNCHANGED <<conn, lst>>
  <2>1. MockTypes'
    BY <1>2, <1>3, <1>5 DEF MockInv, MockTypes
  <2>2. ListenersAreBound' /\ QueuedAreWaiting' /\ StreamsFlow' /\ RegistryAgrees'
    BY <1>2, <1>5 DEF MockInv, ListenersAreBound, QueuedAreWaiting, StreamsFlow, RegistryAgrees
  <2>3. DialsAreStreams'
    BY <1>3, <1>5 DEF MockInv, DialsAreStreams
  <2> QED
    BY <2>1, <2>2, <2>3 DEF MockInv
<1>6. ASSUME NEW c \in 1..MaxConns, NEW x \in Connection,
             conn[c].kind = "none", conn' = [conn EXCEPT ![c] = x],
             SameBytes(NoConn, x), x.kind # "none", x.queued = l, lst[l].st # "gone",
             lst' = [lst EXCEPT ![l].queue = Append(@, c)]
      PROVE  MockInv'
  <2> DEFINE q == lst[l].queue
             y == [lst[l] EXCEPT !.queue = Append(q, c)]
             S == (1..MaxConns) \union Datagram
  <2>1. q \in Seq(S) /\ c \in S
    BY <1>1, <1>4, ListenerFields
  <2> HIDE DEF S, q
  <2>2. /\ Append(q, c) \in Seq(S) /\ Len(Append(q, c)) = Len(q) + 1 /\ Len(q) \in Nat
        /\ Append(q, c)[Len(q) + 1] = c /\ \A i \in 1..Len(q) : Append(q, c)[i] = q[i]
    BY <2>1, Appended, EmptyIffZero
  <2>3. y \in Listener /\ y.st = lst[l].st /\ y.addr = lst[l].addr /\ y.queue = Append(q, c)
    BY <1>1, <1>4, <2>2 DEF Listener, S
  <2>4. lst' = [lst EXCEPT ![l] = y]
    BY <1>1, <1>6 DEF q
  <2> HIDE DEF y
  <2>5. lst'[l] = y /\ \A m \in 1..MaxListeners : m # l => lst'[m] = lst[m]
    BY <1>1, <1>4, <2>4
  <2>6. conn'[c] = x /\ \A d \in 1..MaxConns : d # c => conn'[d] = conn[d]
    BY <1>1, <1>6
  <2>7. MockTypes'
    <3>1. lst' \in [1..MaxListeners -> Listener] /\ conn' \in [1..MaxConns -> Connection]
      BY <1>1, <1>6, <2>3, <2>4
    <3> QED
      BY <1>2, <1>3, <3>1 DEF MockInv, MockTypes
  <2>8. \A m \in 1..MaxListeners : lst'[m].st = lst[m].st /\ lst'[m].addr = lst[m].addr
    BY <2>3, <2>5
  <2>9. ListenersAreBound'
    <3> SUFFICES ASSUME NEW m \in 1..MaxListeners
                 PROVE  /\ lst'[m].st # "none" => lst'[m].addr \in Addresses
                        /\ lst'[m].st # "none" /\ Streaming(lst'[m].addr) =>
                              \A i \in 1..Len(lst'[m].queue) : lst'[m].queue[i] \in 1..MaxConns
      BY DEF ListenersAreBound
    <3>1. CASE m = l
      <4>1. lst[l].addr \in Addresses /\ \A i \in 1..Len(q) : q[i] \in 1..MaxConns
        BY <1>4 DEF MockInv, ListenersAreBound, q
      <4>2. \A i \in 1..Len(Append(q, c)) : i \in 1..Len(q) \/ i = Len(q) + 1
        BY <2>2
      <4>3. \A i \in 1..Len(Append(q, c)) : Append(q, c)[i] \in 1..MaxConns
        BY <1>6, <2>2, <4>1, <4>2
      <4> QED
        BY <2>3, <2>5, <3>1, <4>1, <4>3
    <3>2. CASE m # l
      BY <2>5, <3>2 DEF MockInv, ListenersAreBound
    <3> QED
      BY <3>1, <3>2
  <2>10. DialsAreStreams'
    <3>1. \A u \in Dialer : dialing[u].tx # 0 => dialing[u].tx \in 1..MaxListeners
      BY <1>1
    <3> QED
      BY <1>3, <2>8, <3>1 DEF MockInv, DialsAreStreams
  <2>11. QueuedAreWaiting'
    <3> SUFFICES ASSUME NEW d \in 1..MaxConns, conn'[d].queued # 0
                 PROVE  /\ lst'[conn'[d].queued].st \in {"live", "closing"}
                        /\ Streaming(lst'[conn'[d].queued].addr)
                        /\ \E i \in 1..Len(lst'[conn'[d].queued].queue) : lst'[conn'[d].queued].queue[i] = d
      BY DEF QueuedAreWaiting
    <3>1. CASE d = c
      <4>1. conn'[d].queued = l
        BY <1>6, <2>6, <3>1
      <4>2. lst'[l].st \in {"live", "closing"} /\ Streaming(lst'[l].addr)
        BY <1>1, <1>4, <1>6, <2>3, <2>5, ListenerFields
      <4>3. Len(q) + 1 \in 1..Len(lst'[l].queue) /\ lst'[l].queue[Len(q) + 1] = c
        BY <2>2, <2>3, <2>5
      <4> QED
        BY <3>1, <4>1, <4>2, <4>3
    <3>2. CASE d # c
      <4> DEFINE m == conn[d].queued
      <4>1. conn'[d].queued = m /\ m # 0
        BY <2>6, <3>2
      <4>2. m \in 1..MaxListeners
        BY <1>1, <4>1 DEF Connection
      <4>3. PICK i \in 1..Len(lst[m].queue) : lst[m].queue[i] = d
        BY <4>1 DEF MockInv, QueuedAreWaiting
      <4>4. lst[m].st \in {"live", "closing"} /\ Streaming(lst[m].addr)
        BY <4>1 DEF MockInv, QueuedAreWaiting
      <4> HIDE DEF m
      <4>5. i \in 1..Len(lst'[m].queue) /\ lst'[m].queue[i] = d
        <5>1. CASE m = l
          <6>1. lst[m].queue = q /\ lst'[m].queue = Append(q, c)
            BY <2>3, <2>5, <5>1 DEF q
          <6>2. i \in 1..Len(q) /\ q[i] = d
            BY <4>3, <6>1
          <6>3. i \in 1..Len(Append(q, c)) /\ Append(q, c)[i] = q[i]
            BY <2>2, <6>2
          <6> QED
            BY <6>1, <6>2, <6>3
        <5>2. CASE m # l
          BY <2>5, <4>2, <4>3, <5>2
        <5> QED
          BY <5>1, <5>2
      <4> QED
        BY <2>8, <4>1, <4>2, <4>4, <4>5
    <3> QED
      BY <3>1, <3>2
  <2>12. StreamsFlow'
    <3> SUFFICES ASSUME NEW d \in 1..MaxConns
                 PROVE  /\ conn'[d].kind = "none" => conn'[d] = NoConn
                        /\ \A o \in StreamEnds : StreamFlows(conn'[d], o)
      BY DEF StreamsFlow
    <3>1. CASE d = c
      BY <1>6, <2>6, <3>1, NoConnFlows, SameBytesFlow
    <3>2. CASE d # c
      BY <2>6, <3>2 DEF MockInv, StreamsFlow
    <3> QED
      BY <3>1, <3>2
  <2>13. RegistryAgrees'
    BY <1>2, <2>8 DEF MockInv, RegistryAgrees
  <2> QED
    BY <2>7, <2>9, <2>10, <2>11, <2>12, <2>13 DEF MockInv
<1> QED
  BY <1>5, <1>6, ConnectSendConn

-----------------------------------------------------------------------------
(* Either direction of a connection is a ByteStream, but for false ends    *)

DirectionStep(c, e) == [Direction(c, e)!Next \/ FalseEnd(c, e)]_(Direction(c, e)!svars)

\* The writer's end of a direction, as ByteStream sees it.
Opened(x, e) == x.kind = "none" \/ x.open[e]

LEMMA DirectionStutters ==
    ASSUME NEW c, NEW e,
           conn'[c].sent[e] = conn[c].sent[e], conn'[c].got[Other(e)] = conn[c].got[Other(e)],
           conn'[c].ended[Other(e)] = conn[c].ended[Other(e)], Opened(conn'[c], e) = Opened(conn[c], e)
    PROVE  DirectionStep(c, e)
  BY DEF DirectionStep, Direction!svars, Opened

LEMMA DirectionCloses ==
    ASSUME NEW c, NEW e, MockInv, c \in 1..MaxConns, e \in StreamEnds,
           conn'[c].sent[e] = conn[c].sent[e], conn'[c].got[Other(e)] = conn[c].got[Other(e)],
           conn'[c].ended[Other(e)] = conn[c].ended[Other(e)],
           conn[c].kind # "none", conn'[c].kind = conn[c].kind, ~(conn'[c].open[e])
    PROVE  DirectionStep(c, e)
<1>1. conn[c].open[e] \in BOOLEAN
  BY ConnectionFields DEF MockInv, MockTypes
<1>2. CASE conn[c].open[e]
  BY <1>2 DEF DirectionStep, Direction!Next, Direction!Close
<1>3. CASE ~conn[c].open[e]
  <2>1. Opened(conn'[c], e) = Opened(conn[c], e)
    BY <1>3 DEF Opened
  <2> QED
    BY <2>1, DirectionStutters
<1> QED
  BY <1>2, <1>3

LEMMA DirectionWrites ==
    ASSUME NEW c \in 1..MaxConns, NEW e \in StreamEnds, MockInv, MockInv',
           conn[c].open[e], conn'[c].open[e], Len(conn'[c].sent[e]) > Len(conn[c].sent[e]),
           conn'[c].got[Other(e)] = conn[c].got[Other(e)],
           conn'[c].ended[Other(e)] = conn[c].ended[Other(e)]
    PROVE  DirectionStep(c, e)
<1> DEFINE s == conn[c].sent[e]
           u == conn'[c].sent[e]
<1>1. conn[c] \in Connection /\ conn'[c] \in Connection
  BY DEF MockInv, MockTypes
<1>2. s \in Seq(Nat) /\ u \in Seq(Nat)
  BY <1>1, ConnectionFields
<1>3. Follows(s, 0)
  BY EndsDiffer DEF MockInv, StreamsFlow, StreamFlows
<1>4. Follows(u, 0)
  BY EndsDiffer DEF MockInv, StreamsFlow, StreamFlows
<1>a. Len(u) > Len(s)
  OBVIOUS
<1> HIDE DEF s, u
<1>b. Len(s) \in Nat /\ Len(u) \in Nat
  BY <1>2
<1>5. Len(s) \in Nat /\ Len(u) \in Nat /\ Len(u) > Len(s) /\ Len(s) <= Len(u)
  BY <1>a, <1>b
<1>6. SubSeq(u, 1, Len(s)) = s
  BY <1>2, <1>3, <1>4, <1>5, FollowsPrefix
<1>7. \E n \in 1..(Len(u) - Len(s)) : SubSeq(u, 1, Len(s)) = s
  <2>1. 1 \in 1..(Len(u) - Len(s))
    BY <1>5
  <2> QED
    BY <1>6, <2>1
<1> QED
  BY <1>7 DEF s, u, DirectionStep, Direction!Next, Direction!Write

LEMMA DirectionReads ==
    ASSUME NEW c \in 1..MaxConns, NEW r \in StreamEnds, MockInv, MockInv',
           Len(conn'[c].got[r]) > Len(conn[c].got[r]),
           Len(conn'[c].got[r]) <= Len(conn[c].sent[Other(r)]),
           conn'[c].sent = conn[c].sent, conn'[c].open = conn[c].open,
           conn'[c].kind = conn[c].kind, conn'[c].ended = conn[c].ended
    PROVE  DirectionStep(c, Other(r))
<1> DEFINE s == conn[c].sent[Other(r)]
           g == conn[c].got[r]
           h == conn'[c].got[r]
<1>1. conn[c] \in Connection /\ conn'[c] \in Connection
  BY DEF MockInv, MockTypes
<1>2. s \in Seq(Nat) /\ h \in Seq(Nat)
  BY <1>1, ConnectionFields, EndsDiffer
<1>3. Follows(s, 0)
  BY DEF MockInv, StreamsFlow, StreamFlows
<1>4. Follows(h, 0)
  BY DEF MockInv, StreamsFlow, StreamFlows
<1>5. Len(h) > Len(g) /\ Len(h) <= Len(s)
  OBVIOUS
<1>6. Other(Other(r)) = r
  BY EndsDiffer
<1> HIDE DEF s, h
<1>7. h = SubSeq(s, 1, Len(h))
  BY <1>2, <1>3, <1>4, <1>5, FollowsPrefix
<1> QED
  BY <1>5, <1>6, <1>7 DEF s, h, DirectionStep, Direction!Next, Direction!Read

LEMMA DirectionEnds ==
    ASSUME NEW c \in 1..MaxConns, NEW r \in StreamEnds, MockInv,
           conn[c].kind # "none", conn'[c].kind = conn[c].kind, ~conn[c].open[Other(r)],
           conn[c].got[r] = conn[c].sent[Other(r)], conn'[c].ended = [conn[c].ended EXCEPT ![r] = TRUE],
           conn'[c].got = conn[c].got, conn'[c].sent = conn[c].sent, conn'[c].open = conn[c].open
    PROVE  DirectionStep(c, Other(r))
<1>1. conn[c].ended \in [StreamEnds -> BOOLEAN]
  BY ConnectionFields DEF MockInv, MockTypes, Flags
<1>2. conn'[c].ended[r]
  BY <1>1
<1>3. Other(Other(r)) = r
  BY EndsDiffer
<1> QED
  BY <1>2, <1>3 DEF DirectionStep, Direction!Next, Direction!End

\* Either direction of every connection takes a step of a stream or none.
StreamsStep == \A c \in 1..MaxConns, e \in StreamEnds : DirectionStep(c, e)

LEMMA SameConnStutters ==
    ASSUME NEW c, NEW e, conn'[c] = conn[c]
    PROVE  DirectionStep(c, e)
  BY DirectionStutters DEF Opened

LEMMA EndsAreTwo ==
    ASSUME NEW e \in StreamEnds, NEW d \in StreamEnds
    PROVE  d = e \/ d = Other(e)
  BY DEF StreamEnds, Other

\* What a step of one stream has to show of its two directions.
LEMMA OneStreamSteps ==
    ASSUME MockInv, NEW c \in 1..MaxConns, NEW e \in StreamEnds, StreamStep(c),
           DirectionStep(c, e), DirectionStep(c, Other(e))
    PROVE  MockInv' /\ StreamsStep
<1>1. MockInv'
  BY StreamStepInv
<1>2. ASSUME NEW d \in 1..MaxConns, NEW f \in StreamEnds PROVE DirectionStep(d, f)
  <2>1. CASE d = c
    BY <2>1, EndsAreTwo
  <2>2. CASE d # c
    BY <2>2, SameConnStutters DEF StreamStep
  <2> QED
    BY <2>1, <2>2
<1> QED
  BY <1>1, <1>2 DEF StreamsStep

LEMMA FlagSteps ==
    ASSUME MockInv, NEW c \in 1..MaxConns, NEW e \in StreamEnds, conn[c].kind # "none",
           \/ BeginMockRead(c, e) \/ ReadTimeout(c, e) \/ drop_stream(c, e)
           \/ \E on \in BOOLEAN : mock_set_read_timeout(c, e, on)
    PROVE  MockInv' /\ StreamsStep
<1>1. StreamStep(c)
  BY FlagStep
<1>2. conn \in [1..MaxConns -> Connection]
  BY DEF MockInv, MockTypes
<1>3. /\ conn'[c].sent = conn[c].sent /\ conn'[c].got = conn[c].got /\ conn'[c].ended = conn[c].ended
      /\ conn'[c].kind = conn[c].kind
      /\ \/ conn'[c].open = conn[c].open
         \/ conn'[c].open = [conn[c].open EXCEPT ![e] = FALSE]
  <2> USE <1>2 DEF Connection
  <2>1. CASE BeginMockRead(c, e)
    BY <2>1 DEF BeginMockRead
  <2>2. CASE ReadTimeout(c, e)
    BY <2>2 DEF ReadTimeout
  <2>3. CASE drop_stream(c, e)
    BY <2>3 DEF drop_stream
  <2>4. ASSUME NEW on \in BOOLEAN, mock_set_read_timeout(c, e, on)
        PROVE  /\ conn'[c].sent = conn[c].sent /\ conn'[c].got = conn[c].got /\ conn'[c].ended = conn[c].ended
               /\ conn'[c].kind = conn[c].kind /\ conn'[c].open = conn[c].open
    BY <2>4 DEF mock_set_read_timeout
  <2> QED
    BY <2>1, <2>2, <2>3, <2>4
<1>4. Other(e) \in StreamEnds /\ Other(e) # e /\ conn[c].open \in [StreamEnds -> BOOLEAN]
  BY <1>2, EndsDiffer, ConnectionFields DEF Flags
<1>5. DirectionStep(c, e)
  <2>1. CASE conn'[c].open = conn[c].open
    BY <1>3, <2>1, DirectionStutters DEF Opened
  <2>2. CASE conn'[c].open = [conn[c].open EXCEPT ![e] = FALSE]
    <3>1. ~(conn'[c].open[e])
      BY <1>4, <2>2
    <3> QED
      BY <1>3, <3>1, DirectionCloses
  <2> QED
    BY <1>3, <2>1, <2>2
<1>6. DirectionStep(c, Other(e))
  <2>1. conn'[c].open[Other(e)] = conn[c].open[Other(e)]
    BY <1>3, <1>4
  <2>2. Opened(conn'[c], Other(e)) = Opened(conn[c], Other(e))
    BY <1>3, <2>1 DEF Opened
  <2> QED
    BY <1>3, <2>2, DirectionStutters
<1> QED
  BY <1>1, <1>5, <1>6, OneStreamSteps

LEMMA WriteSteps ==
    ASSUME MockInv, NEW c \in 1..MaxConns, NEW e \in StreamEnds, NEW n \in Chunks,
           conn[c].kind # "none", Write(c, e, n)
    PROVE  MockInv' /\ StreamsStep
<1>1. StreamStep(c) /\ Len(conn'[c].sent[e]) = Len(conn[c].sent[e]) + n
  BY WriteStep
<1>2. MockInv'
  BY <1>1, StreamStepInv
<1>3. Wrote(conn[c], conn'[c], e, Numbered(c, e, n)) /\ conn[c].open[e]
  BY WriteChanges DEF Write, Held
<1>4. conn[c].sent \in [StreamEnds -> Seq(Nat)] /\ Other(e) \in StreamEnds /\ Other(e) # e
  BY EndsDiffer, ConnectionFields DEF MockInv, MockTypes, ByteSeqs
<1>5. /\ conn'[c].sent[Other(e)] = conn[c].sent[Other(e)] /\ conn'[c].got = conn[c].got
      /\ conn'[c].open = conn[c].open /\ conn'[c].ended = conn[c].ended /\ conn'[c].kind = conn[c].kind
  BY <1>3, <1>4 DEF Wrote
<1>6. DirectionStep(c, e)
  <2> DEFINE s == conn[c].sent[e]
             u == conn'[c].sent[e]
  <2>1. s \in Seq(Nat) /\ u \in Seq(Nat)
    BY <1>2, ConnectionFields DEF MockInv, MockTypes
  <2>2. Follows(s, 0) /\ Follows(u, 0)
    BY <1>2, EndsDiffer DEF MockInv, StreamsFlow, StreamFlows
  <2>3. n \in Nat /\ Len(u) = Len(s) + n
    BY <1>1, MockConstants DEF MockParameters
  <2> HIDE DEF s, u
  <2>4. CASE n = 0
    <3>1. u = s
      BY <2>1, <2>2, <2>3, <2>4, FollowsSame
    <3>2. Opened(conn'[c], e) = Opened(conn[c], e)
      BY <1>5 DEF Opened
    <3> QED
      BY <1>5, <3>1, <3>2, DirectionStutters DEF s, u
  <2>5. CASE n # 0
    <3>1. Len(u) > Len(s)
      BY <2>1, <2>3, <2>5
    <3>2. conn'[c].open[e]
      BY <1>3, <1>5
    <3> QED
      BY <1>2, <1>3, <1>5, <3>1, <3>2, DirectionWrites DEF s, u
  <2> QED
    BY <2>4, <2>5
<1>7. DirectionStep(c, Other(e))
  BY <1>5, DirectionStutters DEF Opened
<1> QED
  BY <1>1, <1>6, <1>7, OneStreamSteps

LEMMA TakeSteps ==
    ASSUME MockInv, NEW c \in 1..MaxConns, NEW e \in StreamEnds, NEW chunk, NEW q,
           conn[c].kind # "none", Ready(conn[c], e, chunk, q), Take(c, e, chunk, q),
           UNCHANGED <<registry, nextport, lst, dialing>>,
           \/ chunk # <<>>
           \/ /\ conn[c].read_buf[e] = <<>> /\ conn[c].chan[e] # <<>>
              /\ chunk = Head(conn[c].chan[e]) /\ q = Tail(conn[c].chan[e])
    PROVE  MockInv' /\ StreamsStep
<1> DEFINE k == TakenOf(chunk)
<1>1. /\ StreamStep(c) /\ conn'[c].ended[Other(e)] = conn[c].ended[Other(e)]
      /\ k \in Nat /\ (k = 0 <=> Len(chunk) = 0)
      /\ k # 0 => conn'[c].ended = conn[c].ended
      /\ Len(conn'[c].got[e]) = Len(conn[c].got[e]) + k
      /\ Len(conn'[c].got[e]) <= Len(conn[c].sent[Other(e)])
  BY TakeStep
<1>2. Got(conn[c], conn'[c], e, chunk, k, q)
  BY TakeStep
<1> HIDE DEF k
<1>3. MockInv'
  BY <1>1, StreamStepInv
<1>4. conn[c].got \in [StreamEnds -> Seq(Nat)] /\ conn'[c].got \in [StreamEnds -> Seq(Nat)]
      /\ conn[c].chan \in [StreamEnds -> Seq(Seq(Nat))]
      /\ Other(e) \in StreamEnds /\ Other(e) # e /\ Other(Other(e)) = e
  BY <1>3, EndsDiffer, ConnectionFields DEF MockInv, MockTypes, ByteSeqs, Channels
<1>5. /\ conn'[c].got[Other(e)] = conn[c].got[Other(e)] /\ conn'[c].sent = conn[c].sent
      /\ conn'[c].open = conn[c].open /\ conn'[c].kind = conn[c].kind
      /\ conn'[c].chan[e] = q
  BY <1>2, <1>4 DEF Got
<1>6. DirectionStep(c, Other(e))
  <2> DEFINE g == conn[c].got[e]
             h == conn'[c].got[e]
  <2>1. g \in Seq(Nat) /\ h \in Seq(Nat) /\ Len(h) = Len(g) + k
    BY <1>1, <1>4
  <2>2. Follows(g, 0) /\ Follows(h, 0)
    BY <1>3 DEF MockInv, StreamsFlow, StreamFlows
  <2> HIDE DEF g, h
  <2>3. CASE k # 0
    <3>1. Len(h) > Len(g)
      BY <1>1, <2>1, <2>3
    <3> QED
      BY <1>1, <1>3, <1>5, <2>3, <3>1, DirectionReads DEF g, h
  <2>4. CASE k = 0
    <3>1. g = h
      BY <2>1, <2>2, <2>4, FollowsSame
    <3>2. conn'[c].got = conn[c].got
      <4>1. \A f \in StreamEnds : f = e \/ f = Other(e)
        BY EndsAreTwo
      <4>2. \A f \in StreamEnds : conn'[c].got[f] = conn[c].got[f]
        BY <1>5, <3>1, <4>1 DEF g, h
      <4> DEFINE G == conn[c].got
                 H == conn'[c].got
      <4>3. G \in [StreamEnds -> Seq(Nat)] /\ H \in [StreamEnds -> Seq(Nat)]
            /\ \A f \in StreamEnds : H[f] = G[f]
        BY <1>4, <4>2
      <4> HIDE DEF G, H
      <4>4. H = G
        BY <4>3
      <4> QED
        BY <4>4 DEF G, H
    <3>3. chunk = <<>>
      <4>1. chunk \in Seq(Nat) /\ Len(chunk) = 0
        BY <1>1, <2>4 DEF Ready
      <4> QED
        BY <4>1, EmptyIffZero
    <3>4. FalseEnd(c, Other(e))
      BY <1>4, <1>5, <3>2, <3>3 DEF FalseEnd
    <3> QED
      BY <3>4 DEF DirectionStep
  <2> QED
    BY <2>3, <2>4
<1>7. DirectionStep(c, e)
  BY <1>1, <1>5, DirectionStutters DEF Opened
<1> QED
  BY <1>1, <1>6, <1>7, OneStreamSteps

LEMMA ReadSteps ==
    ASSUME MockInv, NEW c \in 1..MaxConns, NEW e \in StreamEnds, conn[c].kind # "none", mock_read(c, e)
    PROVE  MockInv' /\ StreamsStep
<1>0. conn[c] \in Connection /\ StreamFlows(conn[c], e)
  BY DEF MockInv, MockTypes, StreamsFlow
<1>1. UNCHANGED <<registry, nextport, lst, dialing>>
  BY DEF mock_read
<1>2. CASE conn[c].read_buf[e] # <<>> /\ Take(c, e, conn[c].read_buf[e], conn[c].chan[e])
  BY <1>0, <1>1, <1>2, ReadyChunk, TakeSteps
<1>3. CASE /\ conn[c].read_buf[e] = <<>> /\ conn[c].chan[e] # <<>>
           /\ Take(c, e, Head(conn[c].chan[e]), Tail(conn[c].chan[e]))
  <2> DEFINE ch == Head(conn[c].chan[e])
             q == Tail(conn[c].chan[e])
  <2>1. Ready(conn[c], e, ch, q)
    BY <1>0, <1>3, ReadyChunk
  <2> QED
    BY <1>1, <1>3, <2>1, TakeSteps
<1>4. CASE /\ conn[c].read_buf[e] = <<>> /\ conn[c].chan[e] = <<>> /\ ~conn[c].open[Other(e)]
           /\ conn' = [conn EXCEPT ![c].reading[e] = FALSE, ![c].ended[e] = TRUE]
  <2>1. /\ StreamStep(c) /\ conn[c].got[e] = conn[c].sent[Other(e)]
        /\ conn'[c].ended = [conn[c].ended EXCEPT ![e] = TRUE]
        /\ conn'[c].got = conn[c].got /\ conn'[c].sent = conn[c].sent /\ conn'[c].open = conn[c].open
    BY <1>1, <1>4, EndStep
  <2>2. conn'[c].kind = conn[c].kind
    BY <2>1 DEF StreamStep
  <2>3. DirectionStep(c, Other(e))
    BY <1>4, <2>1, <2>2, DirectionEnds
  <2>4. conn[c].ended \in [StreamEnds -> BOOLEAN] /\ Other(e) \in StreamEnds /\ Other(e) # e
    BY <1>0, EndsDiffer, ConnectionFields DEF Flags
  <2>5. conn'[c].ended[Other(e)] = conn[c].ended[Other(e)]
    BY <2>1, <2>4
  <2>6. DirectionStep(c, e)
    BY <2>1, <2>2, <2>5, DirectionStutters DEF Opened
  <2> QED
    BY <2>1, <2>3, <2>6, OneStreamSteps
<1> QED
  BY <1>2, <1>3, <1>4 DEF mock_read

LEMMA AcceptSteps ==
    ASSUME MockInv, NEW l \in 1..MaxListeners, NEW k, mock_accept(l, k)
    PROVE  StreamsStep
<1> DEFINE h == Head(lst[l].queue)
<1>1. conn \in [1..MaxConns -> Connection] /\ conn' = [conn EXCEPT ![h].queued = 0]
  BY DEF MockInv, MockTypes, mock_accept
<1> HIDE DEF h
<1>2. ASSUME NEW c \in 1..MaxConns, NEW e \in StreamEnds PROVE DirectionStep(c, e)
  <2>1. /\ conn'[c].sent = conn[c].sent /\ conn'[c].got = conn[c].got /\ conn'[c].ended = conn[c].ended
        /\ conn'[c].kind = conn[c].kind /\ conn'[c].open = conn[c].open
    BY <1>1 DEF Connection
  <2> QED
    BY <2>1, DirectionStutters DEF Opened
<1> QED
  BY <1>2 DEF StreamsStep

\* A connection that waits to be accepted was made.
LEMMA QueuedIsMade ==
    ASSUME MockInv, NEW c \in 1..MaxConns, conn[c].queued # 0 \/ \E e \in StreamEnds : conn[c].open[e]
    PROVE  conn[c].kind # "none"
<1>1. NoConn.queued = 0 /\ \A e \in StreamEnds : ~NoConn.open[e]
  BY DEF NoConn
<1> QED
  BY <1>1 DEF MockInv, StreamsFlow

LEMMA DropReceiverSteps ==
    ASSUME MockInv, NEW l \in 1..MaxListeners, DropReceiver(l)
    PROVE  StreamsStep
<1>1. ASSUME NEW c \in 1..MaxConns, NEW e \in StreamEnds PROVE DirectionStep(c, e)
  <2>1. /\ SameBytes(conn[c], conn'[c]) /\ conn'[c].kind = conn[c].kind /\ conn'[c].ended = conn[c].ended
        /\ \/ conn'[c] = conn[c]
           \/ conn'[c].open = [conn[c].open EXCEPT !["server"] = FALSE] /\ conn[c].queued = l
    BY DropReceiverConns
  <2>2. CASE conn'[c] = conn[c]
    BY <2>2, SameConnStutters
  <2>3. CASE conn'[c].open = [conn[c].open EXCEPT !["server"] = FALSE] /\ conn[c].queued = l
    <3>1. conn[c].kind # "none" /\ conn[c].open \in [StreamEnds -> BOOLEAN]
      BY <2>3, QueuedIsMade, ConnectionFields DEF MockInv, MockTypes, Flags
    <3>2. CASE e = "server"
      <4>1. ~(conn'[c].open[e])
        BY <2>3, <3>1, <3>2
      <4> QED
        BY <2>1, <3>1, <4>1, DirectionCloses DEF SameBytes
    <3>3. CASE e # "server"
      <4>1. conn'[c].open[e] = conn[c].open[e]
        BY <2>3, <3>1, <3>3
      <4>2. Opened(conn'[c], e) = Opened(conn[c], e)
        BY <2>1, <4>1 DEF Opened
      <4> QED
        BY <2>1, <4>2, DirectionStutters DEF SameBytes
    <3> QED
      BY <3>2, <3>3
  <2> QED
    BY <2>1, <2>2, <2>3
<1> QED
  BY <1>1 DEF StreamsStep

LEMMA ConnectSendSteps ==
    ASSUME MockInv, NEW t \in Dialer, ConnectSend(t)
    PROVE  StreamsStep
<1>1. CASE UNCHANGED <<conn, lst>>
  BY <1>1, SameConnStutters DEF StreamsStep
<1>2. ASSUME NEW c \in 1..MaxConns, NEW x \in Connection,
             conn[c].kind = "none", conn' = [conn EXCEPT ![c] = x], SameBytes(NoConn, x),
             x.ended = NoConn.ended, x.open = [e \in StreamEnds |-> TRUE]
      PROVE  StreamsStep
  <2>1. conn \in [1..MaxConns -> Connection] /\ conn[c] = NoConn
    BY <1>2 DEF MockInv, MockTypes, StreamsFlow
  <2>2. conn'[c] = x /\ \A d \in 1..MaxConns : d # c => conn'[d] = conn[d]
    BY <1>2, <2>1
  <2>3. ASSUME NEW d \in 1..MaxConns, NEW e \in StreamEnds PROVE DirectionStep(d, e)
    <3>1. CASE d = c
      <4>1. Opened(conn'[d], e) = TRUE /\ Opened(conn[d], e) = TRUE
        BY <1>2, <2>2, <3>1 DEF Opened
      <4>2. conn'[d].sent = conn[d].sent /\ conn'[d].got = conn[d].got /\ conn'[d].ended = conn[d].ended
        BY <1>2, <2>1, <2>2, <3>1 DEF SameBytes
      <4> QED
        BY <4>1, <4>2, DirectionStutters
    <3>2. CASE d # c
      BY <2>2, <3>2, SameConnStutters
    <3> QED
      BY <3>1, <3>2
  <2> QED
    BY <2>3 DEF StreamsStep
<1> QED
  BY <1>1, <1>2, ConnectSendConn

-----------------------------------------------------------------------------
(* Theorems about the mock network                                         *)

LEMMA MockStarts ==
    ASSUME MockInit
    PROVE  MockInv /\ \A c \in 1..MaxConns, e \in StreamEnds : Direction(c, e)!Init
<1>1. MockParameters
  BY MockConstants
<1>2. NoListener \in Listener /\ NoListener.st = "none"
  <2>1. <<>> \in Seq((1..MaxConns) \union Datagram)
    OBVIOUS
  <2> QED
    BY <2>1 DEF NoListener, NoAddr, Listener, SomeAddr
<1>3. NoDial \in [addr : SomeAddr, tx : 0..MaxListeners] /\ NoDial.tx = 0
  BY <1>1 DEF NoDial, NoAddr, SomeAddr, MockParameters
<1>4. \A l \in 1..MaxListeners : lst[l] = NoListener
  BY DEF MockInit
<1>5. \A c \in 1..MaxConns : conn[c] = NoConn
  BY DEF MockInit
<1>6. \A t \in Dialer : dialing[t] = NoDial
  BY DEF MockInit
<1>7. MockTypes
  <2>1. registry \in [Addresses -> 0..MaxListeners] /\ nextport \in Nat /\ nextport >= FirstPort
    BY <1>1 DEF MockInit, MockParameters
  <2>2. lst \in [1..MaxListeners -> Listener]
    BY <1>2 DEF MockInit
  <2>3. conn \in [1..MaxConns -> Connection]
    BY NoConnType DEF MockInit
  <2>4. dialing \in [Dialer -> [addr : SomeAddr, tx : 0..MaxListeners]]
    BY <1>3 DEF MockInit
  <2> QED
    BY <2>1, <2>2, <2>3, <2>4 DEF MockTypes
<1>8. ListenersAreBound /\ DialsAreStreams
  BY <1>2, <1>3, <1>4, <1>6 DEF ListenersAreBound, DialsAreStreams
<1>9. QueuedAreWaiting
  <2>1. NoConn.queued = 0
    BY DEF NoConn
  <2> QED
    BY <1>5, <2>1 DEF QueuedAreWaiting
<1>10. StreamsFlow
  BY <1>5, NoConnFlows DEF StreamsFlow
<1>11. RegistryAgrees
  <2>1. \A a \in Addresses : registry[a] = 0
    BY DEF MockInit
  <2> QED
    BY <1>2, <1>4, <2>1 DEF RegistryAgrees
<1>12. ASSUME NEW c \in 1..MaxConns, NEW e \in StreamEnds PROVE Direction(c, e)!Init
  <2>1. conn[c].kind = "none" /\ conn[c].sent[e] = <<>> /\ conn[c].got[Other(e)] = <<>>
        /\ ~conn[c].ended[Other(e)]
    BY <1>5, EndsDiffer DEF NoConn
  <2> QED
    BY <2>1 DEF Direction!Init
<1> QED
  BY <1>7, <1>8, <1>9, <1>10, <1>11, <1>12 DEF MockInv

LEMMA MockSteps ==
    ASSUME MockInv, [MockNext]_mvars
    PROVE  MockInv' /\ StreamsStep
<1>0. CASE UNCHANGED mvars
  <2>1. MockInv'
    BY <1>0 DEF mvars, MockInv, MockTypes, ListenersAreBound, DialsAreStreams, QueuedAreWaiting,
                StreamsFlow, RegistryAgrees
  <2>2. StreamsStep
    BY <1>0, SameConnStutters DEF mvars, StreamsStep
  <2> QED
    BY <2>1, <2>2
<1>a. UNCHANGED conn => StreamsStep
  BY SameConnStutters DEF StreamsStep
<1>1. ASSUME NEW a \in Addr, tcp_listen(a) \/ unix_listen(a) \/ udp_bind(a)
      PROVE  MockInv' /\ StreamsStep
  <2>1. mock_listen(a) /\ UNCHANGED conn
    BY <1>1 DEF tcp_listen, unix_listen, udp_bind, mock_listen
  <2> QED
    BY <1>a, <2>1, ListenInv
<1>2. ASSUME NEW l \in 1..MaxListeners, drop_tcp_listener(l) \/ drop_unix_listener(l) \/ drop_udp_socket(l)
      PROVE  MockInv' /\ StreamsStep
  <2>1. PICK k : Deregister(l, k)
    BY <1>2 DEF drop_tcp_listener, drop_unix_listener, drop_udp_socket
  <2>2. UNCHANGED conn
    BY <2>1 DEF Deregister
  <2> QED
    BY <1>a, <2>1, <2>2, DeregisterInv
<1>3. ASSUME NEW l \in 1..MaxListeners, DropReceiver(l)
      PROVE  MockInv' /\ StreamsStep
  BY <1>3, DropReceiverInv, DropReceiverSteps
<1>4. ASSUME NEW l \in 1..MaxListeners, tcp_accept(l) \/ unix_accept(l)
      PROVE  MockInv' /\ StreamsStep
  <2>1. PICK k \in {"tcp", "unix"} : mock_accept(l, k)
    BY <1>4 DEF tcp_accept, unix_accept
  <2> QED
    BY <2>1, AcceptInv, AcceptSteps
<1>5. ASSUME NEW l \in 1..MaxListeners, mock_udp_recv_from(l)
      PROVE  MockInv' /\ StreamsStep
  <2>1. UNCHANGED conn
    BY <1>5 DEF mock_udp_recv_from
  <2> QED
    BY <1>5, <1>a, <2>1, RecvFromInv
<1>6. ASSUME NEW l \in 1..MaxListeners, NEW a \in Addr, NEW n \in Chunks, mock_udp_send_to(l, a, n)
      PROVE  MockInv' /\ StreamsStep
  <2>1. UNCHANGED conn
    BY <1>6 DEF mock_udp_send_to
  <2> QED
    BY <1>6, <1>a, <2>1, SendToInv
<1>7. ASSUME NEW t \in Dialer, ConnectSend(t)
      PROVE  MockInv' /\ StreamsStep
  BY <1>7, ConnectSendInv, ConnectSendSteps
<1>8. ASSUME NEW t \in Dialer, NEW a \in Addresses, tcp_connect(t, a) \/ unix_connect(t, a)
      PROVE  MockInv' /\ StreamsStep
  <2>1. Streaming(a) /\ Lookup(t, a)
    BY <1>8 DEF tcp_connect, unix_connect, Streaming
  <2>2. UNCHANGED conn
    BY <2>1 DEF Lookup
  <2> QED
    BY <1>a, <2>1, <2>2, LookupInv
<1>9. ASSUME NEW c \in 1..MaxConns, NEW e \in StreamEnds, NEW n \in Chunks,
             tcp_write(c, e, n) \/ unix_write(c, e, n)
      PROVE  MockInv' /\ StreamsStep
  <2>1. conn[c].kind # "none" /\ Write(c, e, n)
    BY <1>9 DEF tcp_write, unix_write
  <2> QED
    BY <2>1, WriteSteps
<1>10. ASSUME NEW c \in 1..MaxConns, NEW e \in StreamEnds, BeginMockRead(c, e) \/ drop_stream(c, e)
       PROVE  MockInv' /\ StreamsStep
  <2>1. conn[c].kind # "none"
    BY <1>10, QueuedIsMade DEF BeginMockRead, drop_stream, Held
  <2> QED
    BY <1>10, <2>1, FlagSteps
<1>11. ASSUME NEW c \in 1..MaxConns, NEW e \in StreamEnds, tcp_read(c, e) \/ unix_read(c, e)
       PROVE  MockInv' /\ StreamsStep
  <2>1. conn[c].kind # "none" /\ (mock_read(c, e) \/ ReadTimeout(c, e))
    BY <1>11 DEF tcp_read, unix_read
  <2> QED
    BY <2>1, ReadSteps, FlagSteps
<1>12. ASSUME NEW c \in 1..MaxConns, NEW e \in StreamEnds, NEW on \in BOOLEAN, mock_set_read_timeout(c, e, on)
       PROVE  MockInv' /\ StreamsStep
  <2>1. conn[c].kind # "none"
    BY <1>12 DEF mock_set_read_timeout
  <2> QED
    BY <1>12, <2>1, FlagSteps
<1> QED
  BY <1>0, <1>1, <1>2, <1>3, <1>4, <1>5, <1>6, <1>7, <1>8, <1>9, <1>10, <1>11, <1>12 DEF MockNext

LEMMA WaitingIsNoOrphan ==
    ASSUME MockInv
    PROVE  NoOrphans
<1> SUFFICES ASSUME NEW c \in 1..MaxConns, conn[c].queued # 0
             PROVE  /\ lst[conn[c].queued].st # "gone"
                    /\ \E i \in DOMAIN lst[conn[c].queued].queue : lst[conn[c].queued].queue[i] = c
  BY DEF NoOrphans
<1> DEFINE q == lst[conn[c].queued].queue
<1>1. conn[c].queued \in 1..MaxListeners
  BY DEF MockInv, MockTypes, Connection
<1>2. q \in Seq((1..MaxConns) \union Datagram)
  BY <1>1, ListenerFields DEF MockInv, MockTypes
<1>3. /\ lst[conn[c].queued].st # "gone" /\ \E i \in 1..Len(q) : q[i] = c
  BY DEF MockInv, QueuedAreWaiting
<1> HIDE DEF q
<1>4. DOMAIN q = 1..Len(q)
  BY <1>2
<1> QED
  BY <1>3, <1>4 DEF q

\* Every connection of the mock is two streams of bytes: what platform-mock's
\* Write puts into a channel its peer's Read takes out in order, none lost, none
\* twice, across chunks cut by the reader's buffer.  A read of zero comes after
\* the last byte of a peer that is gone, with one exception: an empty buffer that
\* was written is a chunk of its own, and the read that meets it returns zero as
\* well, without losing what follows.  The registry and the listeners agree at
\* all times, and a connection nobody will accept is closed.
THEOREM MockIsTrue == MockSpec => MockKeepsItsWord
<1>1. MockInit => MockInv /\ \A c \in 1..MaxConns, e \in StreamEnds : Direction(c, e)!Init
  BY MockStarts
<1>2. MockInv /\ [MockNext]_mvars => MockInv' /\ StreamsStep
  BY MockSteps
<1>3. MockInv => RegistryAgrees /\ NoOrphans
  BY WaitingIsNoOrphan DEF MockInv
<1>4. StreamsStep =>
        [\A c \in 1..MaxConns, e \in StreamEnds :
            [Direction(c, e)!Next \/ FalseEnd(c, e)]_(Direction(c, e)!svars)]_mvars
  BY DEF StreamsStep, DirectionStep
<1> QED
  BY <1>1, <1>2, <1>3, <1>4, PTL DEF MockSpec, MockKeepsItsWord, StreamsAreStreams

-----------------------------------------------------------------------------
(* The sockets of the real backends                                        *)

Sockaddr == [family : {4, 6}, port : 0..3, sin_len : {0, 16, 28}]
SockName == Sockaddr \union Seq(Nat)
Asked == Inet \union Seq(Nat)
Waiting == [name : SockName] \union [name : SockName, from : Asked, len : Nat]
SocketRecord ==
    [st : {"new", "bound", "listening", "connected"}, asked : Asked, name : SockName, peer : SockName,
     reuse : BOOLEAN, inherit : BOOLEAN, want : Nat \union {-1}, timeo : Nat, nonblock : BOOLEAN,
     unread : BOOLEAN, queue : Seq(Waiting)]

CreateOps == {"tcp_connect", "tcp_listen", "unix_connect", "unix_listen", "udp_bind"}
AcceptOps == {"tcp_accept", "unix_accept"}
SystemCalls == {"startup", "socket", "socket_cloexec", "cloexec", "reuseaddr", "pack", "bind", "chmod",
                "listen", "connect", "accept", "accept_cloexec", "own", "unpack"}
CallRecord ==
    [op : CreateOps \union AcceptOps \union {"none", "read"}, todo : Seq(SystemCalls), asked : Asked,
     on : Slots \union {0}, s : Slots \union {0}, owned : BOOLEAN]

SocketTypes ==
    /\ backend \in Backends /\ kind \in {"tcp", "unix", "udp"} /\ started \in BOOLEAN
    /\ sock \in [Slots -> {NoSock} \union SocketRecord]
    /\ call \in [Thread -> CallRecord]
    /\ held \subseteq Slots
    /\ leaked \subseteq {"held", "creating"}

\* What an operation has left of its script, from the last call backwards, on
\* a backend b and for sockets of kind k.
Begins(q, word) == q # <<>> /\ Head(q) = word
ListenLeft(q) == Begins(q, "listen") /\ Tail(q) = <<>>
ChmodLeft(q) == Begins(q, "chmod") /\ ListenLeft(Tail(q))
BindLeft(q) == Begins(q, "bind") /\ (Tail(q) = <<>> \/ ListenLeft(Tail(q)) \/ ChmodLeft(Tail(q)))
ConnectLeft(q) == Begins(q, "connect") /\ Tail(q) = <<>>
ReuseLeft(q) == Begins(q, "reuseaddr") /\ BindLeft(Tail(q))
PackLeft(q) == Begins(q, "pack") /\ (ConnectLeft(Tail(q)) \/ BindLeft(Tail(q)))
UseLeft(k, q) == \/ k = "unix" /\ PackLeft(q)
                 \/ k = "tcp" /\ (ConnectLeft(q) \/ ReuseLeft(q))
                 \/ k = "udp" /\ Begins(q, "bind") /\ Tail(q) = <<>>
CloexecLeft(b, k, q) == b = "bsd" /\ Begins(q, "cloexec") /\ UseLeft(k, Tail(q))
SocketLeft(b, k, q) ==
    \/ b = "linux" /\ Begins(q, "socket_cloexec") /\ UseLeft(k, Tail(q))
    \/ b = "bsd" /\ Begins(q, "socket") /\ CloexecLeft(b, k, Tail(q))
    \/ b \in {"windows", "trackw"} /\ Begins(q, "socket") /\ UseLeft(k, Tail(q))
StartupLeft(b, k, q) ==
    b \in {"windows", "trackw"} /\ Begins(q, "startup") /\ SocketLeft(b, k, Tail(q))

UnpackLeft(q) == Begins(q, "unpack") /\ Tail(q) = <<>>
MarkLeft(b, q) == b = "bsd" /\ Begins(q, "cloexec") /\ (Tail(q) = <<>> \/ UnpackLeft(Tail(q)))
OwnLeft(b, q) ==
    /\ Begins(q, "own")
    /\ \/ b = "linux" /\ (Tail(q) = <<>> \/ UnpackLeft(Tail(q)))
       \/ b = "bsd" /\ MarkLeft(b, Tail(q))
       \/ b \in {"windows", "trackw"} /\ Tail(q) = <<>>
UnpackFirst(b, q) ==
    b \in {"windows", "trackw"} /\ Begins(q, "unpack") /\ OwnLeft(b, Tail(q))
AcceptLeft(b, k, q) ==
    \/ b = "linux" /\ Begins(q, "accept_cloexec") /\ OwnLeft(b, Tail(q))
    \/ b # "linux" /\ Begins(q, "accept") /\ (OwnLeft(b, Tail(q)) \/ UnpackFirst(b, Tail(q)))

\* What the kernel makes of an address, which paths are refused, and what
\* SO_RCVTIMEO becomes, on backend b.
PosixBackend(b) == b \in {"linux", "bsd"}
NameOn(b, k, a) ==
    IF k = "unix" THEN CString(a)
    ELSE [family |-> a.family, port |-> to_be(a.port),
          sin_len |-> IF b = "bsd" THEN IF a.family = 4 THEN 16 ELSE 28 ELSE 0]
RefusedOn(b, p) == IF PosixBackend(b) THEN linux_refuses_un(p) ELSE windows_refuses_un(p)
TimeoutOn(b, d) == IF PosixBackend(b) THEN linux_set_read_timeout(d) ELSE windows_set_read_timeout(d)

\* An address of the right kind.
AskedOf(k, a) == IF k = "unix" THEN a \in Paths ELSE a \in Inet

\* An operation c on a socket x that it made: what it has done and has left.
Acquiring(b, k, up, c) ==
    /\ c.s = 0 /\ c.on = 0 /\ c.op \in CreateOps /\ AskedOf(k, c.asked)
    /\ \/ StartupLeft(b, k, c.todo)
       \/ SocketLeft(b, k, c.todo) /\ (PosixBackend(b) \/ up)
Creating(b, k, c, x) ==
    /\ c.s # 0 /\ c.on = 0 /\ c.op \in CreateOps /\ c.owned /\ c.asked = x.asked
    /\ \/ x.st = "new" /\ (CloexecLeft(b, k, c.todo) \/ UseLeft(k, c.todo))
       \/ x.st = "new" /\ k # "udp" /\ (k = "unix" => ~RefusedOn(b, x.asked))
          /\ (ConnectLeft(c.todo) \/ BindLeft(c.todo))
       \/ x.st = "bound" /\ k # "udp" /\ (ListenLeft(c.todo) \/ ChmodLeft(c.todo))
    /\ b = "bsd" /\ x.inherit => CloexecLeft(b, k, c.todo)
Accepting(b, k, c) ==
    c.s = 0 /\ c.on # 0 /\ c.op \in AcceptOps /\ k # "udp" /\ AcceptLeft(b, k, c.todo)
Accepted(b, k, c, x) ==
    /\ c.s # 0 /\ c.on # 0 /\ c.op \in AcceptOps /\ k # "udp" /\ x.st = "connected"
    /\ \/ OwnLeft(b, c.todo) \/ UnpackFirst(b, c.todo)
       \/ c.owned /\ (MarkLeft(b, c.todo) \/ (PosixBackend(b) /\ UnpackLeft(c.todo)))
    /\ b = "bsd" /\ x.inherit => OwnLeft(b, c.todo) \/ MarkLeft(b, c.todo)
InRead(c) == c.op = "read" /\ c.s = 0 /\ c.on # 0 /\ c.todo = <<>>

Stage(b, k, up, c, x) ==
    \/ c = Idle \/ InRead(c) \/ Acquiring(b, k, up, c) \/ Creating(b, k, c, x)
    \/ Accepting(b, k, c) \/ Accepted(b, k, c, x)

CallGood(t) ==
    /\ Stage(backend, kind, started, call[t], sock[call[t].s])
    /\ call[t].s # 0 => Open(call[t].s) /\ call[t].s \notin held
    /\ call[t].on # 0 => call[t].on \in held
CallsAreStaged == \A t \in Thread : CallGood(t)

OneCallEach == \A t, u \in Thread : call[t].s = call[u].s /\ call[t].s # 0 => t = u

\* A name that sun_path holds.
Fits(n) == n \in Seq(Nat) /\ 0 \notin Bytes(n) /\ Len(n) <= SunPath

SocketGood(b, k, x, isheld) ==
    /\ AskedOf(k, x.asked)
    /\ x.inherit => b # "linux" /\ (b = "bsd" => ~isheld)
    /\ x.st \in {"bound", "listening"} =>
          x.name = NameOn(b, k, x.asked) /\ (k = "unix" => ~RefusedOn(b, x.asked))
    /\ k = "udp" /\ isheld => x.st = "bound"
    /\ k = "udp" => \A i \in 1..Len(x.queue) :
          x.queue[i].from \in Inet /\ x.queue[i].name = NameOn(b, k, x.queue[i].from)
    /\ k = "unix" => Fits(x.peer) /\ \A i \in 1..Len(x.queue) : Fits(x.queue[i].name)
    /\ x.timeo = TimeoutOn(b, x.want)

SocketsAreGood ==
    /\ \A s \in held : Open(s)
    /\ \A s \in Slots : Open(s) =>
          /\ SocketGood(backend, kind, sock[s], s \in held)
          /\ PosixBackend(backend) \/ started

SocketInv == /\ SocketTypes /\ CallsAreStaged /\ OneCallEach /\ SocketsAreGood
             /\ NoSocketLeaks /\ SocketsStayHome
ResultGood == AddressesAreFaithful /\ KindsAreHonest

-----------------------------------------------------------------------------
\* What the constants of the sockets are.
LEMMA SocketConstants == SocketParameters
  BY SocketAssumption

Joined(s, t, w) ==
    /\ Len(w) = Len(s) + Len(t)
    /\ \A i \in 1..Len(s) : w[i] = s[i]
    /\ \A i \in 1..Len(t) : w[Len(s) + i] = t[i]
Glued(s, t) == s \o t

LEMMA Joins ==
    ASSUME NEW S, NEW s \in Seq(S), NEW t \in Seq(S), NEW u \in Seq(S), Joined(s, t, u)
    PROVE  Glued(s, t) = u
<1>0. /\ Len(u) = Len(s) + Len(t)
      /\ \A i \in 1..Len(s) : u[i] = s[i]
      /\ \A i \in 1..Len(t) : u[Len(s) + i] = t[i]
  BY DEF Joined
<1>1. /\ s \o t \in Seq(S) /\ Len(s \o t) = Len(s) + Len(t) /\ Len(s) \in Nat /\ Len(t) \in Nat
      /\ \A i \in 1..(Len(s) + Len(t)) : (s \o t)[i] = IF i <= Len(s) THEN s[i] ELSE t[i - Len(s)]
  BY ConcatProperties, LenProperties
<1>2. ASSUME NEW i \in 1..Len(s \o t) PROVE (s \o t)[i] = u[i]
  <2>1. CASE i <= Len(s)
    BY <1>0, <1>1, <2>1
  <2>2. CASE ~(i <= Len(s))
    <3>1. i - Len(s) \in 1..Len(t) /\ Len(s) + (i - Len(s)) = i
      BY <1>1, <2>2
    <3> QED
      BY <1>0, <1>1, <2>2, <3>1
  <2> QED
    BY <2>1, <2>2
<1> QED
  BY <1>0, <1>1, <1>2, SeqEqual DEF Glued

\* The concatenations that the scripts are made of.
LEMMA CallsJoin ==
    /\ \A a, b \in SystemCalls : Glued(<<a>>, <<b>>) = <<a, b>>
    /\ \A a, b, c \in SystemCalls : Glued(<<a>>, <<b, c>>) = <<a, b, c>>
    /\ \A a, b, c, d \in SystemCalls : Glued(<<a>>, <<b, c, d>>) = <<a, b, c, d>>
    /\ \A a, b, c, d, e \in SystemCalls : Glued(<<a>>, <<b, c, d, e>>) = <<a, b, c, d, e>>
    /\ \A a, b, c \in SystemCalls : Glued(<<a, b>>, <<c>>) = <<a, b, c>>
    /\ \A a, b, c, d \in SystemCalls : Glued(<<a, b>>, <<c, d>>) = <<a, b, c, d>>
    /\ \A a, b, c, d, e \in SystemCalls : Glued(<<a, b>>, <<c, d, e>>) = <<a, b, c, d, e>>
    /\ \A a, b, c, d, e, f \in SystemCalls : Glued(<<a, b>>, <<c, d, e, f>>) = <<a, b, c, d, e, f>>
    /\ \A a, b, c, d \in SystemCalls : Glued(<<a, b, c>>, <<d>>) = <<a, b, c, d>>
    /\ \A a, b, c, d, e \in SystemCalls : Glued(<<a, b, c, d>>, <<e>>) = <<a, b, c, d, e>>
<1>1. ASSUME NEW a \in SystemCalls, NEW b \in SystemCalls
     PROVE  Glued(<<a>>, <<b>>) = <<a, b>>
  <2> DEFINE s == <<a>>
             t == <<b>>
             w == <<a, b>>
  <2>1. s \in Seq(SystemCalls) /\ t \in Seq(SystemCalls) /\ w \in Seq(SystemCalls) /\ Len(s) = 1 /\ Len(t) = 1 /\ Len(w) = 2
    OBVIOUS
  <2>2. (\A i \in 1..1 : w[i] = s[i]) /\ \A i \in 1..1 : w[1 + i] = t[i]
    OBVIOUS
  <2> HIDE DEF s, t, w
  <2>3. Joined(s, t, w)
    BY <2>1, <2>2 DEF Joined
  <2>4. Glued(s, t) = w
    BY <2>1, <2>3, Joins
  <2> QED
    BY <2>4 DEF s, t, w
<1>2. ASSUME NEW a \in SystemCalls, NEW b \in SystemCalls, NEW c \in SystemCalls
     PROVE  Glued(<<a>>, <<b, c>>) = <<a, b, c>>
  <2> DEFINE s == <<a>>
             t == <<b, c>>
             w == <<a, b, c>>
  <2>1. s \in Seq(SystemCalls) /\ t \in Seq(SystemCalls) /\ w \in Seq(SystemCalls) /\ Len(s) = 1 /\ Len(t) = 2 /\ Len(w) = 3
    OBVIOUS
  <2>2. (\A i \in 1..1 : w[i] = s[i]) /\ \A i \in 1..2 : w[1 + i] = t[i]
    OBVIOUS
  <2> HIDE DEF s, t, w
  <2>3. Joined(s, t, w)
    BY <2>1, <2>2 DEF Joined
  <2>4. Glued(s, t) = w
    BY <2>1, <2>3, Joins
  <2> QED
    BY <2>4 DEF s, t, w
<1>3. ASSUME NEW a \in SystemCalls, NEW b \in SystemCalls, NEW c \in SystemCalls, NEW d \in SystemCalls
     PROVE  Glued(<<a>>, <<b, c, d>>) = <<a, b, c, d>>
  <2> DEFINE s == <<a>>
             t == <<b, c, d>>
             w == <<a, b, c, d>>
  <2>1. s \in Seq(SystemCalls) /\ t \in Seq(SystemCalls) /\ w \in Seq(SystemCalls) /\ Len(s) = 1 /\ Len(t) = 3 /\ Len(w) = 4
    OBVIOUS
  <2>2. (\A i \in 1..1 : w[i] = s[i]) /\ \A i \in 1..3 : w[1 + i] = t[i]
    OBVIOUS
  <2> HIDE DEF s, t, w
  <2>3. Joined(s, t, w)
    BY <2>1, <2>2 DEF Joined
  <2>4. Glued(s, t) = w
    BY <2>1, <2>3, Joins
  <2> QED
    BY <2>4 DEF s, t, w
<1>4. ASSUME NEW a \in SystemCalls, NEW b \in SystemCalls, NEW c \in SystemCalls,
            NEW d \in SystemCalls, NEW e \in SystemCalls
     PROVE  Glued(<<a>>, <<b, c, d, e>>) = <<a, b, c, d, e>>
  <2> DEFINE s == <<a>>
             t == <<b, c, d, e>>
             w == <<a, b, c, d, e>>
  <2>1. s \in Seq(SystemCalls) /\ t \in Seq(SystemCalls) /\ w \in Seq(SystemCalls) /\ Len(s) = 1 /\ Len(t) = 4 /\ Len(w) = 5
    OBVIOUS
  <2>2. (\A i \in 1..1 : w[i] = s[i]) /\ \A i \in 1..4 : w[1 + i] = t[i]
    OBVIOUS
  <2> HIDE DEF s, t, w
  <2>3. Joined(s, t, w)
    BY <2>1, <2>2 DEF Joined
  <2>4. Glued(s, t) = w
    BY <2>1, <2>3, Joins
  <2> QED
    BY <2>4 DEF s, t, w
<1>5. ASSUME NEW a \in SystemCalls, NEW b \in SystemCalls, NEW c \in SystemCalls
     PROVE  Glued(<<a, b>>, <<c>>) = <<a, b, c>>
  <2> DEFINE s == <<a, b>>
             t == <<c>>
             w == <<a, b, c>>
  <2>1. s \in Seq(SystemCalls) /\ t \in Seq(SystemCalls) /\ w \in Seq(SystemCalls) /\ Len(s) = 2 /\ Len(t) = 1 /\ Len(w) = 3
    OBVIOUS
  <2>2. (\A i \in 1..2 : w[i] = s[i]) /\ \A i \in 1..1 : w[2 + i] = t[i]
    OBVIOUS
  <2> HIDE DEF s, t, w
  <2>3. Joined(s, t, w)
    BY <2>1, <2>2 DEF Joined
  <2>4. Glued(s, t) = w
    BY <2>1, <2>3, Joins
  <2> QED
    BY <2>4 DEF s, t, w
<1>6. ASSUME NEW a \in SystemCalls, NEW b \in SystemCalls, NEW c \in SystemCalls, NEW d \in SystemCalls
     PROVE  Glued(<<a, b>>, <<c, d>>) = <<a, b, c, d>>
  <2> DEFINE s == <<a, b>>
             t == <<c, d>>
             w == <<a, b, c, d>>
  <2>1. s \in Seq(SystemCalls) /\ t \in Seq(SystemCalls) /\ w \in Seq(SystemCalls) /\ Len(s) = 2 /\ Len(t) = 2 /\ Len(w) = 4
    OBVIOUS
  <2>2. (\A i \in 1..2 : w[i] = s[i]) /\ \A i \in 1..2 : w[2 + i] = t[i]
    OBVIOUS
  <2> HIDE DEF s, t, w
  <2>3. Joined(s, t, w)
    BY <2>1, <2>2 DEF Joined
  <2>4. Glued(s, t) = w
    BY <2>1, <2>3, Joins
  <2> QED
    BY <2>4 DEF s, t, w
<1>7. ASSUME NEW a \in SystemCalls, NEW b \in SystemCalls, NEW c \in SystemCalls,
            NEW d \in SystemCalls, NEW e \in SystemCalls
     PROVE  Glued(<<a, b>>, <<c, d, e>>) = <<a, b, c, d, e>>
  <2> DEFINE s == <<a, b>>
             t == <<c, d, e>>
             w == <<a, b, c, d, e>>
  <2>1. s \in Seq(SystemCalls) /\ t \in Seq(SystemCalls) /\ w \in Seq(SystemCalls) /\ Len(s) = 2 /\ Len(t) = 3 /\ Len(w) = 5
    OBVIOUS
  <2>2. (\A i \in 1..2 : w[i] = s[i]) /\ \A i \in 1..3 : w[2 + i] = t[i]
    OBVIOUS
  <2> HIDE DEF s, t, w
  <2>3. Joined(s, t, w)
    BY <2>1, <2>2 DEF Joined
  <2>4. Glued(s, t) = w
    BY <2>1, <2>3, Joins
  <2> QED
    BY <2>4 DEF s, t, w
<1>8. ASSUME NEW a \in SystemCalls, NEW b \in SystemCalls, NEW c \in SystemCalls,
            NEW d \in SystemCalls, NEW e \in SystemCalls, NEW f \in SystemCalls
     PROVE  Glued(<<a, b>>, <<c, d, e, f>>) = <<a, b, c, d, e, f>>
  <2> DEFINE s == <<a, b>>
             t == <<c, d, e, f>>
             w == <<a, b, c, d, e, f>>
  <2>1. s \in Seq(SystemCalls) /\ t \in Seq(SystemCalls) /\ w \in Seq(SystemCalls) /\ Len(s) = 2 /\ Len(t) = 4 /\ Len(w) = 6
    OBVIOUS
  <2>2. (\A i \in 1..2 : w[i] = s[i]) /\ \A i \in 1..4 : w[2 + i] = t[i]
    OBVIOUS
  <2> HIDE DEF s, t, w
  <2>3. Joined(s, t, w)
    BY <2>1, <2>2 DEF Joined
  <2>4. Glued(s, t) = w
    BY <2>1, <2>3, Joins
  <2> QED
    BY <2>4 DEF s, t, w
<1>9. ASSUME NEW a \in SystemCalls, NEW b \in SystemCalls, NEW c \in SystemCalls, NEW d \in SystemCalls
     PROVE  Glued(<<a, b, c>>, <<d>>) = <<a, b, c, d>>
  <2> DEFINE s == <<a, b, c>>
             t == <<d>>
             w == <<a, b, c, d>>
  <2>1. s \in Seq(SystemCalls) /\ t \in Seq(SystemCalls) /\ w \in Seq(SystemCalls) /\ Len(s) = 3 /\ Len(t) = 1 /\ Len(w) = 4
    OBVIOUS
  <2>2. (\A i \in 1..3 : w[i] = s[i]) /\ \A i \in 1..1 : w[3 + i] = t[i]
    OBVIOUS
  <2> HIDE DEF s, t, w
  <2>3. Joined(s, t, w)
    BY <2>1, <2>2 DEF Joined
  <2>4. Glued(s, t) = w
    BY <2>1, <2>3, Joins
  <2> QED
    BY <2>4 DEF s, t, w
<1>10. ASSUME NEW a \in SystemCalls, NEW b \in SystemCalls, NEW c \in SystemCalls,
            NEW d \in SystemCalls, NEW e \in SystemCalls
     PROVE  Glued(<<a, b, c, d>>, <<e>>) = <<a, b, c, d, e>>
  <2> DEFINE s == <<a, b, c, d>>
             t == <<e>>
             w == <<a, b, c, d, e>>
  <2>1. s \in Seq(SystemCalls) /\ t \in Seq(SystemCalls) /\ w \in Seq(SystemCalls) /\ Len(s) = 4 /\ Len(t) = 1 /\ Len(w) = 5
    OBVIOUS
  <2>2. (\A i \in 1..4 : w[i] = s[i]) /\ \A i \in 1..1 : w[4 + i] = t[i]
    OBVIOUS
  <2> HIDE DEF s, t, w
  <2>3. Joined(s, t, w)
    BY <2>1, <2>2 DEF Joined
  <2>4. Glued(s, t) = w
    BY <2>1, <2>3, Joins
  <2> QED
    BY <2>4 DEF s, t, w
<1> QED
  BY <1>1, <1>2, <1>3, <1>4, <1>5, <1>6, <1>7, <1>8, <1>9, <1>10

LEMMA SystemCallNames ==
    /\ "startup" \in SystemCalls /\ "socket" \in SystemCalls /\ "socket_cloexec" \in SystemCalls
    /\ "cloexec" \in SystemCalls /\ "reuseaddr" \in SystemCalls /\ "pack" \in SystemCalls
    /\ "bind" \in SystemCalls /\ "chmod" \in SystemCalls /\ "listen" \in SystemCalls
    /\ "connect" \in SystemCalls /\ "accept" \in SystemCalls /\ "accept_cloexec" \in SystemCalls
    /\ "own" \in SystemCalls /\ "unpack" \in SystemCalls
  BY DEF SystemCalls

\* The scripts in full.
LEMMA LinuxScripts ==
    /\ linux_tcp_connect = <<"socket_cloexec", "connect">>
    /\ linux_tcp_listen = <<"socket_cloexec", "reuseaddr", "bind", "listen">>
    /\ linux_unix_connect = <<"socket_cloexec", "pack", "connect">>
    /\ linux_unix_listen = <<"socket_cloexec", "pack", "bind", "chmod", "listen">>
    /\ linux_udp_bind = <<"socket_cloexec", "bind">>
<1>1. linux_tcp_connect = <<"socket_cloexec", "connect">>
  <2>1. Glued(<<"socket_cloexec">>, <<"connect">>) = <<"socket_cloexec", "connect">>
    BY SystemCallNames, CallsJoin
  <2> QED
    BY <2>1 DEF Glued, linux_tcp_connect, linux_new_tcp_socket
<1>2. linux_tcp_listen = <<"socket_cloexec", "reuseaddr", "bind", "listen">>
  <2>1. Glued(<<"socket_cloexec">>, <<"reuseaddr", "bind", "listen">>) = <<"socket_cloexec", "reuseaddr", "bind", "listen">>
    BY SystemCallNames, CallsJoin
  <2> QED
    BY <2>1 DEF Glued, linux_tcp_listen, linux_new_tcp_socket
<1>3. linux_unix_connect = <<"socket_cloexec", "pack", "connect">>
  <2>1. Glued(<<"socket_cloexec">>, <<"pack", "connect">>) = <<"socket_cloexec", "pack", "connect">>
    BY SystemCallNames, CallsJoin
  <2> QED
    BY <2>1 DEF Glued, linux_unix_connect, linux_new_unix_socket
<1>4. linux_unix_listen = <<"socket_cloexec", "pack", "bind", "chmod", "listen">>
  <2>1. Glued(<<"socket_cloexec">>, <<"pack", "bind", "chmod", "listen">>) = <<"socket_cloexec", "pack", "bind", "chmod", "listen">>
    BY SystemCallNames, CallsJoin
  <2> QED
    BY <2>1 DEF Glued, linux_unix_listen, linux_new_unix_socket
<1>5. linux_udp_bind = <<"socket_cloexec", "bind">>
  <2>1. Glued(<<"socket_cloexec">>, <<"bind">>) = <<"socket_cloexec", "bind">>
    BY SystemCallNames, CallsJoin
  <2> QED
    BY <2>1 DEF Glued, linux_udp_bind, linux_new_udp_socket
<1> QED
  BY <1>1, <1>2, <1>3, <1>4, <1>5

LEMMA BsdScripts ==
    /\ bsd_tcp_connect = <<"socket", "cloexec", "connect">>
    /\ bsd_tcp_listen = <<"socket", "cloexec", "reuseaddr", "bind", "listen">>
    /\ bsd_unix_connect = <<"socket", "cloexec", "pack", "connect">>
    /\ bsd_unix_listen = <<"socket", "cloexec", "pack", "bind", "chmod", "listen">>
    /\ bsd_udp_bind = <<"socket", "cloexec", "bind">>
    /\ bsd_tcp_accept = <<"accept", "own", "cloexec">>
    /\ bsd_unix_accept = <<"accept", "own", "cloexec", "unpack">>
<1>1. bsd_tcp_connect = <<"socket", "cloexec", "connect">>
  <2>1. Glued(<<"socket">>, <<"cloexec">>) = <<"socket", "cloexec">>
    BY SystemCallNames, CallsJoin
  <2>2. Glued(<<"socket", "cloexec">>, <<"connect">>) = <<"socket", "cloexec", "connect">>
    BY SystemCallNames, CallsJoin
  <2> QED
    BY <2>1, <2>2 DEF Glued, bsd_tcp_connect, bsd_new_tcp_socket, bsd_set_cloexec
<1>2. bsd_tcp_listen = <<"socket", "cloexec", "reuseaddr", "bind", "listen">>
  <2>1. Glued(<<"socket">>, <<"cloexec">>) = <<"socket", "cloexec">>
    BY SystemCallNames, CallsJoin
  <2>2. Glued(<<"socket", "cloexec">>, <<"reuseaddr", "bind", "listen">>) = <<"socket", "cloexec", "reuseaddr", "bind", "listen">>
    BY SystemCallNames, CallsJoin
  <2> QED
    BY <2>1, <2>2 DEF Glued, bsd_tcp_listen, bsd_new_tcp_socket, bsd_set_cloexec
<1>3. bsd_unix_connect = <<"socket", "cloexec", "pack", "connect">>
  <2>1. Glued(<<"socket">>, <<"cloexec">>) = <<"socket", "cloexec">>
    BY SystemCallNames, CallsJoin
  <2>2. Glued(<<"socket", "cloexec">>, <<"pack", "connect">>) = <<"socket", "cloexec", "pack", "connect">>
    BY SystemCallNames, CallsJoin
  <2> QED
    BY <2>1, <2>2 DEF Glued, bsd_unix_connect, bsd_new_unix_socket, bsd_set_cloexec
<1>4. bsd_unix_listen = <<"socket", "cloexec", "pack", "bind", "chmod", "listen">>
  <2>1. Glued(<<"socket">>, <<"cloexec">>) = <<"socket", "cloexec">>
    BY SystemCallNames, CallsJoin
  <2>2. Glued(<<"socket", "cloexec">>, <<"pack", "bind", "chmod", "listen">>) = <<"socket", "cloexec", "pack", "bind", "chmod", "listen">>
    BY SystemCallNames, CallsJoin
  <2> QED
    BY <2>1, <2>2 DEF Glued, bsd_unix_listen, bsd_new_unix_socket, bsd_set_cloexec
<1>5. bsd_udp_bind = <<"socket", "cloexec", "bind">>
  <2>1. Glued(<<"socket">>, <<"cloexec">>) = <<"socket", "cloexec">>
    BY SystemCallNames, CallsJoin
  <2>2. Glued(<<"socket", "cloexec">>, <<"bind">>) = <<"socket", "cloexec", "bind">>
    BY SystemCallNames, CallsJoin
  <2> QED
    BY <2>1, <2>2 DEF Glued, bsd_udp_bind, bsd_new_udp_socket, bsd_set_cloexec
<1>6. bsd_tcp_accept = <<"accept", "own", "cloexec">>
  <2>1. Glued(<<"accept", "own">>, <<"cloexec">>) = <<"accept", "own", "cloexec">>
    BY SystemCallNames, CallsJoin
  <2> QED
    BY <2>1 DEF Glued, bsd_tcp_accept, bsd_set_cloexec
<1>7. bsd_unix_accept = <<"accept", "own", "cloexec", "unpack">>
  <2>1. Glued(<<"accept", "own">>, <<"cloexec">>) = <<"accept", "own", "cloexec">>
    BY SystemCallNames, CallsJoin
  <2>2. Glued(<<"accept", "own", "cloexec">>, <<"unpack">>) = <<"accept", "own", "cloexec", "unpack">>
    BY SystemCallNames, CallsJoin
  <2> QED
    BY <2>1, <2>2 DEF Glued, bsd_unix_accept, bsd_set_cloexec
<1> QED
  BY <1>1, <1>2, <1>3, <1>4, <1>5, <1>6, <1>7

LEMMA WindowsScripts ==
    /\ windows_tcp_connect = <<"startup", "socket", "connect">>
    /\ windows_tcp_listen = <<"startup", "socket", "reuseaddr", "bind", "listen">>
    /\ windows_unix_connect = <<"startup", "socket", "pack", "connect">>
    /\ windows_unix_listen = <<"startup", "socket", "pack", "bind", "listen">>
    /\ windows_udp_bind = <<"startup", "socket", "bind">>
    /\ windows_tcp_accept \in {<<"accept", "own">>, <<"accept", "unpack", "own">>}
    /\ windows_unix_accept = <<"accept", "unpack", "own">>
<1>1. windows_tcp_connect = <<"startup", "socket", "connect">>
  <2>1. Glued(<<"startup">>, <<"socket">>) = <<"startup", "socket">>
    BY SystemCallNames, CallsJoin
  <2>2. Glued(<<"startup", "socket">>, <<"connect">>) = <<"startup", "socket", "connect">>
    BY SystemCallNames, CallsJoin
  <2> QED
    BY <2>1, <2>2 DEF Glued, windows_tcp_connect, windows_new_tcp_socket, raw_connect, ensure_wsa_started, raw_socket
<1>2. windows_tcp_listen = <<"startup", "socket", "reuseaddr", "bind", "listen">>
  <2>1. Glued(<<"startup">>, <<"socket">>) = <<"startup", "socket">>
    BY SystemCallNames, CallsJoin
  <2>2. Glued(<<"startup", "socket">>, <<"reuseaddr">>) = <<"startup", "socket", "reuseaddr">>
    BY SystemCallNames, CallsJoin
  <2>3. Glued(<<"startup", "socket", "reuseaddr">>, <<"bind">>) = <<"startup", "socket", "reuseaddr", "bind">>
    BY SystemCallNames, CallsJoin
  <2>4. Glued(<<"startup", "socket", "reuseaddr", "bind">>, <<"listen">>) = <<"startup", "socket", "reuseaddr", "bind", "listen">>
    BY SystemCallNames, CallsJoin
  <2> QED
    BY <2>1, <2>2, <2>3, <2>4 DEF Glued, windows_tcp_listen, windows_new_tcp_socket, raw_bind, raw_listen, ensure_wsa_started, raw_socket
<1>3. windows_unix_connect = <<"startup", "socket", "pack", "connect">>
  <2>1. Glued(<<"startup">>, <<"socket">>) = <<"startup", "socket">>
    BY SystemCallNames, CallsJoin
  <2>2. Glued(<<"startup", "socket">>, <<"pack", "connect">>) = <<"startup", "socket", "pack", "connect">>
    BY SystemCallNames, CallsJoin
  <2> QED
    BY <2>1, <2>2 DEF Glued, windows_unix_connect, windows_new_unix_socket, raw_connect_unix, ensure_wsa_started, raw_unix_socket
<1>4. windows_unix_listen = <<"startup", "socket", "pack", "bind", "listen">>
  <2>1. Glued(<<"startup">>, <<"socket">>) = <<"startup", "socket">>
    BY SystemCallNames, CallsJoin
  <2>2. Glued(<<"startup", "socket">>, <<"pack", "bind">>) = <<"startup", "socket", "pack", "bind">>
    BY SystemCallNames, CallsJoin
  <2>3. Glued(<<"startup", "socket", "pack", "bind">>, <<"listen">>) = <<"startup", "socket", "pack", "bind", "listen">>
    BY SystemCallNames, CallsJoin
  <2> QED
    BY <2>1, <2>2, <2>3 DEF Glued, windows_unix_listen, windows_new_unix_socket, raw_bind_unix, raw_listen, ensure_wsa_started, raw_unix_socket
<1>5. windows_udp_bind = <<"startup", "socket", "bind">>
  <2>1. Glued(<<"startup">>, <<"socket">>) = <<"startup", "socket">>
    BY SystemCallNames, CallsJoin
  <2>2. Glued(<<"startup", "socket">>, <<"bind">>) = <<"startup", "socket", "bind">>
    BY SystemCallNames, CallsJoin
  <2> QED
    BY <2>1, <2>2 DEF Glued, windows_udp_bind, windows_new_udp_socket, raw_bind, ensure_wsa_started, raw_socket
<1>6. windows_tcp_accept \in {<<"accept", "own">>, <<"accept", "unpack", "own">>}
  <2>1. Glued(<<"accept">>, <<"own">>) = <<"accept", "own">>
    BY SystemCallNames, CallsJoin
  <2>2. Glued(<<"accept", "unpack">>, <<"own">>) = <<"accept", "unpack", "own">>
    BY SystemCallNames, CallsJoin
  <2> QED
    BY <2>1, <2>2 DEF Glued, windows_tcp_accept, raw_accept
<1>7. windows_unix_accept = <<"accept", "unpack", "own">>
  <2>1. Glued(<<"accept", "unpack">>, <<"own">>) = <<"accept", "unpack", "own">>
    BY SystemCallNames, CallsJoin
  <2> QED
    BY <2>1 DEF Glued, windows_unix_accept, raw_accept_unix
<1> QED
  BY <1>1, <1>2, <1>3, <1>4, <1>5, <1>6, <1>7

LEMMA UseScripts ==
    /\ UseLeft("tcp", <<"connect">>) /\ UseLeft("tcp", <<"reuseaddr", "bind", "listen">>)
    /\ UseLeft("unix", <<"pack", "connect">>) /\ UseLeft("unix", <<"pack", "bind", "chmod", "listen">>)
    /\ UseLeft("unix", <<"pack", "bind", "listen">>) /\ UseLeft("udp", <<"bind">>)
<1>1. ListenLeft(<<"listen">>) /\ ConnectLeft(<<"connect">>)
  BY DEF ListenLeft, ConnectLeft, Begins
<1>2. ChmodLeft(<<"chmod", "listen">>)
  BY <1>1 DEF ChmodLeft, Begins
<1>3. BindLeft(<<"bind", "listen">>)
  BY <1>1 DEF BindLeft, Begins
<1>4. BindLeft(<<"bind", "chmod", "listen">>)
  BY <1>2 DEF BindLeft, Begins
<1>5. ReuseLeft(<<"reuseaddr", "bind", "listen">>)
  BY <1>3 DEF ReuseLeft, Begins
<1>6. PackLeft(<<"pack", "connect">>)
  BY <1>1 DEF PackLeft, Begins
<1>7. PackLeft(<<"pack", "bind", "listen">>)
  BY <1>3 DEF PackLeft, Begins
<1>8. PackLeft(<<"pack", "bind", "chmod", "listen">>)
  BY <1>4 DEF PackLeft, Begins
<1>9. Begins(<<"bind">>, "bind") /\ Tail(<<"bind">>) = <<>>
  BY DEF Begins
<1> QED
  BY <1>1, <1>5, <1>6, <1>7, <1>8, <1>9 DEF UseLeft

\* What the scripts are at their start.
LEMMA LinuxStages ==
    /\ SocketLeft("linux", "tcp", linux_tcp_connect) /\ linux_tcp_connect \in Seq(SystemCalls)
    /\ SocketLeft("linux", "tcp", linux_tcp_listen) /\ linux_tcp_listen \in Seq(SystemCalls)
    /\ SocketLeft("linux", "unix", linux_unix_connect) /\ linux_unix_connect \in Seq(SystemCalls)
    /\ SocketLeft("linux", "unix", linux_unix_listen) /\ linux_unix_listen \in Seq(SystemCalls)
    /\ SocketLeft("linux", "udp", linux_udp_bind) /\ linux_udp_bind \in Seq(SystemCalls)
<1>1. SocketLeft("linux", "tcp", linux_tcp_connect) /\ linux_tcp_connect \in Seq(SystemCalls)
  <2>1. Begins(<<"socket_cloexec", "connect">>, "socket_cloexec") /\ Tail(<<"socket_cloexec", "connect">>) = <<"connect">>
    BY DEF Begins
  <2>2. <<"socket_cloexec", "connect">> \in Seq(SystemCalls)
    BY SystemCallNames
  <2> QED
    BY <2>1, <2>2, LinuxScripts, UseScripts DEF SocketLeft
<1>2. SocketLeft("linux", "tcp", linux_tcp_listen) /\ linux_tcp_listen \in Seq(SystemCalls)
  <2>1. Begins(<<"socket_cloexec", "reuseaddr", "bind", "listen">>, "socket_cloexec") /\ Tail(<<"socket_cloexec", "reuseaddr", "bind", "listen">>) = <<"reuseaddr", "bind", "listen">>
    BY DEF Begins
  <2>2. <<"socket_cloexec", "reuseaddr", "bind", "listen">> \in Seq(SystemCalls)
    BY SystemCallNames
  <2> QED
    BY <2>1, <2>2, LinuxScripts, UseScripts DEF SocketLeft
<1>3. SocketLeft("linux", "unix", linux_unix_connect) /\ linux_unix_connect \in Seq(SystemCalls)
  <2>1. Begins(<<"socket_cloexec", "pack", "connect">>, "socket_cloexec") /\ Tail(<<"socket_cloexec", "pack", "connect">>) = <<"pack", "connect">>
    BY DEF Begins
  <2>2. <<"socket_cloexec", "pack", "connect">> \in Seq(SystemCalls)
    BY SystemCallNames
  <2> QED
    BY <2>1, <2>2, LinuxScripts, UseScripts DEF SocketLeft
<1>4. SocketLeft("linux", "unix", linux_unix_listen) /\ linux_unix_listen \in Seq(SystemCalls)
  <2>1. Begins(<<"socket_cloexec", "pack", "bind", "chmod", "listen">>, "socket_cloexec") /\ Tail(<<"socket_cloexec", "pack", "bind", "chmod", "listen">>) = <<"pack", "bind", "chmod", "listen">>
    BY DEF Begins
  <2>2. <<"socket_cloexec", "pack", "bind", "chmod", "listen">> \in Seq(SystemCalls)
    BY SystemCallNames
  <2> QED
    BY <2>1, <2>2, LinuxScripts, UseScripts DEF SocketLeft
<1>5. SocketLeft("linux", "udp", linux_udp_bind) /\ linux_udp_bind \in Seq(SystemCalls)
  <2>1. Begins(<<"socket_cloexec", "bind">>, "socket_cloexec") /\ Tail(<<"socket_cloexec", "bind">>) = <<"bind">>
    BY DEF Begins
  <2>2. <<"socket_cloexec", "bind">> \in Seq(SystemCalls)
    BY SystemCallNames
  <2> QED
    BY <2>1, <2>2, LinuxScripts, UseScripts DEF SocketLeft
<1> QED
  BY <1>1, <1>2, <1>3, <1>4, <1>5

LEMMA BsdStages ==
    /\ SocketLeft("bsd", "tcp", bsd_tcp_connect) /\ bsd_tcp_connect \in Seq(SystemCalls)
    /\ SocketLeft("bsd", "tcp", bsd_tcp_listen) /\ bsd_tcp_listen \in Seq(SystemCalls)
    /\ SocketLeft("bsd", "unix", bsd_unix_connect) /\ bsd_unix_connect \in Seq(SystemCalls)
    /\ SocketLeft("bsd", "unix", bsd_unix_listen) /\ bsd_unix_listen \in Seq(SystemCalls)
    /\ SocketLeft("bsd", "udp", bsd_udp_bind) /\ bsd_udp_bind \in Seq(SystemCalls)
<1>1. SocketLeft("bsd", "tcp", bsd_tcp_connect) /\ bsd_tcp_connect \in Seq(SystemCalls)
  <2>1. Begins(<<"cloexec", "connect">>, "cloexec") /\ Tail(<<"cloexec", "connect">>) = <<"connect">>
    BY DEF Begins
  <2>2. Begins(<<"socket", "cloexec", "connect">>, "socket") /\ Tail(<<"socket", "cloexec", "connect">>) = <<"cloexec", "connect">>
    BY DEF Begins
  <2>3. <<"socket", "cloexec", "connect">> \in Seq(SystemCalls)
    BY SystemCallNames
  <2>4. CloexecLeft("bsd", "tcp", <<"cloexec", "connect">>)
    BY <2>1, UseScripts DEF CloexecLeft
  <2> QED
    BY <2>2, <2>3, <2>4, BsdScripts DEF SocketLeft
<1>2. SocketLeft("bsd", "tcp", bsd_tcp_listen) /\ bsd_tcp_listen \in Seq(SystemCalls)
  <2>1. Begins(<<"cloexec", "reuseaddr", "bind", "listen">>, "cloexec") /\ Tail(<<"cloexec", "reuseaddr", "bind", "listen">>) = <<"reuseaddr", "bind", "listen">>
    BY DEF Begins
  <2>2. Begins(<<"socket", "cloexec", "reuseaddr", "bind", "listen">>, "socket") /\ Tail(<<"socket", "cloexec", "reuseaddr", "bind", "listen">>) = <<"cloexec", "reuseaddr", "bind", "listen">>
    BY DEF Begins
  <2>3. <<"socket", "cloexec", "reuseaddr", "bind", "listen">> \in Seq(SystemCalls)
    BY SystemCallNames
  <2>4. CloexecLeft("bsd", "tcp", <<"cloexec", "reuseaddr", "bind", "listen">>)
    BY <2>1, UseScripts DEF CloexecLeft
  <2> QED
    BY <2>2, <2>3, <2>4, BsdScripts DEF SocketLeft
<1>3. SocketLeft("bsd", "unix", bsd_unix_connect) /\ bsd_unix_connect \in Seq(SystemCalls)
  <2>1. Begins(<<"cloexec", "pack", "connect">>, "cloexec") /\ Tail(<<"cloexec", "pack", "connect">>) = <<"pack", "connect">>
    BY DEF Begins
  <2>2. Begins(<<"socket", "cloexec", "pack", "connect">>, "socket") /\ Tail(<<"socket", "cloexec", "pack", "connect">>) = <<"cloexec", "pack", "connect">>
    BY DEF Begins
  <2>3. <<"socket", "cloexec", "pack", "connect">> \in Seq(SystemCalls)
    BY SystemCallNames
  <2>4. CloexecLeft("bsd", "unix", <<"cloexec", "pack", "connect">>)
    BY <2>1, UseScripts DEF CloexecLeft
  <2> QED
    BY <2>2, <2>3, <2>4, BsdScripts DEF SocketLeft
<1>4. SocketLeft("bsd", "unix", bsd_unix_listen) /\ bsd_unix_listen \in Seq(SystemCalls)
  <2>1. Begins(<<"cloexec", "pack", "bind", "chmod", "listen">>, "cloexec") /\ Tail(<<"cloexec", "pack", "bind", "chmod", "listen">>) = <<"pack", "bind", "chmod", "listen">>
    BY DEF Begins
  <2>2. Begins(<<"socket", "cloexec", "pack", "bind", "chmod", "listen">>, "socket") /\ Tail(<<"socket", "cloexec", "pack", "bind", "chmod", "listen">>) = <<"cloexec", "pack", "bind", "chmod", "listen">>
    BY DEF Begins
  <2>3. <<"socket", "cloexec", "pack", "bind", "chmod", "listen">> \in Seq(SystemCalls)
    BY SystemCallNames
  <2>4. CloexecLeft("bsd", "unix", <<"cloexec", "pack", "bind", "chmod", "listen">>)
    BY <2>1, UseScripts DEF CloexecLeft
  <2> QED
    BY <2>2, <2>3, <2>4, BsdScripts DEF SocketLeft
<1>5. SocketLeft("bsd", "udp", bsd_udp_bind) /\ bsd_udp_bind \in Seq(SystemCalls)
  <2>1. Begins(<<"cloexec", "bind">>, "cloexec") /\ Tail(<<"cloexec", "bind">>) = <<"bind">>
    BY DEF Begins
  <2>2. Begins(<<"socket", "cloexec", "bind">>, "socket") /\ Tail(<<"socket", "cloexec", "bind">>) = <<"cloexec", "bind">>
    BY DEF Begins
  <2>3. <<"socket", "cloexec", "bind">> \in Seq(SystemCalls)
    BY SystemCallNames
  <2>4. CloexecLeft("bsd", "udp", <<"cloexec", "bind">>)
    BY <2>1, UseScripts DEF CloexecLeft
  <2> QED
    BY <2>2, <2>3, <2>4, BsdScripts DEF SocketLeft
<1> QED
  BY <1>1, <1>2, <1>3, <1>4, <1>5

LEMMA WindowsStages ==
    ASSUME NEW b \in {"windows", "trackw"}
    PROVE  /\ StartupLeft(b, "tcp", windows_tcp_connect) /\ windows_tcp_connect \in Seq(SystemCalls)
           /\ StartupLeft(b, "tcp", windows_tcp_listen) /\ windows_tcp_listen \in Seq(SystemCalls)
           /\ StartupLeft(b, "unix", windows_unix_connect) /\ windows_unix_connect \in Seq(SystemCalls)
           /\ StartupLeft(b, "unix", windows_unix_listen) /\ windows_unix_listen \in Seq(SystemCalls)
           /\ StartupLeft(b, "udp", windows_udp_bind) /\ windows_udp_bind \in Seq(SystemCalls)
<1>1. StartupLeft(b, "tcp", windows_tcp_connect) /\ windows_tcp_connect \in Seq(SystemCalls)
  <2>1. Begins(<<"socket", "connect">>, "socket") /\ Tail(<<"socket", "connect">>) = <<"connect">>
    BY DEF Begins
  <2>2. Begins(<<"startup", "socket", "connect">>, "startup") /\ Tail(<<"startup", "socket", "connect">>) = <<"socket", "connect">>
    BY DEF Begins
  <2>3. <<"startup", "socket", "connect">> \in Seq(SystemCalls)
    BY SystemCallNames
  <2>4. SocketLeft(b, "tcp", <<"socket", "connect">>)
    BY <2>1, UseScripts DEF SocketLeft
  <2> QED
    BY <2>2, <2>3, <2>4, WindowsScripts DEF StartupLeft
<1>2. StartupLeft(b, "tcp", windows_tcp_listen) /\ windows_tcp_listen \in Seq(SystemCalls)
  <2>1. Begins(<<"socket", "reuseaddr", "bind", "listen">>, "socket") /\ Tail(<<"socket", "reuseaddr", "bind", "listen">>) = <<"reuseaddr", "bind", "listen">>
    BY DEF Begins
  <2>2. Begins(<<"startup", "socket", "reuseaddr", "bind", "listen">>, "startup") /\ Tail(<<"startup", "socket", "reuseaddr", "bind", "listen">>) = <<"socket", "reuseaddr", "bind", "listen">>
    BY DEF Begins
  <2>3. <<"startup", "socket", "reuseaddr", "bind", "listen">> \in Seq(SystemCalls)
    BY SystemCallNames
  <2>4. SocketLeft(b, "tcp", <<"socket", "reuseaddr", "bind", "listen">>)
    BY <2>1, UseScripts DEF SocketLeft
  <2> QED
    BY <2>2, <2>3, <2>4, WindowsScripts DEF StartupLeft
<1>3. StartupLeft(b, "unix", windows_unix_connect) /\ windows_unix_connect \in Seq(SystemCalls)
  <2>1. Begins(<<"socket", "pack", "connect">>, "socket") /\ Tail(<<"socket", "pack", "connect">>) = <<"pack", "connect">>
    BY DEF Begins
  <2>2. Begins(<<"startup", "socket", "pack", "connect">>, "startup") /\ Tail(<<"startup", "socket", "pack", "connect">>) = <<"socket", "pack", "connect">>
    BY DEF Begins
  <2>3. <<"startup", "socket", "pack", "connect">> \in Seq(SystemCalls)
    BY SystemCallNames
  <2>4. SocketLeft(b, "unix", <<"socket", "pack", "connect">>)
    BY <2>1, UseScripts DEF SocketLeft
  <2> QED
    BY <2>2, <2>3, <2>4, WindowsScripts DEF StartupLeft
<1>4. StartupLeft(b, "unix", windows_unix_listen) /\ windows_unix_listen \in Seq(SystemCalls)
  <2>1. Begins(<<"socket", "pack", "bind", "listen">>, "socket") /\ Tail(<<"socket", "pack", "bind", "listen">>) = <<"pack", "bind", "listen">>
    BY DEF Begins
  <2>2. Begins(<<"startup", "socket", "pack", "bind", "listen">>, "startup") /\ Tail(<<"startup", "socket", "pack", "bind", "listen">>) = <<"socket", "pack", "bind", "listen">>
    BY DEF Begins
  <2>3. <<"startup", "socket", "pack", "bind", "listen">> \in Seq(SystemCalls)
    BY SystemCallNames
  <2>4. SocketLeft(b, "unix", <<"socket", "pack", "bind", "listen">>)
    BY <2>1, UseScripts DEF SocketLeft
  <2> QED
    BY <2>2, <2>3, <2>4, WindowsScripts DEF StartupLeft
<1>5. StartupLeft(b, "udp", windows_udp_bind) /\ windows_udp_bind \in Seq(SystemCalls)
  <2>1. Begins(<<"socket", "bind">>, "socket") /\ Tail(<<"socket", "bind">>) = <<"bind">>
    BY DEF Begins
  <2>2. Begins(<<"startup", "socket", "bind">>, "startup") /\ Tail(<<"startup", "socket", "bind">>) = <<"socket", "bind">>
    BY DEF Begins
  <2>3. <<"startup", "socket", "bind">> \in Seq(SystemCalls)
    BY SystemCallNames
  <2>4. SocketLeft(b, "udp", <<"socket", "bind">>)
    BY <2>1, UseScripts DEF SocketLeft
  <2> QED
    BY <2>2, <2>3, <2>4, WindowsScripts DEF StartupLeft
<1> QED
  BY <1>1, <1>2, <1>3, <1>4, <1>5

LEMMA AcceptStages ==
    /\ AcceptLeft("linux", "tcp", linux_tcp_accept) /\ linux_tcp_accept \in Seq(SystemCalls)
    /\ AcceptLeft("linux", "unix", linux_unix_accept) /\ linux_unix_accept \in Seq(SystemCalls)
    /\ AcceptLeft("bsd", "tcp", bsd_tcp_accept) /\ bsd_tcp_accept \in Seq(SystemCalls)
    /\ AcceptLeft("bsd", "unix", bsd_unix_accept) /\ bsd_unix_accept \in Seq(SystemCalls)
    /\ \A b \in {"windows", "trackw"} :
          /\ AcceptLeft(b, "tcp", windows_tcp_accept) /\ windows_tcp_accept \in Seq(SystemCalls)
          /\ AcceptLeft(b, "unix", windows_unix_accept) /\ windows_unix_accept \in Seq(SystemCalls)
<1>1. UnpackLeft(<<"unpack">>) /\ OwnLeft("linux", <<"own">>)
  BY DEF UnpackLeft, OwnLeft, Begins
<1>2. OwnLeft("linux", <<"own", "unpack">>)
  BY <1>1 DEF OwnLeft, Begins
<1>3. MarkLeft("bsd", <<"cloexec">>)
  BY DEF MarkLeft, Begins
<1>4. MarkLeft("bsd", <<"cloexec", "unpack">>)
  BY <1>1 DEF MarkLeft, Begins
<1>5. OwnLeft("bsd", <<"own", "cloexec">>)
  BY <1>3 DEF OwnLeft, Begins
<1>6. OwnLeft("bsd", <<"own", "cloexec", "unpack">>)
  BY <1>4 DEF OwnLeft, Begins
<1>7. \A b \in {"windows", "trackw"} : OwnLeft(b, <<"own">>)
  BY DEF OwnLeft, Begins
<1>8. \A b \in {"windows", "trackw"} : UnpackFirst(b, <<"unpack", "own">>)
  BY <1>7 DEF UnpackFirst, Begins
<1>9. AcceptLeft("linux", "tcp", <<"accept_cloexec", "own">>)
  BY <1>1 DEF AcceptLeft, Begins
<1>10. AcceptLeft("linux", "unix", <<"accept_cloexec", "own", "unpack">>)
  BY <1>2 DEF AcceptLeft, Begins
<1>11. AcceptLeft("bsd", "tcp", <<"accept", "own", "cloexec">>)
  BY <1>5 DEF AcceptLeft, Begins
<1>12. AcceptLeft("bsd", "unix", <<"accept", "own", "cloexec", "unpack">>)
  BY <1>6 DEF AcceptLeft, Begins
<1>13. \A b \in {"windows", "trackw"} : AcceptLeft(b, "tcp", <<"accept", "own">>)
  BY <1>7 DEF AcceptLeft, Begins
<1>14. \A b \in {"windows", "trackw"}, k \in {"tcp", "unix"} :
          AcceptLeft(b, k, <<"accept", "unpack", "own">>)
  BY <1>8 DEF AcceptLeft, Begins
<1>15. /\ <<"accept_cloexec", "own">> \in Seq(SystemCalls)
       /\ <<"accept_cloexec", "own", "unpack">> \in Seq(SystemCalls)
       /\ <<"accept", "own", "cloexec">> \in Seq(SystemCalls)
       /\ <<"accept", "own", "cloexec", "unpack">> \in Seq(SystemCalls)
       /\ <<"accept", "own">> \in Seq(SystemCalls)
       /\ <<"accept", "unpack", "own">> \in Seq(SystemCalls)
  BY SystemCallNames
<1>16. linux_tcp_accept = <<"accept_cloexec", "own">>
       /\ linux_unix_accept = <<"accept_cloexec", "own", "unpack">>
  BY DEF linux_tcp_accept, linux_unix_accept
<1> QED
  BY <1>9, <1>10, <1>11, <1>12, <1>13, <1>14, <1>15, <1>16, BsdScripts, WindowsScripts

\* The operations that make a socket of kind k.
Makes(k, op) == \/ k = "tcp" /\ op \in {"tcp_connect", "tcp_listen"}
                \/ k = "unix" /\ op \in {"unix_connect", "unix_listen"}
                \/ k = "udp" /\ op = "udp_bind"

LEMMA CreateScript ==
    ASSUME backend \in {"linux", "bsd", "windows", "trackw"}, NEW k, NEW op, Makes(k, op)
    PROVE  /\ Script(op) \in Seq(SystemCalls)
           /\ \/ StartupLeft(backend, k, Script(op))
              \/ SocketLeft(backend, k, Script(op)) /\ PosixBackend(backend)
<1>1. CASE backend = "linux"
  <2>1. Script(op) = LinuxNet[op]
    BY <1>1 DEF Makes, Script, Windows
  <2> QED
    BY <1>1, <2>1, LinuxStages DEF Makes, LinuxNet, PosixBackend
<1>2. CASE backend = "bsd"
  <2>1. Script(op) = BsdNet[op]
    BY <1>2 DEF Makes, Script, Windows
  <2> QED
    BY <1>2, <2>1, BsdStages DEF Makes, BsdNet, PosixBackend
<1>3. CASE backend \in {"windows", "trackw"}
  <2>1. Script(op) = WindowsNet[op]
    BY <1>3 DEF Makes, Script, Windows
  <2> QED
    BY <1>3, <2>1, WindowsStages DEF Makes, WindowsNet
<1> QED
  BY <1>1, <1>2, <1>3

LEMMA AcceptScript ==
    ASSUME backend \in {"linux", "bsd", "windows", "trackw"}, NEW k, NEW op,
           \/ k = "tcp" /\ op = "tcp_accept"
           \/ k = "unix" /\ op = "unix_accept"
    PROVE  Script(op) \in Seq(SystemCalls) /\ AcceptLeft(backend, k, Script(op))
<1>1. CASE k = "tcp" /\ op = "tcp_accept"
  <2>1. CASE backend = "linux"
    <3>1. Script(op) = linux_tcp_accept
      BY <1>1, <2>1 DEF Script, Windows, LinuxTcpListener
    <3> QED
      BY <1>1, <2>1, <3>1, AcceptStages
  <2>2. CASE backend = "bsd"
    <3>1. Script(op) = bsd_tcp_accept
      BY <1>1, <2>2 DEF Script, Windows, BsdTcpListener
    <3> QED
      BY <1>1, <2>2, <3>1, AcceptStages
  <2>3. CASE backend \in {"windows", "trackw"}
    <3>1. Script(op) = windows_tcp_accept
      BY <1>1, <2>3 DEF Script, Windows, WindowsTcpListener
    <3> QED
      BY <1>1, <2>3, <3>1, AcceptStages
  <2> QED
    BY <2>1, <2>2, <2>3
<1>2. CASE k = "unix" /\ op = "unix_accept"
  <2>1. CASE backend = "linux"
    <3>1. Script(op) = linux_unix_accept
      BY <1>2, <2>1 DEF Script, Windows, LinuxUnixListener
    <3> QED
      BY <1>2, <2>1, <3>1, AcceptStages
  <2>2. CASE backend = "bsd"
    <3>1. Script(op) = bsd_unix_accept
      BY <1>2, <2>2 DEF Script, Windows, BsdUnixListener
    <3> QED
      BY <1>2, <2>2, <3>1, AcceptStages
  <2>3. CASE backend \in {"windows", "trackw"}
    <3>1. Script(op) = windows_unix_accept
      BY <1>2, <2>3 DEF Script, Windows, WindowsUnixListener
    <3> QED
      BY <1>2, <2>3, <3>1, AcceptStages
  <2> QED
    BY <2>1, <2>2, <2>3
<1> QED
  BY <1>1, <1>2

-----------------------------------------------------------------------------
\* The conversions of the backend the program runs on.
LEMMA ConversionsOn ==
    ASSUME backend \in {"linux", "bsd", "windows", "trackw"}
    PROVE  /\ \A a : KernelName(a) = NameOn(backend, kind, a)
           /\ \A a : kind # "unix" => to_sockaddr(a) = NameOn(backend, kind, a) /\ sendto(a) = NameOn(backend, kind, a)
           /\ \A p : Refused_un(p) = RefusedOn(backend, p)
           /\ \A d : rcvtimeo(d) = TimeoutOn(backend, d)
           /\ Windows <=> ~PosixBackend(backend)
<1>1. ASSUME NEW a, kind # "unix"
      PROVE  to_sockaddr(a) = NameOn(backend, kind, a) /\ sendto(a) = NameOn(backend, kind, a)
  BY <1>1 DEF to_sockaddr, NameOn, linux_to_sockaddr, bsd_to_sockaddr, windows_to_sockaddr,
              donor_to_sockaddr, to_donor_addr, sendto, linux_udp_send_to, bsd_udp_send_to, raw_sendto
<1>2. ASSUME NEW a PROVE KernelName(a) = NameOn(backend, kind, a)
  <2>1. CASE kind = "unix"
    BY <2>1 DEF KernelName, NameOn
  <2>2. CASE kind # "unix"
    BY <1>1, <2>2 DEF KernelName
  <2> QED
    BY <2>1, <2>2
<1>3. ASSUME NEW p PROVE Refused_un(p) = RefusedOn(backend, p)
  BY DEF Refused_un, RefusedOn, PosixBackend, linux_refuses_un, bsd_refuses_un, windows_refuses_un,
         to_donor_unix_addr_refuses
<1>4. ASSUME NEW d PROVE rcvtimeo(d) = TimeoutOn(backend, d)
  BY DEF rcvtimeo, TimeoutOn, PosixBackend, linux_set_read_timeout, bsd_set_read_timeout,
         windows_set_read_timeout
<1>5. Windows <=> ~PosixBackend(backend)
  BY DEF Windows, PosixBackend
<1> QED
  BY <1>1, <1>2, <1>3, <1>4, <1>5

LEMMA IdleType == Idle \in CallRecord /\ Idle.s = 0 /\ Idle.on = 0
<1>1. <<>> \in Seq(SystemCalls) /\ <<>> \in Asked
  BY DEF Asked
<1> QED
  BY <1>1 DEF Idle, CallRecord

LEMMA SocketFields ==
    ASSUME NEW x \in SocketRecord
    PROVE  /\ x.st \in {"new", "bound", "listening", "connected"} /\ x.st # "none" /\ x.asked \in Asked
           /\ x.name \in SockName /\ x.peer \in SockName /\ x.inherit \in BOOLEAN /\ x.reuse \in BOOLEAN
           /\ x.want \in Nat \union {-1} /\ x.timeo \in Nat /\ x.queue \in Seq(Waiting)
  BY DEF SocketRecord

LEMMA OpenSockets ==
    ASSUME SocketTypes, NEW s \in Slots
    PROVE  /\ Open(s) <=> sock[s] \in SocketRecord
           /\ ~Open(s) => sock[s] = NoSock
<1>1. NoSock.st = "none"
  BY DEF NoSock
<1>2. sock[s] \in {NoSock} \union SocketRecord
  BY DEF SocketTypes
<1> QED
  BY <1>1, <1>2, SocketFields DEF Open

\* The timeout that is set is a number, within the one asked for.
LEMMA TimeoutBounds ==
    ASSUME NEW b, NEW d \in Nat \union {-1}
    PROVE  /\ TimeoutOn(b, d) \in Nat
           /\ LET u == IF PosixBackend(b) THEN Micro ELSE Milli
              IN d >= u => TimeoutOn(b, d) # 0 /\ TimeoutOn(b, d) * u <= d
<1>1. Micro \in Nat \ {0} /\ Milli \in Nat \ {0} /\ MaxMillis \in Nat \ {0}
  BY SocketConstants DEF SocketParameters
<1>2. ASSUME NEW u \in Nat \ {0}, d # -1
      PROVE  /\ d \div u \in Nat /\ (d \div u) * u <= d
             /\ d >= u => d \div u >= 1
             /\ \A m \in Nat : m < d \div u => m * u <= d
  <2>0. d \in Nat
    BY <1>2
  <2>1. d = u * (d \div u) + (d % u) /\ d % u \in 0..(u - 1) /\ d \div u \in Nat
    BY <2>0
  <2> DEFINE q == d \div u
             r == d % u
  <2>2. d = u * q + r /\ r \in 0..(u - 1) /\ q \in Nat
    BY <2>1
  <2> HIDE DEF q, r
  <2>3. q * u <= d
    BY <2>0, <2>2
  <2>4. d >= u => q >= 1
    <3>1. CASE q = 0
      BY <2>0, <2>2, <3>1
    <3> QED
      BY <2>2, <3>1
  <2>5. ASSUME NEW m \in Nat, m < q PROVE m * u <= d
    <3>1. m * u <= q * u
      BY <2>2, <2>5
    <3> QED
      BY <2>0, <2>2, <2>3, <3>1
  <2> QED
    BY <2>2, <2>3, <2>4, <2>5 DEF q
<1>3. CASE d = -1
  BY <1>1, <1>3 DEF TimeoutOn, linux_set_read_timeout, windows_set_read_timeout
<1>4. CASE d # -1 /\ PosixBackend(b)
  <2>1. TimeoutOn(b, d) = d \div Micro
    BY <1>4 DEF TimeoutOn, linux_set_read_timeout
  <2> QED
    BY <1>1, <1>2, <1>4, <2>1
<1>5. CASE d # -1 /\ ~PosixBackend(b)
  <2>1. TimeoutOn(b, d) = IF d \div Milli > MaxMillis THEN MaxMillis ELSE d \div Milli
    BY <1>5 DEF TimeoutOn, windows_set_read_timeout
  <2>2. /\ d \div Milli \in Nat /\ (d \div Milli) * Milli <= d
        /\ d >= Milli => d \div Milli >= 1
        /\ MaxMillis < d \div Milli => MaxMillis * Milli <= d
    BY <1>1, <1>2, <1>5
  <2> QED
    BY <1>1, <1>5, <2>1, <2>2
<1> QED
  BY <1>3, <1>4, <1>5

-----------------------------------------------------------------------------
(* Names in sun_path                                                       *)

FirstZero(b, i) == i \in 1..Len(b) /\ b[i] = 0 /\ \A j \in 1..(i - 1) : b[j] # 0

LEMMA BytesAre ==
    ASSUME NEW b \in Seq(Nat), NEW x
    PROVE  x \in Bytes(b) <=> \E i \in 1..Len(b) : b[i] = x
<1>1. DOMAIN b = 1..Len(b)
  OBVIOUS
<1> QED
  BY <1>1 DEF Bytes

LEMMA ThereIsAFirstZero ==
    ASSUME NEW b \in Seq(Nat), 0 \in Bytes(b)
    PROVE  \E i : FirstZero(b, i)
<1> DEFINE Z == {i \in 1..Len(b) : b[i] = 0}
<1>1. Z \subseteq Nat /\ Z # {} /\ Len(b) \in Nat
  BY BytesAre
<1>2. PICK i \in Z : \A j \in Z : ~(<<j, i>> \in OpToRel(<, Nat))
  BY <1>1, NatLessThanWellFounded, WFMin
<1>3. \A j \in Z : ~(j < i)
  BY <1>1, <1>2 DEF OpToRel
<1>4. i \in 1..Len(b) /\ b[i] = 0
  OBVIOUS
<1>5. ASSUME NEW j \in 1..(i - 1) PROVE b[j] # 0
  <2>1. j \in 1..Len(b) /\ j < i
    BY <1>1, <1>4
  <2> QED
    BY <1>3, <2>1
<1> QED
  BY <1>4, <1>5 DEF FirstZero

LEMMA CStringCuts ==
    ASSUME NEW b \in Seq(Nat), NEW i, FirstZero(b, i)
    PROVE  CString(b) = SubSeq(b, 1, i - 1)
<1> DEFINE F(n) == n \in DOMAIN b /\ b[n] = 0 /\ \A j \in 1..(n - 1) : b[j] # 0
           f == CHOOSE n \in DOMAIN b : b[n] = 0 /\ \A j \in 1..(n - 1) : b[j] # 0
<1>1. DOMAIN b = 1..Len(b) /\ Len(b) \in Nat
  OBVIOUS
<1>2. i \in DOMAIN b /\ b[i] = 0 /\ \A j \in 1..(i - 1) : b[j] # 0
  BY <1>1 DEF FirstZero
<1>3. f \in DOMAIN b /\ b[f] = 0 /\ \A j \in 1..(f - 1) : b[j] # 0
  BY <1>2
<1>4. CString(b) = SubSeq(b, 1, f - 1)
  <2>1. 0 \in Bytes(b)
    BY <1>2 DEF Bytes
  <2> QED
    BY <2>1 DEF CString
<1> HIDE DEF f
<1>5. f = i
  <2>1. i \in Nat /\ f \in Nat /\ i >= 1 /\ f >= 1
    BY <1>1, <1>2, <1>3
  <2>2. CASE f < i
    <3>1. f \in 1..(i - 1)
      BY <2>1, <2>2
    <3> QED
      BY <1>2, <1>3, <3>1
  <2>3. CASE i < f
    <3>1. i \in 1..(f - 1)
      BY <2>1, <2>3
    <3> QED
      BY <1>2, <1>3, <3>1
  <2> QED
    BY <2>1, <2>2, <2>3
<1> QED
  BY <1>4, <1>5

LEMMA CStringFacts ==
    ASSUME NEW b \in Seq(Nat)
    PROVE  /\ CString(b) \in Seq(Nat) /\ 0 \notin Bytes(CString(b)) /\ Len(CString(b)) <= Len(b)
           /\ Bytes(CString(b)) \subseteq Bytes(b) /\ (0 \notin Bytes(b) => CString(b) = b)
<1>1. CASE 0 \notin Bytes(b)
  <2>1. CString(b) = b /\ Len(b) \in Nat
    BY <1>1 DEF CString
  <2> QED
    BY <1>1, <2>1
<1>2. CASE 0 \in Bytes(b)
  <2>1. PICK i : FirstZero(b, i)
    BY <1>2, ThereIsAFirstZero
  <2> DEFINE s == SubSeq(b, 1, i - 1)
  <2>2. i \in 1..Len(b) /\ Len(b) \in Nat
    BY <2>1 DEF FirstZero
  <2>3. s \in Seq(Nat) /\ Len(s) = i - 1 /\ \A j \in 1..(i - 1) : s[j] = b[j]
    BY <2>2
  <2>4. CString(b) = s
    BY <2>1, CStringCuts
  <2> HIDE DEF s
  <2>5. 0 \notin Bytes(s)
    <3>1. \A j \in 1..(i - 1) : s[j] # 0
      BY <2>1, <2>3 DEF FirstZero
    <3>2. \A j \in 1..Len(s) : s[j] # 0
      BY <2>3, <3>1
    <3> QED
      BY <2>3, <3>2, BytesAre
  <2>6. Bytes(s) \subseteq Bytes(b)
    <3> SUFFICES ASSUME NEW x \in Bytes(s) PROVE x \in Bytes(b)
      OBVIOUS
    <3>1. PICK j \in 1..(i - 1) : s[j] = x
      BY <2>3, BytesAre
    <3>2. j \in 1..Len(b) /\ b[j] = x
      BY <2>2, <2>3, <3>1
    <3> QED
      BY <3>2, BytesAre
  <2> QED
    BY <1>2, <2>2, <2>3, <2>4, <2>5, <2>6
<1> QED
  BY <1>1, <1>2

\* A path that is not refused names something that fits.
LEMMA AcceptedPathFits ==
    ASSUME NEW b, NEW p \in Seq(Nat), ~RefusedOn(b, p)
    PROVE  Fits(CString(p)) /\ Fits(<<>>)
<1>1. SunPath \in Nat /\ Len(p) \in Nat /\ Len(CString(p)) \in Nat
  BY SocketConstants, CStringFacts DEF SocketParameters
<1>2. Len(p) <= SunPath
  BY <1>1 DEF RefusedOn, linux_refuses_un, windows_refuses_un
<1>3. Len(CString(p)) <= SunPath
  BY <1>1, <1>2, CStringFacts
<1>4. <<>> \in Seq(Nat) /\ Len(<<>>) = 0
  OBVIOUS
<1>5. 0 \notin Bytes(<<>>)
  <2> DEFINE e == <<>>
  <2>1. e \in Seq(Nat) /\ Len(e) = 0
    OBVIOUS
  <2> HIDE DEF e
  <2>2. ~\E i \in 1..Len(e) : e[i] = 0
    BY <2>1
  <2>3. 0 \notin Bytes(e)
    BY <2>1, <2>2, BytesAre
  <2> QED
    BY <2>3 DEF e
<1> QED
  BY <1>1, <1>3, <1>4, <1>5, CStringFacts DEF Fits

PathOf(name) == [i \in 1..SunPath |-> IF i <= Len(name) THEN name[i] ELSE 0]
PathCut(name, n) == SubSeq(PathOf(name), 1, n)

\* The first n bytes of a sun_path that holds a name.
LEMMA PathBytes ==
    ASSUME NEW name, Fits(name), NEW n \in Nat, Len(name) <= n, n <= SunPath, NEW b,
           b = PathCut(name, n)
    PROVE  /\ b \in Seq(Nat) /\ Len(b) = n /\ CString(b) = name
           /\ n = Len(name) => b = name
           /\ n > Len(name) => b[n] = 0
           /\ n = Len(name) + 1 => SubSeq(b, 1, n - 1) = name
<1> DEFINE p == [i \in 1..SunPath |-> IF i <= Len(name) THEN name[i] ELSE 0]
<1>1. SunPath \in Nat /\ name \in Seq(Nat) /\ Len(name) \in Nat
  BY SocketConstants DEF SocketParameters, Fits
<1>2. \A i \in 1..Len(name) : name[i] \in Nat /\ name[i] # 0
  BY <1>1, BytesAre DEF Fits
<1>3. p \in Seq(Nat) /\ Len(p) = SunPath
  <2>1. ASSUME NEW i \in 1..SunPath PROVE p[i] \in Nat
    <3>1. CASE i <= Len(name)
      BY <1>1, <1>2, <3>1
    <3> QED
      BY <1>1, <3>1
  <2>2. p \in [1..SunPath -> Nat]
    BY <2>1
  <2> HIDE DEF p
  <2> QED
    BY <1>1, <2>2
<1>4. \A i \in 1..SunPath : p[i] = IF i <= Len(name) THEN name[i] ELSE 0
  OBVIOUS
<1> HIDE DEF p
<1>5. b = SubSeq(p, 1, n)
  BY DEF p, PathOf, PathCut
<1>6. b \in Seq(Nat) /\ Len(b) = n /\ \A i \in 1..n : b[i] = p[i]
  <2>1. n \in 0..Len(p)
    BY <1>1, <1>3
  <2>2. /\ SubSeq(p, 1, n) \in Seq(Nat) /\ Len(SubSeq(p, 1, n)) = n
        /\ \A i \in 1..n : SubSeq(p, 1, n)[i] = p[i]
    BY <1>3, <2>1
  <2> QED
    BY <1>5, <2>2
<1>7. \A i \in 1..n : b[i] = IF i <= Len(name) THEN name[i] ELSE 0
  BY <1>1, <1>4, <1>6
<1>8. n = Len(name) => b = name
  <2> SUFFICES ASSUME n = Len(name) PROVE b = name
    OBVIOUS
  <2>1. \A i \in 1..Len(b) : b[i] = name[i]
    BY <1>1, <1>6, <1>7
  <2> QED
    BY <1>1, <1>6, <2>1, SeqEqual
<1>9. n > Len(name) => b[n] = 0 /\ SubSeq(b, 1, Len(name)) = name /\ FirstZero(b, Len(name) + 1)
  <2> SUFFICES ASSUME n > Len(name)
               PROVE  b[n] = 0 /\ SubSeq(b, 1, Len(name)) = name /\ FirstZero(b, Len(name) + 1)
    OBVIOUS
  <2>1. b[n] = 0 /\ b[Len(name) + 1] = 0 /\ Len(name) + 1 \in 1..Len(b)
    BY <1>1, <1>6, <1>7
  <2>2. \A j \in 1..Len(name) : b[j] = name[j]
    BY <1>1, <1>7
  <2>3. FirstZero(b, Len(name) + 1)
    BY <1>1, <1>2, <2>1, <2>2 DEF FirstZero
  <2>4. /\ SubSeq(b, 1, Len(name)) \in Seq(Nat) /\ Len(SubSeq(b, 1, Len(name))) = Len(name)
        /\ \A j \in 1..Len(name) : SubSeq(b, 1, Len(name))[j] = b[j]
    BY <1>1, <1>6
  <2>5. SubSeq(b, 1, Len(name)) = name
    BY <1>1, <2>2, <2>4, SeqEqual
  <2> QED
    BY <2>1, <2>3, <2>5
<1>10. CString(b) = name
  <2>1. CASE n = Len(name)
    BY <1>6, <1>8, <2>1, CStringFacts DEF Fits
  <2>2. CASE n > Len(name)
    <3>1. CString(b) = SubSeq(b, 1, (Len(name) + 1) - 1)
      BY <1>6, <1>9, <2>2, CStringCuts
    <3>2. (Len(name) + 1) - 1 = Len(name)
      BY <1>1
    <3> QED
      BY <1>9, <2>2, <3>1, <3>2
  <2> QED
    BY <1>1, <2>1, <2>2
<1>11. n = Len(name) + 1 => SubSeq(b, 1, n - 1) = name
  <2> SUFFICES ASSUME n = Len(name) + 1 PROVE SubSeq(b, 1, n - 1) = name
    OBVIOUS
  <2>1. n > Len(name) /\ n - 1 = Len(name)
    BY <1>1
  <2> QED
    BY <1>9, <2>1
<1> QED
  BY <1>6, <1>8, <1>9, <1>10, <1>11

\* What any backend makes of what the kernel reports is the name.
LEMMA ReportedIsRead ==
    ASSUME NEW name, Fits(name), NEW r \in Reported(name)
    PROVE  /\ backend = "linux" => from_sockaddr_unPop(r) = name
           /\ CString(SunBytes(r)) = name
<1> DEFINE p == PathOf(name)
           exact == IF name = <<>> THEN 0 ELSE Len(name) + 1
           n == IF r.len > SunPath THEN SunPath ELSE r.len
           b == SunBytes(r)
<1>1. SunPath \in Nat \ {0} /\ name \in Seq(Nat) /\ Len(name) \in Nat /\ Len(name) <= SunPath
  BY SocketConstants DEF SocketParameters, Fits
<1>2. name = <<>> <=> Len(name) = 0
  BY <1>1, EmptyIffZero
<1>3. r.path = p /\ r.len \in {exact, SunPath} /\ (backend = "linux" => r.len = exact)
  <2>1. PICK m \in IF backend = "linux" THEN {exact} ELSE {exact, SunPath} : r = [path |-> p, len |-> m]
    BY DEF Reported, PathOf
  <2> HIDE DEF p, exact
  <2> QED
    BY <2>1
<1>4. n \in Nat /\ Len(name) <= n /\ n <= SunPath
  BY <1>1, <1>2, <1>3
<1>5. backend = "linux" => n = Len(name) \/ n = Len(name) + 1
  BY <1>1, <1>2, <1>3
<1>6. b = PathCut(name, n)
  BY <1>3 DEF SunBytes, PathCut
<1> HIDE DEF n, b
<1>7. /\ b \in Seq(Nat) /\ Len(b) = n /\ CString(b) = name
      /\ n = Len(name) => b = name
      /\ n > Len(name) => b[n] = 0
      /\ n = Len(name) + 1 => SubSeq(b, 1, n - 1) = name
  BY <1>4, <1>6, PathBytes
<1>8. backend = "linux" => from_sockaddr_unPop(r) = name
  <2> SUFFICES ASSUME backend = "linux" PROVE from_sockaddr_unPop(r) = name
    OBVIOUS
  <2>0. from_sockaddr_unPop(r) = IF b # <<>> /\ b[Len(b)] = 0 THEN SubSeq(b, 1, Len(b) - 1) ELSE b
    BY DEF from_sockaddr_unPop, b
  <2>1. CASE n = Len(name)
    <3>1. b = name
      BY <1>7, <2>1
    <3>2. b # <<>> => b[Len(b)] # 0
      <4> SUFFICES ASSUME b # <<>> PROVE b[Len(b)] # 0
        OBVIOUS
      <4>1. Len(b) \in 1..Len(b)
        BY <1>1, <1>2, <3>1
      <4> QED
        BY <1>7, <3>1, <4>1, BytesAre DEF Fits
    <3> QED
      BY <2>0, <3>1, <3>2
  <2>2. CASE n = Len(name) + 1
    <3>0. n > Len(name) /\ n # 0
      BY <1>1, <2>2
    <3>1. b[n] = 0 /\ SubSeq(b, 1, n - 1) = name /\ Len(b) = n
      BY <1>7, <2>2, <3>0
    <3>2. b # <<>>
      BY <1>7, <3>0, EmptyIffZero
    <3> QED
      BY <2>0, <3>1, <3>2
  <2> QED
    BY <1>5, <2>1, <2>2
<1> QED
  BY <1>7, <1>8 DEF b

-----------------------------------------------------------------------------
(* What a step leaves alone                                                *)

\* The socket in slot r is as it was, but for what is queued or set on it.
Kept(r) == /\ sock'[r].st = sock[r].st /\ sock'[r].asked = sock[r].asked
           /\ sock'[r].inherit = sock[r].inherit /\ sock'[r].peer = sock[r].peer

LEMMA StageKept ==
    ASSUME NEW b, NEW k, NEW up, NEW v, NEW c, NEW x, NEW y, Stage(b, k, up, c, x), up => v,
           c.s # 0 => y.st = x.st /\ y.asked = x.asked /\ y.inherit = x.inherit
    PROVE  Stage(b, k, v, c, y)
<1>1. CASE Acquiring(b, k, up, c)
  BY <1>1 DEF Stage, Acquiring
<1>2. CASE Creating(b, k, c, x)
  BY <1>2 DEF Stage, Creating
<1>3. CASE Accepted(b, k, c, x)
  BY <1>3 DEF Stage, Accepted
<1> QED
  BY <1>1, <1>2, <1>3 DEF Stage

LEMMA CallKept ==
    ASSUME SocketInv, NEW u \in Thread, call'[u] = call[u], UNCHANGED <<backend, kind>>,
           started => started',
           call[u].s # 0 => Kept(call[u].s) /\ call[u].s \notin held',
           call[u].on # 0 => call[u].on \in held'
    PROVE  CallGood(u)'
<1>1. CallGood(u)
  BY DEF SocketInv, CallsAreStaged
<1>2. Stage(backend, kind, started', call[u], sock'[call[u].s])
  BY <1>1, StageKept DEF CallGood, Kept
<1>3. Stage(backend', kind', started', call'[u], sock'[call'[u].s])
  BY <1>2
<1>4. call[u].s # 0 => sock'[call[u].s].st # "none"
  BY <1>1 DEF CallGood, Kept, Open
<1> QED
  BY <1>1, <1>3, <1>4 DEF CallGood, Open

\* The socket in slot r is somebody's, after the step.
OwnedNext(r) ==
    \/ r \in held'
    \/ \E u \in Thread : call'[u].s = r
    \/ backend = "windows" /\ kind = "unix" /\ 2 \in Bytes(sock'[r].peer)
GoodNext(r) ==
    /\ SocketGood(backend, kind, sock'[r], r \in held')
    /\ PosixBackend(backend) \/ started'
TypesNext ==
    /\ started' \in BOOLEAN /\ (started => started')
    /\ sock' \in [Slots -> {NoSock} \union SocketRecord]
    /\ call' \in [Thread -> CallRecord]
    /\ held' \subseteq Slots

\* What has to be shown of a step of thread t (of nobody, if there is none).
LEMMA SocketStep ==
    ASSUME SocketInv, UNCHANGED <<backend, kind, leaked>>, TypesNext,
           NEW t,
           \A u \in Thread : u # t => call'[u] = call[u],
           t \in Thread => CallGood(t)',
           \A u \in Thread : u # t /\ call[u].s # 0 =>
               /\ Kept(call[u].s) /\ call[u].s \notin held'
               /\ t \in Thread => call'[t].s # call[u].s,
           \A u \in Thread : u # t /\ call[u].on # 0 => call[u].on \in held',
           \A r \in Slots : sock'[r].st # "none" => GoodNext(r) /\ OwnedNext(r),
           \A r \in held' : sock'[r].st # "none"
    PROVE  SocketInv'
<1>1. SocketTypes'
  BY DEF SocketInv, SocketTypes, TypesNext
<1>2. CallsAreStaged'
  <2> SUFFICES ASSUME NEW u \in Thread PROVE CallGood(u)'
    BY DEF CallsAreStaged
  <2>1. CASE u = t
    BY <2>1
  <2>2. CASE u # t
    BY <2>2, CallKept DEF TypesNext
  <2> QED
    BY <2>1, <2>2
<1>3. OneCallEach'
  <2> SUFFICES ASSUME NEW u \in Thread, NEW w \in Thread, call'[u].s = call'[w].s, call'[u].s # 0
               PROVE  u = w
    BY DEF OneCallEach
  <2> QED
    BY DEF SocketInv, OneCallEach
<1>4. SocketsAreGood'
  BY DEF SocketsAreGood, GoodNext, Open
<1>5. NoSocketLeaks'
  BY DEF NoSocketLeaks, OwnedNext, Open
<1>6. SocketsStayHome'
  BY DEF SocketInv, SocketsStayHome
<1> QED
  BY <1>1, <1>2, <1>3, <1>4, <1>5, <1>6 DEF SocketInv

\* An operation begins or ends without a socket of its own.
LEMMA CallStep ==
    ASSUME SocketInv, NEW t \in Thread, NEW c \in CallRecord, call' = [call EXCEPT ![t] = c],
           UNCHANGED <<backend, kind, started, held, leaked>>,
           call[t].s = 0, c.s = 0, c.on # 0 => c.on \in held,
           \A x : Stage(backend, kind, started, c, x),
           sock' \in [Slots -> {NoSock} \union SocketRecord],
           \A r \in Slots : Kept(r) /\ (Open(r) => SocketGood(backend, kind, sock'[r], r \in held))
    PROVE  SocketInv'
<1>1. /\ call \in [Thread -> CallRecord] /\ held \subseteq Slots /\ started \in BOOLEAN
  BY DEF SocketInv, SocketTypes
<1>2. call'[t] = c /\ \A u \in Thread : u # t => call'[u] = call[u]
  BY <1>1
<1>3. TypesNext
  BY <1>1 DEF TypesNext
<1>4. CallGood(t)'
  <2>1. Stage(backend', kind', started', call'[t], sock'[call'[t].s])
    BY <1>2
  <2> QED
    BY <1>2, <2>1 DEF CallGood
<1>5. \A u \in Thread : CallGood(u)
  BY DEF SocketInv, CallsAreStaged
<1>6. ASSUME NEW u \in Thread, u # t, call[u].s # 0
      PROVE  /\ Kept(call[u].s) /\ call[u].s \notin held'
             /\ t \in Thread => call'[t].s # call[u].s
  <2>1. call[u].s \in Slots
    BY <1>1, <1>6 DEF CallRecord
  <2> QED
    BY <1>2, <1>5, <1>6, <2>1 DEF CallGood
<1>7. \A u \in Thread : u # t /\ call[u].on # 0 => call[u].on \in held'
  BY <1>5 DEF CallGood
<1>8. ASSUME NEW r \in Slots, sock'[r].st # "none" PROVE GoodNext(r) /\ OwnedNext(r)
  <2>1. Open(r) /\ SocketGood(backend, kind, sock'[r], r \in held) /\ sock'[r].peer = sock[r].peer
    BY <1>8 DEF Kept, Open
  <2>2. PosixBackend(backend) \/ started
    BY <2>1 DEF SocketInv, SocketsAreGood
  <2>3. \/ r \in held \/ \E u \in Thread : call[u].s = r
        \/ backend = "windows" /\ kind = "unix" /\ 2 \in Bytes(sock[r].peer)
    BY <2>1 DEF SocketInv, NoSocketLeaks
  <2>4. 0 \notin Slots
    BY SocketConstants DEF SocketParameters
  <2>5. \A u \in Thread : call[u].s = r => call'[u].s = r
    BY <1>2, <2>4
  <2> QED
    BY <2>1, <2>2, <2>3, <2>5 DEF GoodNext, OwnedNext
<1>9. \A r \in held' : sock'[r].st # "none"
  BY <1>1 DEF Kept, SocketInv, SocketsAreGood, Open
<1> QED
  BY <1>2, <1>3, <1>4, <1>6, <1>7, <1>8, <1>9, SocketStep

\* A step of the world, or of a thread that is in no operation.
LEMMA WorldStep ==
    ASSUME SocketInv, UNCHANGED <<backend, kind, started, held, call, leaked>>,
           sock' \in [Slots -> {NoSock} \union SocketRecord],
           \A r \in Slots : Kept(r) /\ (Open(r) => SocketGood(backend, kind, sock'[r], r \in held))
    PROVE  SocketInv'
<1>1. /\ call \in [Thread -> CallRecord] /\ held \subseteq Slots /\ started \in BOOLEAN
  BY DEF SocketInv, SocketTypes
<1>2. TypesNext
  BY <1>1 DEF TypesNext
<1>3. \A u \in Thread : CallGood(u) /\ (call[u].s # 0 => call[u].s \in Slots)
  BY <1>1 DEF SocketInv, CallsAreStaged, CallRecord
<1>4. PICK t : t \notin Thread
  BY NoSetContainsEverything
<1>5. \A u \in Thread : u # t /\ call[u].s # 0 =>
               /\ Kept(call[u].s) /\ call[u].s \notin held'
               /\ t \in Thread => call'[t].s # call[u].s
  BY <1>3, <1>4 DEF CallGood
<1>6. \A u \in Thread : u # t /\ call[u].on # 0 => call[u].on \in held'
  BY <1>3 DEF CallGood
<1>7. ASSUME NEW r \in Slots, sock'[r].st # "none" PROVE GoodNext(r) /\ OwnedNext(r)
  <2>1. Open(r) /\ SocketGood(backend, kind, sock'[r], r \in held) /\ sock'[r].peer = sock[r].peer
    BY <1>7 DEF Kept, Open
  <2>2. PosixBackend(backend) \/ started
    BY <2>1 DEF SocketInv, SocketsAreGood
  <2>3. \/ r \in held \/ \E u \in Thread : call[u].s = r
        \/ backend = "windows" /\ kind = "unix" /\ 2 \in Bytes(sock[r].peer)
    BY <2>1 DEF SocketInv, NoSocketLeaks
  <2> QED
    BY <2>1, <2>2, <2>3 DEF GoodNext, OwnedNext
<1>8. \A r \in held' : sock'[r].st # "none"
  BY <1>1 DEF Kept, SocketInv, SocketsAreGood, Open
<1> QED
  BY <1>2, <1>4, <1>5, <1>6, <1>7, <1>8, SocketStep

\* The operation after its next call has succeeded.
NextCall(c, s, owned) == [c EXCEPT !.todo = Tail(@), !.s = s, !.owned = owned]

LEMMA NextCallFields ==
    ASSUME NEW c \in CallRecord, c.todo # <<>>, NEW s \in Slots \union {0}, NEW o \in BOOLEAN
    PROVE  LET n == NextCall(c, s, o)
           IN /\ n \in CallRecord /\ n.todo = Tail(c.todo) /\ n.s = s /\ n.owned = o
              /\ n.op = c.op /\ n.on = c.on /\ n.asked = c.asked
<1>1. Tail(c.todo) \in Seq(SystemCalls)
  <2>1. c.todo \in Seq(SystemCalls)
    BY DEF CallRecord
  <2> QED
    BY <2>1, Dequeued
<1> DEFINE q == Tail(c.todo)
<1> HIDE DEF q
<1>2. /\ [c EXCEPT !.todo = q, !.s = s, !.owned = o] \in CallRecord
      /\ NextCall(c, s, o) = [c EXCEPT !.todo = q, !.s = s, !.owned = o]
  BY <1>1 DEF CallRecord, NextCall, q
<1>3. LET n == [c EXCEPT !.todo = q, !.s = s, !.owned = o]
      IN /\ n.todo = q /\ n.s = s /\ n.owned = o
         /\ n.op = c.op /\ n.on = c.on /\ n.asked = c.asked
  BY DEF CallRecord
<1> QED
  BY <1>2, <1>3 DEF q

\* What a call leaves to the operation: a socket s, which it made or had.
Moved(t, s) ==
    /\ s = 0 => Tail(call[t].todo) # <<>> /\ call[t].s = 0
    /\ s # 0 =>
          /\ s \in Slots /\ (s = call[t].s \/ (call[t].s = 0 /\ ~Open(s)))
          /\ sock'[s] \in SocketRecord
          /\ SocketGood(backend, kind, sock'[s], Tail(call[t].todo) = <<>>)
          /\ PosixBackend(backend) \/ started'
    /\ \A r \in Slots : r # s => Kept(r) /\ (Open(r) => SocketGood(backend, kind, sock'[r], r \in held))
    /\ started' \in BOOLEAN /\ (started => started')
    /\ sock' \in [Slots -> {NoSock} \union SocketRecord]

LEMMA ZeroIsNoSlot == 0 \notin Slots
  BY SocketConstants DEF SocketParameters

LEMMA AdvanceStep ==
    ASSUME SocketInv, NEW t \in Thread, NEW s \in Slots \union {0}, NEW o \in BOOLEAN,
           call[t].todo # <<>>, Advance(t, s, o), Moved(t, s), UNCHANGED <<backend, kind, leaked>>,
           Tail(call[t].todo) # <<>> =>
               Stage(backend, kind, started', NextCall(call[t], s, o), sock'[s])
    PROVE  SocketInv'
<1> DEFINE last == Tail(call[t].todo) = <<>>
           n == NextCall(call[t], s, o)
<1>1. /\ call \in [Thread -> CallRecord] /\ held \subseteq Slots
      /\ \A u \in Thread : CallGood(u) /\ (call[u].s # 0 => call[u].s \in Slots)
  BY DEF SocketInv, SocketTypes, CallsAreStaged, CallRecord
<1>2. /\ n \in CallRecord /\ n.s = s /\ n.on = call[t].on
  BY <1>1, NextCallFields
<1>3. /\ last => call' = [call EXCEPT ![t] = Idle] /\ held' = held \union {s}
      /\ ~last => call' = [call EXCEPT ![t] = n] /\ held' = held
  BY <1>1 DEF Advance, NextCall, CallRecord
<1> HIDE DEF last, n
<1>4. /\ last => call'[t] = Idle
      /\ ~last => call'[t] = n
      /\ \A u \in Thread : u # t => call'[u] = call[u]
  BY <1>1, <1>3
<1>5. s \in held => FALSE
  <2>1. CASE s = call[t].s
    BY <1>1, <2>1, ZeroIsNoSlot DEF CallGood
  <2>2. CASE s # call[t].s
    BY <1>1, <2>2, ZeroIsNoSlot DEF Moved, SocketInv, SocketsAreGood
  <2> QED
    BY <2>1, <2>2
<1>6. s \in held' <=> last
  BY <1>3, <1>5
<1>7. last => s # 0 /\ s \in Slots
  BY DEF Moved, last
<1>8. TypesNext
  <2>1. call' \in [Thread -> CallRecord]
    BY <1>1, <1>2, <1>3, IdleType
  <2>2. held' \subseteq Slots
    BY <1>1, <1>3, <1>7
  <2> QED
    BY <2>1, <2>2 DEF TypesNext, Moved
<1>9. CallGood(t)'
  <2>1. CASE last
    <3>1. Stage(backend', kind', started', call'[t], sock'[call'[t].s])
      BY <1>4, <2>1 DEF Stage
    <3> QED
      BY <1>4, <2>1, <3>1, IdleType DEF CallGood
  <2>2. CASE ~last
    <3>1. Stage(backend', kind', started', call'[t], sock'[call'[t].s])
      BY <1>2, <1>4, <2>2 DEF n, last
    <3>2. s # 0 => sock'[s].st # "none" /\ s \notin held'
      BY <1>6, <2>2, SocketFields DEF Moved
    <3>3. call[t].on # 0 => call[t].on \in held'
      BY <1>1, <1>3, <2>2 DEF CallGood
    <3> QED
      BY <1>2, <1>4, <2>2, <3>1, <3>2, <3>3 DEF CallGood, Open
  <2> QED
    BY <2>1, <2>2
<1>10. ASSUME NEW u \in Thread, u # t, call[u].s # 0
       PROVE  call[u].s # s /\ call[u].s \in Slots /\ Kept(call[u].s) /\ call[u].s \notin held'
  <2>1. call[u].s # s
    <3>1. CASE s = call[t].s
      BY <1>10, <3>1 DEF SocketInv, OneCallEach
    <3>2. CASE s # call[t].s
      BY <1>1, <1>10, <3>2 DEF Moved, CallGood
    <3> QED
      BY <3>1, <3>2
  <2>2. call[u].s \in Slots /\ call[u].s \notin held
    BY <1>1, <1>10 DEF CallGood
  <2> QED
    BY <1>3, <2>1, <2>2 DEF Moved
<1>11. \A u \in Thread : u # t /\ call[u].s # 0 =>
               /\ Kept(call[u].s) /\ call[u].s \notin held'
               /\ t \in Thread => call'[t].s # call[u].s
  BY <1>2, <1>4, <1>10, IdleType
<1>12. \A u \in Thread : u # t /\ call[u].on # 0 => call[u].on \in held'
  BY <1>1, <1>3 DEF CallGood
<1>13. ASSUME NEW r \in Slots, sock'[r].st # "none" PROVE GoodNext(r) /\ OwnedNext(r)
  <2>1. CASE r = s
    <3>1. s # 0
      BY <2>1, ZeroIsNoSlot
    <3>2. GoodNext(r)
      BY <1>6, <2>1, <3>1 DEF GoodNext, Moved, last
    <3>3. OwnedNext(r)
      BY <1>2, <1>4, <1>6, <2>1 DEF OwnedNext
    <3> QED
      BY <3>2, <3>3
  <2>2. CASE r # s
    <3>1. Kept(r) /\ Open(r) /\ SocketGood(backend, kind, sock'[r], r \in held)
      BY <1>13, <2>2 DEF Moved, Kept, Open
    <3>2. (r \in held') = (r \in held)
      BY <1>3, <2>2
    <3>3. PosixBackend(backend) \/ started
      BY <3>1 DEF SocketInv, SocketsAreGood
    <3>4. SocketGood(backend, kind, sock'[r], r \in held')
      BY <3>1, <3>2
    <3>5. GoodNext(r)
      BY <3>3, <3>4 DEF GoodNext, Moved
    <3>6. \/ r \in held \/ \E u \in Thread : call[u].s = r
          \/ backend = "windows" /\ kind = "unix" /\ 2 \in Bytes(sock[r].peer)
      BY <3>1 DEF SocketInv, NoSocketLeaks
    <3>7. call[t].s # r
      BY <1>13, <2>2, ZeroIsNoSlot DEF Moved
    <3>8. OwnedNext(r)
      BY <1>3, <1>4, <3>1, <3>6, <3>7 DEF OwnedNext, Kept
    <3> QED
      BY <3>5, <3>8
  <2> QED
    BY <2>1, <2>2
<1>14. \A r \in held' : sock'[r].st # "none"
  <2> SUFFICES ASSUME NEW r \in held' PROVE sock'[r].st # "none"
    OBVIOUS
  <2>1. CASE r = s
    BY <1>6, <1>7, <2>1, SocketFields DEF Moved
  <2>2. CASE r # s
    <3>1. r \in held /\ r \in Slots /\ Open(r)
      BY <1>1, <1>3, <2>2 DEF SocketInv, SocketsAreGood
    <3> QED
      BY <2>2, <3>1 DEF Moved, Kept, Open
  <2> QED
    BY <2>1, <2>2
<1> QED
  BY <1>4, <1>8, <1>9, <1>11, <1>12, <1>13, <1>14, SocketStep

\* An error return closes the socket that the operation owns.
LEMMA FailStep ==
    ASSUME SocketInv, NEW t \in Thread, NEW cause, Fail(t, cause),
           call[t].s # 0 => \/ call[t].owned
                            \/ /\ backend = "windows" /\ kind = "unix"
                               /\ 2 \in Bytes(sock[call[t].s].peer)
    PROVE  SocketInv'
<1> DEFINE s == call[t].s
           closes == s # 0 /\ call[t].owned
<1>1. /\ call \in [Thread -> CallRecord] /\ held \subseteq Slots /\ started \in BOOLEAN
      /\ sock \in [Slots -> {NoSock} \union SocketRecord]
      /\ \A u \in Thread : CallGood(u) /\ (call[u].s # 0 => call[u].s \in Slots)
  BY DEF SocketInv, SocketTypes, CallsAreStaged, CallRecord
<1>2. /\ call' = [call EXCEPT ![t] = Idle] /\ UNCHANGED <<backend, kind, started, held, leaked>>
      /\ sock' = IF closes THEN [sock EXCEPT ![s] = NoSock] ELSE sock
  BY DEF Fail
<1>3. call'[t] = Idle /\ \A u \in Thread : u # t => call'[u] = call[u]
  BY <1>1, <1>2
<1>4. /\ \A r \in Slots : r # s \/ ~closes => sock'[r] = sock[r]
      /\ closes => sock'[s] = NoSock
  BY <1>1, <1>2
<1>5. s # 0 => s \in Slots /\ s \notin held
  BY <1>1 DEF CallGood
<1> HIDE DEF closes
<1>6. TypesNext
  <2>1. call' \in [Thread -> CallRecord]
    BY <1>1, <1>2, IdleType
  <2>2. sock' \in [Slots -> {NoSock} \union SocketRecord]
    BY <1>1, <1>2
  <2> QED
    BY <1>1, <1>2, <2>1, <2>2 DEF TypesNext
<1>7. CallGood(t)'
  <2>1. Stage(backend', kind', started', call'[t], sock'[call'[t].s])
    BY <1>3 DEF Stage
  <2> QED
    BY <1>3, <2>1, IdleType DEF CallGood
<1>8. ASSUME NEW u \in Thread, u # t, call[u].s # 0
      PROVE  /\ Kept(call[u].s) /\ call[u].s \notin held'
             /\ t \in Thread => call'[t].s # call[u].s
  <2>1. call[u].s # s /\ call[u].s \in Slots /\ call[u].s \notin held
    BY <1>1, <1>8 DEF SocketInv, OneCallEach, CallGood
  <2> HIDE DEF s
  <2>2. sock'[call[u].s] = sock[call[u].s]
    BY <1>4, <2>1
  <2> QED
    BY <1>2, <1>3, <1>8, <2>1, <2>2, IdleType DEF Kept
<1>9. \A u \in Thread : u # t /\ call[u].on # 0 => call[u].on \in held'
  BY <1>1, <1>2 DEF CallGood
<1>10. ASSUME NEW r \in Slots, sock'[r].st # "none" PROVE GoodNext(r) /\ OwnedNext(r)
  <2>1. sock'[r] = sock[r] /\ Open(r) /\ ~(r = s /\ closes)
    BY <1>4, <1>10 DEF Open, NoSock
  <2>2. SocketGood(backend, kind, sock[r], r \in held) /\ (PosixBackend(backend) \/ started)
    BY <2>1 DEF SocketInv, SocketsAreGood
  <2>3. GoodNext(r)
    BY <1>2, <2>1, <2>2 DEF GoodNext
  <2>4. \/ r \in held \/ \E u \in Thread : call[u].s = r
        \/ backend = "windows" /\ kind = "unix" /\ 2 \in Bytes(sock[r].peer)
    BY <2>1 DEF SocketInv, NoSocketLeaks
  <2>5. OwnedNext(r)
    <3>1. CASE r = s
      BY <2>1, <3>1, ZeroIsNoSlot DEF OwnedNext, closes
    <3> QED
      BY <1>2, <1>3, <2>1, <2>4, <3>1 DEF OwnedNext
  <2> QED
    BY <2>3, <2>5
<1>11. \A r \in held' : sock'[r].st # "none"
  BY <1>1, <1>2, <1>4, <1>5 DEF SocketInv, SocketsAreGood, Open, closes
<1> QED
  BY <1>2, <1>3, <1>6, <1>7, <1>8, <1>9, <1>10, <1>11, SocketStep

-----------------------------------------------------------------------------
(* The calls of the scripts                                                *)

\* The next call tells where an operation is.
LEMMA HeadsDiffer ==
    ASSUME NEW b, NEW k, NEW q, NEW w, Begins(q, w)
    PROVE  /\ ListenLeft(q) => w = "listen"
           /\ ChmodLeft(q) => w = "chmod"
           /\ BindLeft(q) => w = "bind"
           /\ ConnectLeft(q) => w = "connect"
           /\ ReuseLeft(q) => w = "reuseaddr"
           /\ PackLeft(q) => w = "pack"
           /\ UseLeft(k, q) => w \in {"pack", "connect", "reuseaddr", "bind"}
           /\ CloexecLeft(b, k, q) => w = "cloexec"
           /\ SocketLeft(b, k, q) => w \in {"socket", "socket_cloexec"}
           /\ StartupLeft(b, k, q) => w = "startup"
           /\ UnpackLeft(q) => w = "unpack"
           /\ MarkLeft(b, q) => w = "cloexec"
           /\ OwnLeft(b, q) => w = "own"
           /\ UnpackFirst(b, q) => w = "unpack"
           /\ AcceptLeft(b, k, q) => w \in {"accept", "accept_cloexec"}
<1> USE DEF Begins
<1>1. /\ ListenLeft(q) => w = "listen"
      /\ ChmodLeft(q) => w = "chmod"
      /\ BindLeft(q) => w = "bind"
      /\ ConnectLeft(q) => w = "connect"
      /\ ReuseLeft(q) => w = "reuseaddr"
      /\ PackLeft(q) => w = "pack"
      /\ UnpackLeft(q) => w = "unpack"
  BY DEF ListenLeft, ChmodLeft, BindLeft, ConnectLeft, ReuseLeft, PackLeft, UnpackLeft
<1>2. UseLeft(k, q) => w \in {"pack", "connect", "reuseaddr", "bind"}
  BY <1>1 DEF UseLeft
<1>3. /\ CloexecLeft(b, k, q) => w = "cloexec"
      /\ SocketLeft(b, k, q) => w \in {"socket", "socket_cloexec"}
      /\ StartupLeft(b, k, q) => w = "startup"
  BY DEF CloexecLeft, SocketLeft, StartupLeft
<1>4. /\ MarkLeft(b, q) => w = "cloexec"
      /\ OwnLeft(b, q) => w = "own"
      /\ UnpackFirst(b, q) => w = "unpack"
      /\ AcceptLeft(b, k, q) => w \in {"accept", "accept_cloexec"}
  BY DEF MarkLeft, OwnLeft, UnpackFirst, AcceptLeft
<1> QED
  BY <1>1, <1>2, <1>3, <1>4

\* A socket that is being made, before it is used.
Fresh(b, k, c, x) ==
    /\ c.s # 0 /\ c.on = 0 /\ c.op \in CreateOps /\ c.owned /\ c.asked = x.asked /\ x.st = "new"
    /\ b = "bsd" => ~x.inherit

LEMMA WhereItIs ==
    ASSUME NEW b, NEW k \in {"tcp", "unix", "udp"}, NEW up, NEW c, NEW x, NEW w,
           Stage(b, k, up, c, x), Begins(c.todo, w), x.inherit \in BOOLEAN
    PROVE  /\ w = "cloexec" => \/ Creating(b, k, c, x) /\ CloexecLeft(b, k, c.todo) /\ x.st = "new"
                               \/ Accepted(b, k, c, x) /\ MarkLeft(b, c.todo) /\ c.owned
           /\ w = "reuseaddr" => Fresh(b, k, c, x) /\ k = "tcp" /\ ReuseLeft(c.todo)
           /\ w = "pack" => Fresh(b, k, c, x) /\ k = "unix" /\ PackLeft(c.todo)
           /\ w = "bind" => /\ Fresh(b, k, c, x) /\ BindLeft(c.todo)
                            /\ k = "unix" => ~RefusedOn(b, x.asked)
                            /\ k = "udp" => Tail(c.todo) = <<>>
           /\ w = "connect" => /\ Fresh(b, k, c, x) /\ ConnectLeft(c.todo) /\ k # "udp"
                               /\ k = "unix" => ~RefusedOn(b, x.asked)
           /\ w = "chmod" => Creating(b, k, c, x) /\ ChmodLeft(c.todo) /\ x.st = "bound"
                             /\ (b = "bsd" => ~x.inherit)
           /\ w = "listen" => Creating(b, k, c, x) /\ ListenLeft(c.todo) /\ x.st = "bound"
                              /\ (b = "bsd" => ~x.inherit)
           /\ w = "own" => Accepted(b, k, c, x) /\ OwnLeft(b, c.todo)
           /\ w = "unpack" => /\ Accepted(b, k, c, x)
                              /\ \/ UnpackFirst(b, c.todo)
                                 \/ c.owned /\ PosixBackend(b) /\ UnpackLeft(c.todo) /\ (b = "bsd" => ~x.inherit)
<1>1. c # Idle /\ ~InRead(c)
  BY DEF Begins, Idle, InRead
<1>2. CASE Acquiring(b, k, up, c)
  BY <1>2, HeadsDiffer DEF Acquiring
<1>3. CASE Creating(b, k, c, x)
  <2>1. CASE CloexecLeft(b, k, c.todo) /\ x.st = "new"
    BY <1>3, <2>1, HeadsDiffer
  <2>2. CASE ~CloexecLeft(b, k, c.todo)
    <3>1. /\ c.s # 0 /\ c.on = 0 /\ c.op \in CreateOps /\ c.owned /\ c.asked = x.asked
          /\ b = "bsd" => ~x.inherit
      BY <1>3, <2>2 DEF Creating
    <3>2. CASE x.st = "new" /\ UseLeft(k, c.todo)
      <4>1. Fresh(b, k, c, x)
        BY <3>1, <3>2 DEF Fresh
      <4>2. CASE k = "unix" /\ PackLeft(c.todo)
        BY <4>1, <4>2, HeadsDiffer
      <4>3. CASE k = "tcp" /\ (ConnectLeft(c.todo) \/ ReuseLeft(c.todo))
        BY <4>1, <4>3, HeadsDiffer
      <4>4. CASE k = "udp" /\ Begins(c.todo, "bind") /\ Tail(c.todo) = <<>>
        <5>1. w = "bind" /\ BindLeft(c.todo)
          BY <4>4 DEF Begins, BindLeft
        <5> QED
          BY <4>1, <4>4, <5>1
      <4> QED
        BY <3>2, <4>2, <4>3, <4>4 DEF UseLeft
    <3>3. CASE /\ x.st = "new" /\ k # "udp" /\ (k = "unix" => ~RefusedOn(b, x.asked))
               /\ (ConnectLeft(c.todo) \/ BindLeft(c.todo))
      <4>1. Fresh(b, k, c, x)
        BY <3>1, <3>3 DEF Fresh
      <4> QED
        BY <3>3, <4>1, HeadsDiffer
    <3>4. CASE x.st = "bound" /\ (ListenLeft(c.todo) \/ ChmodLeft(c.todo))
      BY <1>3, <3>1, <3>4, HeadsDiffer
    <3> QED
      BY <1>3, <2>2, <3>2, <3>3, <3>4 DEF Creating
  <2>3. CloexecLeft(b, k, c.todo) => x.st = "new"
    BY <1>3, HeadsDiffer DEF Creating
  <2> QED
    BY <2>1, <2>2, <2>3
<1>4. CASE Accepting(b, k, c)
  BY <1>4, HeadsDiffer DEF Accepting
<1>5. CASE Accepted(b, k, c, x)
  <2>1. CASE OwnLeft(b, c.todo) \/ UnpackFirst(b, c.todo)
    BY <1>5, <2>1, HeadsDiffer
  <2>2. CASE c.owned /\ MarkLeft(b, c.todo)
    BY <1>5, <2>2, HeadsDiffer
  <2>3. CASE c.owned /\ PosixBackend(b) /\ UnpackLeft(c.todo)
    <3>1. w = "unpack" /\ ~OwnLeft(b, c.todo) /\ ~MarkLeft(b, c.todo)
      BY <2>3, HeadsDiffer
    <3>2. b = "bsd" => ~x.inherit
      BY <1>5, <3>1 DEF Accepted
    <3> QED
      BY <1>5, <2>3, <3>1, <3>2
  <2> QED
    BY <1>5, <2>1, <2>2, <2>3 DEF Accepted
<1> QED
  BY <1>1, <1>2, <1>3, <1>4, <1>5 DEF Stage

\* The first calls of an operation: nothing is open yet.
LEMMA WhereItStarts ==
    ASSUME NEW b, NEW k \in {"tcp", "unix", "udp"}, NEW up, NEW c, NEW x, NEW w,
           Stage(b, k, up, c, x), Begins(c.todo, w)
    PROVE  /\ w = "startup" => Acquiring(b, k, up, c) /\ StartupLeft(b, k, c.todo)
           /\ w \in {"socket", "socket_cloexec"} =>
                 Acquiring(b, k, up, c) /\ SocketLeft(b, k, c.todo) /\ (PosixBackend(b) \/ up)
           /\ w \in {"accept", "accept_cloexec"} => Accepting(b, k, c)
           /\ w \notin {"startup", "socket", "socket_cloexec", "accept", "accept_cloexec"} => c.s # 0
<1>1. c # Idle /\ ~InRead(c)
  BY DEF Begins, Idle, InRead
<1>2. CASE Acquiring(b, k, up, c)
  BY <1>2, HeadsDiffer DEF Acquiring
<1>3. CASE Creating(b, k, c, x)
  <2>1. c.s # 0
    BY <1>3 DEF Creating
  <2>2. \/ CloexecLeft(b, k, c.todo) \/ UseLeft(k, c.todo) \/ ConnectLeft(c.todo)
        \/ BindLeft(c.todo) \/ ListenLeft(c.todo) \/ ChmodLeft(c.todo)
    BY <1>3 DEF Creating
  <2>3. w \in {"cloexec", "pack", "connect", "reuseaddr", "bind", "listen", "chmod"}
    BY <2>2, HeadsDiffer
  <2> QED
    BY <2>1, <2>3
<1>4. CASE Accepting(b, k, c)
  BY <1>4, HeadsDiffer DEF Accepting
<1>5. CASE Accepted(b, k, c, x)
  <2>1. c.s # 0
    BY <1>5 DEF Accepted
  <2>2. \/ OwnLeft(b, c.todo) \/ UnpackFirst(b, c.todo) \/ MarkLeft(b, c.todo) \/ UnpackLeft(c.todo)
    BY <1>5 DEF Accepted
  <2>3. w \in {"cloexec", "own", "unpack"}
    BY <2>2, HeadsDiffer
  <2> QED
    BY <2>1, <2>3
<1> QED
  BY <1>1, <1>2, <1>3, <1>4, <1>5 DEF Stage

LEMMA SocketFacts ==
    ASSUME SocketInv
    PROVE  /\ backend \in {"linux", "bsd", "windows", "trackw"} /\ kind \in {"tcp", "unix", "udp"}
           /\ started \in BOOLEAN /\ held \subseteq Slots
           /\ call \in [Thread -> CallRecord] /\ sock \in [Slots -> {NoSock} \union SocketRecord]
           /\ \A s \in held : s \in Slots /\ Open(s)
           /\ \A s \in Slots : Open(s) =>
                 /\ sock[s] \in SocketRecord /\ SocketGood(backend, kind, sock[s], s \in held)
                 /\ PosixBackend(backend) \/ started
           /\ \A t \in Thread : CallGood(t)
  BY SocketConstants, OpenSockets DEF SocketInv, SocketTypes, SocketParameters, SocketsAreGood, CallsAreStaged

\* A thread at one of the named calls.
LEMMA CallFacts ==
    ASSUME SocketInv, NEW t \in Thread, NEW names, AtCall(t, names)
    PROVE  /\ call[t] \in CallRecord /\ call[t].todo # <<>> /\ Head(call[t].todo) \in names
           /\ Begins(call[t].todo, Head(call[t].todo))
           /\ Stage(backend, kind, started, call[t], sock[call[t].s])
           /\ call[t].on # 0 => call[t].on \in held
           /\ call[t].s # 0 =>
                 /\ call[t].s \in Slots /\ call[t].s \notin held /\ sock[call[t].s] \in SocketRecord
                 /\ SocketGood(backend, kind, sock[call[t].s], FALSE)
                 /\ PosixBackend(backend) \/ started
<1>1. /\ call[t] \in CallRecord /\ CallGood(t)
  BY SocketFacts
<1>2. call[t].s # 0 => call[t].s \in Slots
  BY <1>1 DEF CallRecord
<1>3. /\ call[t].todo # <<>> /\ Head(call[t].todo) \in names
      /\ Begins(call[t].todo, Head(call[t].todo))
  BY DEF AtCall, Begins
<1>4. ASSUME call[t].s # 0
      PROVE  /\ call[t].s \notin held /\ sock[call[t].s] \in SocketRecord
             /\ SocketGood(backend, kind, sock[call[t].s], FALSE)
             /\ PosixBackend(backend) \/ started
  <2>1. Open(call[t].s) /\ call[t].s \notin held /\ (call[t].s \in held) = FALSE
    BY <1>1, <1>4 DEF CallGood
  <2> QED
    BY <1>2, <1>4, <2>1, SocketFacts
<1> QED
  BY <1>1, <1>2, <1>3, <1>4 DEF CallGood

\* A socket that a step does not touch.
LEMMA Untouched ==
    ASSUME SocketInv, NEW r \in Slots, sock'[r] = sock[r]
    PROVE  Kept(r) /\ (Open(r) => SocketGood(backend, kind, sock'[r], r \in held))
  BY SocketFacts DEF Kept

\* What a call may change of a socket without spoiling it.
LEMMA GoodAgain ==
    ASSUME NEW b, NEW k, NEW x, NEW y, NEW h, NEW g, SocketGood(b, k, x, h),
           y.asked = x.asked, y.name = x.name, y.st = x.st, y.queue = x.queue, y.peer = x.peer,
           y.timeo = x.timeo, y.want = x.want,
           y.inherit => x.inherit /\ (b = "bsd" => ~g),
           k = "udp" /\ g => x.st = "bound"
    PROVE  SocketGood(b, k, y, g)
<1>1. /\ AskedOf(k, y.asked) /\ y.timeo = TimeoutOn(b, y.want)
      /\ y.inherit => b # "linux" /\ (b = "bsd" => ~g)
      /\ k = "udp" /\ g => y.st = "bound"
  BY DEF SocketGood
<1>2. y.st \in {"bound", "listening"} =>
          y.name = NameOn(b, k, y.asked) /\ (k = "unix" => ~RefusedOn(b, y.asked))
  BY DEF SocketGood
<1>3. /\ k = "udp" => \A i \in 1..Len(y.queue) :
            y.queue[i].from \in Inet /\ y.queue[i].name = NameOn(b, k, y.queue[i].from)
      /\ k = "unix" => Fits(y.peer) /\ \A i \in 1..Len(y.queue) : Fits(y.queue[i].name)
  BY DEF SocketGood
<1> QED
  BY <1>1, <1>2, <1>3 DEF SocketGood

LEMMA EmptyFits == Fits(<<>>)
<1>1. SunPath \in Nat
  BY SocketConstants DEF SocketParameters
<1> DEFINE e == <<>>
<1>2. e \in Seq(Nat) /\ Len(e) = 0
  OBVIOUS
<1> HIDE DEF e
<1>3. 0 \notin Bytes(e)
  <2>1. 0 \in Bytes(e) <=> \E i \in 1..Len(e) : e[i] = 0
    BY <1>2, BytesAre
  <2>2. \A i \in 1..0 : FALSE
    OBVIOUS
  <2> QED
    BY <1>2, <2>1, <2>2
<1>4. Fits(e)
  BY <1>1, <1>2, <1>3 DEF Fits
<1> QED
  BY <1>4 DEF e

LEMMA AskedIsAsked ==
    ASSUME NEW k, NEW a, AskedOf(k, a)
    PROVE  a \in Asked /\ (k = "unix" => a \in Seq(Nat)) /\ (k # "unix" => a \in Inet)
  BY SocketConstants DEF AskedOf, Asked, SocketParameters

LEMMA NamesAreNames ==
    ASSUME NEW b, NEW k, NEW a, AskedOf(k, a)
    PROVE  NameOn(b, k, a) \in SockName
<1>1. CASE k = "unix"
  BY <1>1, AskedIsAsked, CStringFacts DEF NameOn, SockName
<1>2. CASE k # "unix"
  <2>1. a.family \in {4, 6} /\ a.port \in 0..3
    BY <1>2, AskedIsAsked, SocketConstants DEF SocketParameters
  <2>2. to_be(a.port) \in 0..3
    <3>1. CASE a.port = 0
      BY <3>1 DEF to_be
    <3>2. CASE a.port = 1
      BY <3>2 DEF to_be
    <3>3. CASE a.port = 2
      BY <3>3 DEF to_be
    <3>4. CASE a.port = 3
      BY <3>4 DEF to_be
    <3> QED
      BY <2>1, <3>1, <3>2, <3>3, <3>4
  <2> HIDE DEF NameOn
  <2>3. NameOn(b, k, a) \in Sockaddr
    BY <1>2, <2>1, <2>2 DEF NameOn, Sockaddr
  <2> QED
    BY <2>3 DEF SockName
<1> QED
  BY <1>1, <1>2

\* A socket the kernel has just made.
HasFields(x, st, a, i) == x \in SocketRecord /\ x.st = st /\ x.asked = a /\ x.inherit = i

LEMMA NewSockFields ==
    ASSUME NEW st \in {"new", "connected"}, NEW a \in Asked, NEW i \in BOOLEAN
    PROVE  HasFields(NewSock(st, a, i), st, a, i)
<1>1. /\ <<>> \in SockName /\ <<>> \in Seq(Waiting) /\ -1 \in Nat \union {-1}
  BY DEF SockName
<1> QED
  BY <1>1 DEF NewSock, SocketRecord, HasFields

LEMMA NewSockGood ==
    ASSUME NEW b, NEW k, NEW st \in {"new", "connected"}, NEW a, AskedOf(k, a), NEW i \in BOOLEAN,
           i => b # "linux"
    PROVE  SocketGood(b, k, NewSock(st, a, i), FALSE)
<1> DEFINE x == NewSock(st, a, i)
<1>1. /\ x.st = st /\ x.asked = a /\ x.inherit = i /\ x.peer = <<>> /\ x.queue = <<>>
      /\ x.want = -1 /\ x.timeo = 0
  BY DEF NewSock
<1> HIDE DEF x
<1>2. TimeoutOn(b, -1) = 0
  BY DEF TimeoutOn, linux_set_read_timeout, windows_set_read_timeout
<1>3. Len(x.queue) = 0
  BY <1>1
<1>4. \A j \in 1..Len(x.queue) : FALSE
  BY <1>3
<1>5. SocketGood(b, k, x, FALSE)
  BY <1>1, <1>2, <1>4, EmptyFits DEF SocketGood
<1> QED
  BY <1>5 DEF x

-----------------------------------------------------------------------------
LEMMA StartupKeeps ==
    ASSUME SocketInv, NEW t \in Thread, Startup(t)
    PROVE  SocketInv'
<1> DEFINE c == call[t]
           n == NextCall(c, 0, FALSE)
<1>1. /\ AtCall(t, {"startup"}) /\ Advance(t, 0, FALSE) /\ started' = TRUE
      /\ UNCHANGED <<backend, kind, sock, leaked>>
  BY DEF Startup
<1>2. /\ Acquiring(backend, kind, started, c) /\ StartupLeft(backend, kind, c.todo)
      /\ c \in CallRecord /\ c.todo # <<>>
  <2>1. /\ Begins(c.todo, "startup") /\ Stage(backend, kind, started, c, sock[c.s])
        /\ c \in CallRecord /\ c.todo # <<>> /\ kind \in {"tcp", "unix", "udp"}
    <3>1. /\ Begins(c.todo, Head(c.todo)) /\ Stage(backend, kind, started, c, sock[c.s])
          /\ c \in CallRecord /\ c.todo # <<>> /\ Head(c.todo) \in {"startup"}
      BY <1>1, CallFacts
    <3> QED
      BY <3>1, SocketFacts
  <2> QED
    BY <2>1, WhereItStarts
<1>3. Tail(c.todo) # <<>> /\ SocketLeft(backend, kind, Tail(c.todo))
  BY <1>2 DEF StartupLeft, SocketLeft, Begins
<1>4. /\ n.todo = Tail(c.todo) /\ n.s = 0 /\ n.op = c.op /\ n.on = c.on /\ n.asked = c.asked
  BY <1>2, NextCallFields
<1> HIDE DEF n
<1>5. Acquiring(backend, kind, started', n)
  BY <1>1, <1>2, <1>3, <1>4 DEF Acquiring
<1>6. Moved(t, 0)
  BY <1>1, <1>2, <1>3, SocketFacts, Untouched DEF Moved, Acquiring
<1> QED
  BY <1>1, <1>2, <1>5, <1>6, AdvanceStep DEF Stage, n

LEMMA SocketKeeps ==
    ASSUME SocketInv, NEW t \in Thread, Socket(t)
    PROVE  SocketInv'
<1> DEFINE c == call[t]
           w == Head(c.todo)
<1>1. AtCall(t, {"socket", "socket_cloexec"})
  BY DEF Socket
<1>2. /\ Acquiring(backend, kind, started, c) /\ SocketLeft(backend, kind, c.todo)
      /\ PosixBackend(backend) \/ started
      /\ c \in CallRecord /\ c.todo # <<>> /\ Begins(c.todo, w)
  BY <1>1, CallFacts, SocketFacts, WhereItStarts
<1>3. c.s = 0
  BY <1>2 DEF Acquiring
<1>4. CASE Fail(t, "nofd")
  BY <1>3, <1>4, FailStep
<1>5. ASSUME NEW s \in Slots, ~Open(s),
             sock' = [sock EXCEPT ![s] = NewSock("new", c.asked, w = "socket")],
             Advance(t, s, TRUE), UNCHANGED <<backend, kind, started, leaked>>
      PROVE  SocketInv'
  <2> DEFINE x == NewSock("new", c.asked, w = "socket")
             n == NextCall(c, s, TRUE)
  <2>1. /\ Tail(c.todo) # <<>>
        /\ w = "socket" => backend # "linux"
        /\ backend = "bsd" => CloexecLeft(backend, kind, Tail(c.todo))
        /\ backend # "bsd" => UseLeft(kind, Tail(c.todo))
    <3>1. /\ w = "socket" => backend # "linux"
          /\ backend = "bsd" => CloexecLeft(backend, kind, Tail(c.todo))
          /\ backend # "bsd" => UseLeft(kind, Tail(c.todo))
      BY <1>2 DEF SocketLeft, Begins
    <3>2. \A q : CloexecLeft(backend, kind, q) \/ UseLeft(kind, q) => q # <<>>
      BY DEF CloexecLeft, UseLeft, Begins, PackLeft, ConnectLeft, ReuseLeft
    <3> QED
      BY <3>1, <3>2
  <2>2. AskedOf(kind, c.asked)
    BY <1>2 DEF Acquiring
  <2>3. /\ x \in SocketRecord /\ SocketGood(backend, kind, x, FALSE)
        /\ x.st = "new" /\ x.asked = c.asked /\ x.inherit = (w = "socket")
    <3> DEFINE i == w = "socket"
               a == c.asked
               st == "new"
    <3>1. /\ i \in BOOLEAN /\ (i => backend # "linux") /\ AskedOf(kind, a) /\ st \in {"new", "connected"}
          /\ a \in Asked
      BY <2>1, <2>2, AskedIsAsked
    <3>2. x = NewSock(st, a, i)
      OBVIOUS
    <3> HIDE DEF i, x, a, st
    <3>3. SocketGood(backend, kind, NewSock(st, a, i), FALSE)
      BY <3>1, NewSockGood, Zenon
    <3>4. HasFields(NewSock(st, a, i), st, a, i)
      BY <3>1, NewSockFields, Zenon
    <3> QED
      BY <3>2, <3>3, <3>4 DEF HasFields, i, a, st
  <2> HIDE DEF x
  <2>4. /\ sock' = [sock EXCEPT ![s] = x]
    BY <1>5 DEF x
  <2>5. sock'[s] = x /\ (\A r \in Slots : r # s => sock'[r] = sock[r])
        /\ sock' \in [Slots -> {NoSock} \union SocketRecord]
    BY <2>3, <2>4, SocketFacts
  <2>6. s # 0 /\ s \in Slots \union {0}
    BY ZeroIsNoSlot
  <2>7. /\ n.todo = Tail(c.todo) /\ n.s = s /\ n.op = c.op /\ n.on = c.on /\ n.asked = c.asked
        /\ n.owned
    BY <1>2, <2>6, NextCallFields
  <2> HIDE DEF n
  <2>8. Creating(backend, kind, n, x)
    BY <1>2, <2>1, <2>3, <2>6, <2>7 DEF Creating, Acquiring
  <2>9. (Tail(c.todo) = <<>>) = FALSE
    BY <2>1
  <2>10. SocketGood(backend, kind, sock'[s], Tail(c.todo) = <<>>)
    BY <2>3, <2>5, <2>9
  <2>11. Moved(t, s)
    BY <1>2, <1>3, <1>5, <2>3, <2>5, <2>6, <2>10, SocketFacts, Untouched DEF Moved
  <2>12. Stage(backend, kind, started', n, sock'[s])
    BY <2>5, <2>8 DEF Stage
  <2> QED
    BY <1>2, <1>5, <2>6, <2>11, <2>12, AdvanceStep DEF n
<1> QED
  BY <1>4, <1>5 DEF Socket

\* A call on the socket the operation has, which leaves y of it.
LEMMA MovedOn ==
    ASSUME SocketInv, NEW t \in Thread, NEW names, AtCall(t, names), call[t].s # 0,
           NEW y \in SocketRecord, sock' = [sock EXCEPT ![call[t].s] = y],
           SocketGood(backend, kind, y, Tail(call[t].todo) = <<>>), UNCHANGED started
    PROVE  Moved(t, call[t].s) /\ sock'[call[t].s] = y
<1> DEFINE s == call[t].s
<1>1. s \in Slots /\ s # 0 /\ (PosixBackend(backend) \/ started)
  BY CallFacts
<1>2. /\ sock'[s] = y /\ \A r \in Slots : r # s => sock'[r] = sock[r]
      /\ sock' \in [Slots -> {NoSock} \union SocketRecord]
  BY <1>1, SocketFacts
<1>3. SocketGood(backend, kind, sock'[s], Tail(call[t].todo) = <<>>)
  BY <1>2
<1>4. \A r \in Slots : r # s => Kept(r) /\ (Open(r) => SocketGood(backend, kind, sock'[r], r \in held))
  BY <1>2, Untouched
<1>5. started' \in BOOLEAN /\ (started => started')
  BY SocketFacts
<1> HIDE DEF s
<1>6. /\ s = 0 => Tail(call[t].todo) # <<>> /\ call[t].s = 0
      /\ s # 0 =>
            /\ s \in Slots /\ (s = call[t].s \/ (call[t].s = 0 /\ ~Open(s)))
            /\ sock'[s] \in SocketRecord
            /\ PosixBackend(backend) \/ started'
  BY <1>1, <1>2 DEF s
<1> QED
  BY <1>2, <1>3, <1>4, <1>5, <1>6 DEF Moved, s

\* The fields that setting options leaves alone.
Options(x, i, u) == [x EXCEPT !.inherit = @ /\ i, !.reuse = @ \/ u]

LEMMA OptionFields ==
    ASSUME NEW x \in SocketRecord, NEW i \in BOOLEAN, NEW u \in BOOLEAN
    PROVE  LET y == Options(x, i, u)
           IN /\ y \in SocketRecord /\ y.asked = x.asked /\ y.name = x.name /\ y.st = x.st
              /\ y.queue = x.queue /\ y.peer = x.peer /\ y.timeo = x.timeo /\ y.want = x.want
              /\ y.inherit = (x.inherit /\ i)
<1>1. x.inherit \in BOOLEAN /\ x.reuse \in BOOLEAN
  BY DEF SocketRecord
<1> QED
  BY <1>1 DEF Options, SocketRecord

LEMMA SetKeeps ==
    ASSUME SocketInv, NEW t \in Thread, Set(t)
    PROVE  SocketInv'
<1> DEFINE c == call[t]
           s == c.s
           w == Head(c.todo)
           x == sock[s]
<1>1. AtCall(t, {"cloexec", "reuseaddr", "chmod"})
  BY DEF Set
<1>2. /\ c \in CallRecord /\ c.todo # <<>> /\ w \in {"cloexec", "reuseaddr", "chmod"}
      /\ Begins(c.todo, w) /\ Stage(backend, kind, started, c, x)
  BY <1>1, CallFacts
<1>3. kind \in {"tcp", "unix", "udp"}
  BY SocketFacts
<1>4. s # 0
  BY <1>2, <1>3, WhereItStarts
<1>5. x \in SocketRecord /\ x.inherit \in BOOLEAN /\ s \in Slots /\ SocketGood(backend, kind, x, FALSE)
  BY <1>1, <1>4, CallFacts, SocketFields
<1> HIDE DEF c, x, s
<1>6. \/ w = "cloexec" /\ Creating(backend, kind, c, x) /\ CloexecLeft(backend, kind, c.todo) /\ x.st = "new"
      \/ w = "cloexec" /\ Accepted(backend, kind, c, x) /\ MarkLeft(backend, c.todo) /\ c.owned
      \/ w = "reuseaddr" /\ Fresh(backend, kind, c, x) /\ kind = "tcp" /\ ReuseLeft(c.todo)
      \/ w = "chmod" /\ Creating(backend, kind, c, x) /\ ChmodLeft(c.todo) /\ x.st = "bound"
         /\ (backend = "bsd" => ~x.inherit)
  <2>1. CASE w = "cloexec"
    <3>1. Begins(c.todo, "cloexec")
      BY <1>2, <2>1
    <3>2. \/ Creating(backend, kind, c, x) /\ CloexecLeft(backend, kind, c.todo) /\ x.st = "new"
          \/ Accepted(backend, kind, c, x) /\ MarkLeft(backend, c.todo) /\ c.owned
      BY <1>2, <1>3, <1>5, <3>1, WhereItIs
    <3> QED
      BY <2>1, <3>2
  <2>2. CASE w = "reuseaddr"
    <3>1. Begins(c.todo, "reuseaddr")
      BY <1>2, <2>2
    <3>2. Fresh(backend, kind, c, x) /\ kind = "tcp" /\ ReuseLeft(c.todo)
      BY <1>2, <1>3, <1>5, <3>1, WhereItIs
    <3> QED
      BY <2>2, <3>2
  <2>3. CASE w = "chmod"
    <3>1. Begins(c.todo, "chmod")
      BY <1>2, <2>3
    <3>2. Creating(backend, kind, c, x) /\ ChmodLeft(c.todo) /\ x.st = "bound"
          /\ (backend = "bsd" => ~x.inherit)
      BY <1>2, <1>3, <1>5, <3>1, WhereItIs
    <3> QED
      BY <2>3, <3>2
  <2> QED
    BY <1>2, <2>1, <2>2, <2>3
<1>7. c.owned = TRUE
  BY <1>2, <1>6 DEF Creating, Fresh, CallRecord
<1>8. CASE Fail(t, "denied")
  BY <1>7, <1>8, FailStep DEF c
<1>9. CASE /\ sock' = [sock EXCEPT ![s].inherit = @ /\ w # "cloexec", ![s].reuse = @ \/ w = "reuseaddr"]
           /\ Advance(t, s, c.owned)
           /\ UNCHANGED <<backend, kind, started, leaked>>
  <2> DEFINE y == Options(x, w # "cloexec", w = "reuseaddr")
             n == NextCall(c, s, TRUE)
             last == Tail(c.todo) = <<>>
  <2>1. /\ y \in SocketRecord /\ y.asked = x.asked /\ y.name = x.name /\ y.st = x.st
        /\ y.queue = x.queue /\ y.peer = x.peer /\ y.timeo = x.timeo /\ y.want = x.want
        /\ y.inherit = (x.inherit /\ w # "cloexec")
    BY <1>5, OptionFields
  <2>2. sock' = [sock EXCEPT ![s] = y]
    BY <1>5, <1>9, SocketFacts DEF Options, x
  <2> HIDE DEF y
  <2>3. /\ n.todo = Tail(c.todo) /\ n.s = s /\ n.op = c.op /\ n.on = c.on /\ n.asked = c.asked
        /\ n.owned
    BY <1>2, <1>5, NextCallFields
  <2> HIDE DEF n
  <2>4. /\ y.inherit => x.inherit /\ (backend = "bsd" => ~last)
        /\ kind = "udp" /\ last => x.st = "bound"
    <3>1. (w = "reuseaddr" \/ w = "chmod") /\ backend = "bsd" => ~x.inherit
      BY <1>6 DEF Fresh
    <3>2. w = "cloexec" => ~y.inherit
      BY <2>1
    <3>3. kind = "udp" /\ last => x.st = "bound"
      <4>1. CloexecLeft(backend, kind, c.todo) => Tail(c.todo) # <<>>
        BY DEF CloexecLeft, UseLeft, Begins, PackLeft, ConnectLeft, ReuseLeft
      <4> QED
        BY <1>6, <4>1 DEF Accepted
    <3> QED
      BY <1>2, <2>1, <3>1, <3>2, <3>3
  <2>5. SocketGood(backend, kind, y, last)
    BY <1>5, <2>1, <2>4, GoodAgain
  <2>6. Moved(t, s) /\ sock'[s] = y
    BY <1>1, <1>4, <1>9, <2>1, <2>2, <2>5, MovedOn DEF c, s
  <2>7. ASSUME ~last PROVE Stage(backend, kind, started', n, sock'[s])
    <3>1. CASE w = "cloexec" /\ Creating(backend, kind, c, x) /\ CloexecLeft(backend, kind, c.todo) /\ x.st = "new"
      <4>1. UseLeft(kind, n.todo) /\ ~y.inherit
        BY <2>1, <2>3, <3>1 DEF CloexecLeft
      <4>2. Creating(backend, kind, n, y)
        BY <1>4, <2>1, <2>3, <3>1, <4>1 DEF Creating
      <4> QED
        BY <2>6, <4>2 DEF Stage
    <3>2. CASE w = "cloexec" /\ Accepted(backend, kind, c, x) /\ MarkLeft(backend, c.todo) /\ c.owned
      <4>1. UnpackLeft(n.todo) /\ PosixBackend(backend) /\ ~y.inherit
        BY <2>1, <2>3, <2>7, <3>2 DEF MarkLeft, PosixBackend
      <4>2. Accepted(backend, kind, n, y)
        BY <1>4, <2>1, <2>3, <3>2, <4>1 DEF Accepted
      <4> QED
        BY <2>6, <4>2 DEF Stage
    <3>3. CASE w = "reuseaddr" /\ Fresh(backend, kind, c, x) /\ kind = "tcp" /\ ReuseLeft(c.todo)
      <4>1. BindLeft(n.todo) /\ (backend = "bsd" => ~y.inherit)
        BY <2>1, <2>3, <3>3 DEF ReuseLeft, Fresh
      <4>2. Creating(backend, kind, n, y)
        BY <1>4, <2>1, <2>3, <3>3, <4>1 DEF Creating, Fresh
      <4> QED
        BY <2>6, <4>2 DEF Stage
    <3>4. CASE w = "chmod" /\ Creating(backend, kind, c, x) /\ ChmodLeft(c.todo) /\ x.st = "bound"
               /\ (backend = "bsd" => ~x.inherit)
      <4>1. ListenLeft(n.todo) /\ (backend = "bsd" => ~y.inherit)
        BY <2>1, <2>3, <3>4 DEF ChmodLeft
      <4>2. Creating(backend, kind, n, y)
        BY <1>4, <2>1, <2>3, <3>4, <4>1 DEF Creating
      <4> QED
        BY <2>6, <4>2 DEF Stage
    <3> QED
      BY <1>6, <3>1, <3>2, <3>3, <3>4
  <2>8. Advance(t, s, TRUE)
    BY <1>7, <1>9
  <2> QED
    BY <1>2, <1>5, <1>9, <2>6, <2>7, <2>8, AdvanceStep DEF n, c, s
<1> QED
  BY <1>8, <1>9 DEF Set, c, s

\* A thread at a call on the socket it has.
LEMMA AtSocket ==
    ASSUME SocketInv, NEW t \in Thread, NEW w, AtCall(t, {w}),
           w \notin {"startup", "socket", "socket_cloexec", "accept", "accept_cloexec"}
    PROVE  /\ call[t] \in CallRecord /\ call[t].todo # <<>> /\ Begins(call[t].todo, w)
           /\ Stage(backend, kind, started, call[t], sock[call[t].s])
           /\ kind \in {"tcp", "unix", "udp"} /\ call[t].s # 0 /\ call[t].s \in Slots
           /\ sock[call[t].s] \in SocketRecord /\ sock[call[t].s].inherit \in BOOLEAN
           /\ SocketGood(backend, kind, sock[call[t].s], FALSE)
<1>1. /\ Begins(call[t].todo, Head(call[t].todo)) /\ Head(call[t].todo) \in {w}
      /\ call[t] \in CallRecord /\ call[t].todo # <<>>
      /\ Stage(backend, kind, started, call[t], sock[call[t].s])
  BY CallFacts
<1>2. Begins(call[t].todo, w) /\ kind \in {"tcp", "unix", "udp"}
  BY <1>1, SocketFacts
<1>3. call[t].s # 0
  BY <1>1, <1>2, WhereItStarts
<1>4. /\ call[t].s \in Slots /\ sock[call[t].s] \in SocketRecord
      /\ SocketGood(backend, kind, sock[call[t].s], FALSE)
  BY <1>3, CallFacts
<1> QED
  BY <1>1, <1>2, <1>3, <1>4, SocketFields

LEMMA SameSocket ==
    ASSUME SocketInv, NEW s \in Slots, UNCHANGED sock
    PROVE  sock' = [sock EXCEPT ![s] = sock[s]]
  BY SocketFacts

LEMMA PackKeeps ==
    ASSUME SocketInv, NEW t \in Thread, Pack(t)
    PROVE  SocketInv'
<1> DEFINE c == call[t]
           s == c.s
           x == sock[s]
<1>1. AtCall(t, {"pack"})
  BY DEF Pack
<1>2. /\ c \in CallRecord /\ c.todo # <<>> /\ Begins(c.todo, "pack")
      /\ Stage(backend, kind, started, c, x)
      /\ kind \in {"tcp", "unix", "udp"} /\ s # 0 /\ s \in Slots
      /\ x \in SocketRecord /\ x.inherit \in BOOLEAN
      /\ SocketGood(backend, kind, x, FALSE)
  BY <1>1, AtSocket
<1> HIDE DEF c, x, s
<1>3. Fresh(backend, kind, c, x) /\ kind = "unix" /\ PackLeft(c.todo)
  BY <1>2, WhereItIs
<1>4. CASE Fail(t, "badpath")
  BY <1>3, <1>4, FailStep DEF Fresh, c
<1>5. CASE /\ ~Refused_un(c.asked) /\ Advance(t, s, TRUE)
           /\ UNCHANGED <<backend, kind, started, sock, leaked>>
  <2> DEFINE n == NextCall(c, s, TRUE)
  <2>1. /\ Tail(c.todo) # <<>> /\ (ConnectLeft(Tail(c.todo)) \/ BindLeft(Tail(c.todo)))
    BY <1>3 DEF PackLeft, ConnectLeft, BindLeft, Begins
  <2>2. SocketGood(backend, kind, x, Tail(c.todo) = <<>>)
    <3>1. (Tail(c.todo) = <<>>) = FALSE
      BY <2>1
    <3> QED
      BY <1>2, <3>1
  <2>3. sock' = [sock EXCEPT ![s] = x]
    BY <1>2, <1>5, SameSocket DEF x
  <2>4. Moved(t, s) /\ sock'[s] = x
    BY <1>1, <1>2, <1>5, <2>2, <2>3, MovedOn DEF c, s
  <2>5. /\ n.todo = Tail(c.todo) /\ n.s = s /\ n.op = c.op /\ n.on = c.on /\ n.asked = c.asked
        /\ n.owned
    BY <1>2, NextCallFields
  <2> HIDE DEF n
  <2>6. ~RefusedOn(backend, x.asked)
    BY <1>3, <1>5, SocketFacts, ConversionsOn DEF Fresh
  <2>7. Creating(backend, kind, n, x)
    BY <1>2, <1>3, <2>1, <2>5, <2>6 DEF Creating, Fresh
  <2> QED
    BY <1>2, <1>5, <2>4, <2>7, AdvanceStep DEF Stage, n, c, s
<1> QED
  BY <1>4, <1>5 DEF Pack, c, s

\* A socket that gets its name.
Named(x, n) == [x EXCEPT !.st = "bound", !.name = n]

LEMMA NamedFields ==
    ASSUME NEW x \in SocketRecord, NEW n \in SockName
    PROVE  LET y == Named(x, n)
           IN /\ y \in SocketRecord /\ y.asked = x.asked /\ y.name = n /\ y.st = "bound"
              /\ y.queue = x.queue /\ y.peer = x.peer /\ y.timeo = x.timeo /\ y.want = x.want
              /\ y.inherit = x.inherit
  BY DEF Named, SocketRecord

LEMMA BindKeeps ==
    ASSUME SocketInv, NEW t \in Thread, Bind(t)
    PROVE  SocketInv'
<1> DEFINE c == call[t]
           s == c.s
           x == sock[s]
<1>1. AtCall(t, {"bind"})
  BY DEF Bind
<1>2. /\ c \in CallRecord /\ c.todo # <<>> /\ Begins(c.todo, "bind")
      /\ Stage(backend, kind, started, c, x)
      /\ kind \in {"tcp", "unix", "udp"} /\ s # 0 /\ s \in Slots
      /\ x \in SocketRecord /\ x.inherit \in BOOLEAN
      /\ SocketGood(backend, kind, x, FALSE)
  BY <1>1, AtSocket
<1> HIDE DEF c, x, s
<1>3. /\ Fresh(backend, kind, c, x) /\ BindLeft(c.todo)
      /\ kind = "unix" => ~RefusedOn(backend, x.asked)
      /\ kind = "udp" => Tail(c.todo) = <<>>
  BY <1>2, WhereItIs
<1>4. CASE \E cause : Fail(t, cause)
  BY <1>3, <1>4, FailStep DEF Fresh, c
<1>5. CASE /\ sock' = [sock EXCEPT ![s].st = "bound", ![s].name = KernelName(sock[s].asked)]
           /\ Advance(t, s, TRUE)
           /\ UNCHANGED <<backend, kind, started, leaked>>
  <2> DEFINE name == NameOn(backend, kind, x.asked)
             n == NextCall(c, s, TRUE)
             last == Tail(c.todo) = <<>>
             y == Named(x, name)
  <2>1. AskedOf(kind, x.asked) /\ name \in SockName /\ KernelName(x.asked) = name
    BY <1>2, NamesAreNames, SocketFacts, ConversionsOn DEF SocketGood
  <2>2. sock' = [sock EXCEPT ![s] = [x EXCEPT !.st = "bound", !.name = KernelName(x.asked)]]
    BY <1>2, <1>5, SocketFacts DEF x
  <2>3. sock' = [sock EXCEPT ![s] = y]
    BY <2>1, <2>2 DEF Named
  <2> HIDE DEF name
  <2>4. /\ y \in SocketRecord /\ y.asked = x.asked /\ y.name = name /\ y.st = "bound"
        /\ y.queue = x.queue /\ y.peer = x.peer /\ y.timeo = x.timeo /\ y.want = x.want
        /\ y.inherit = x.inherit
    BY <1>2, <2>1, NamedFields
  <2>5. /\ n.todo = Tail(c.todo) /\ n.s = s /\ n.op = c.op /\ n.on = c.on /\ n.asked = c.asked
        /\ n.owned
    BY <1>2, NextCallFields
  <2> HIDE DEF y, n
  <2>6. SocketGood(backend, kind, y, last)
    <3>1. y.inherit => backend # "linux" /\ (backend = "bsd" => ~last)
      BY <1>2, <1>3, <2>4 DEF SocketGood, Fresh
    <3>2. AskedOf(kind, y.asked) /\ y.timeo = TimeoutOn(backend, y.want)
      BY <1>2, <2>4 DEF SocketGood
    <3>3. y.name = NameOn(backend, kind, y.asked) /\ (kind = "unix" => ~RefusedOn(backend, y.asked))
      BY <1>3, <2>4 DEF name
    <3>4. /\ kind = "udp" => \A i \in 1..Len(y.queue) :
                y.queue[i].from \in Inet /\ y.queue[i].name = NameOn(backend, kind, y.queue[i].from)
          /\ kind = "unix" => Fits(y.peer) /\ \A i \in 1..Len(y.queue) : Fits(y.queue[i].name)
      BY <1>2, <2>4 DEF SocketGood
    <3> QED
      BY <2>4, <3>1, <3>2, <3>3, <3>4 DEF SocketGood
  <2>7. Moved(t, s) /\ sock'[s] = y
    BY <1>1, <1>2, <1>5, <2>3, <2>4, <2>6, MovedOn DEF c, s
  <2>8. ASSUME ~last PROVE Creating(backend, kind, n, y)
    <3>1. (ListenLeft(Tail(c.todo)) \/ ChmodLeft(Tail(c.todo))) /\ kind # "udp"
      BY <1>3, <2>8 DEF BindLeft
    <3> QED
      BY <1>2, <1>3, <2>4, <2>5, <3>1 DEF Creating, Fresh
  <2> QED
    BY <1>2, <1>5, <2>7, <2>8, AdvanceStep DEF Stage, n, c, s
<1> QED
  BY <1>4, <1>5 DEF Bind, c, s

LEMMA ListenKeeps ==
    ASSUME SocketInv, NEW t \in Thread, Listen(t)
    PROVE  SocketInv'
<1> DEFINE c == call[t]
           s == c.s
           x == sock[s]
<1>1. AtCall(t, {"listen"})
  BY DEF Listen
<1>2. /\ c \in CallRecord /\ c.todo # <<>> /\ Begins(c.todo, "listen")
      /\ Stage(backend, kind, started, c, x)
      /\ kind \in {"tcp", "unix", "udp"} /\ s # 0 /\ s \in Slots
      /\ x \in SocketRecord /\ x.inherit \in BOOLEAN
      /\ SocketGood(backend, kind, x, FALSE)
  BY <1>1, AtSocket
<1> HIDE DEF c, x, s
<1>3. /\ Creating(backend, kind, c, x) /\ ListenLeft(c.todo) /\ x.st = "bound"
      /\ backend = "bsd" => ~x.inherit
  BY <1>2, WhereItIs
<1>4. CASE Fail(t, "denied")
  BY <1>3, <1>4, FailStep DEF Creating, c
<1>5. CASE /\ sock' = [sock EXCEPT ![s].st = "listening"]
           /\ Advance(t, s, TRUE)
           /\ UNCHANGED <<backend, kind, started, leaked>>
  <2> DEFINE y == [x EXCEPT !.st = "listening"]
  <2>1. sock' = [sock EXCEPT ![s] = y]
    BY <1>2, <1>5, SocketFacts DEF x
  <2>2. /\ y \in SocketRecord /\ y.asked = x.asked /\ y.name = x.name /\ y.st = "listening"
        /\ y.queue = x.queue /\ y.peer = x.peer /\ y.timeo = x.timeo /\ y.want = x.want
        /\ y.inherit = x.inherit
    BY <1>2 DEF SocketRecord
  <2> HIDE DEF y
  <2>3. Tail(c.todo) = <<>> /\ kind # "udp"
    BY <1>3 DEF ListenLeft, Creating
  <2>4. SocketGood(backend, kind, y, Tail(c.todo) = <<>>)
    <3>1. y.inherit => backend # "linux" /\ backend # "bsd"
      BY <1>2, <1>3, <2>2 DEF SocketGood
    <3>2. AskedOf(kind, y.asked) /\ y.timeo = TimeoutOn(backend, y.want)
      BY <1>2, <2>2 DEF SocketGood
    <3>3. y.name = NameOn(backend, kind, y.asked) /\ (kind = "unix" => ~RefusedOn(backend, y.asked))
      BY <1>2, <1>3, <2>2 DEF SocketGood
    <3>4. kind = "unix" => Fits(y.peer) /\ \A i \in 1..Len(y.queue) : Fits(y.queue[i].name)
      BY <1>2, <2>2 DEF SocketGood
    <3> QED
      BY <2>3, <3>1, <3>2, <3>3, <3>4 DEF SocketGood
  <2>5. Moved(t, s) /\ sock'[s] = y
    BY <1>1, <1>2, <1>5, <2>1, <2>2, <2>4, MovedOn DEF c, s
  <2> QED
    BY <1>2, <1>5, <2>3, <2>5, AdvanceStep DEF c, s
<1> QED
  BY <1>4, <1>5 DEF Listen, c, s

LEMMA OwnKeeps ==
    ASSUME SocketInv, NEW t \in Thread, Own(t)
    PROVE  SocketInv'
<1> DEFINE c == call[t]
           s == c.s
           x == sock[s]
           n == NextCall(c, s, TRUE)
           last == Tail(c.todo) = <<>>
<1>1. /\ AtCall(t, {"own"}) /\ Advance(t, s, TRUE)
      /\ UNCHANGED <<backend, kind, started, sock, leaked>>
  BY DEF Own
<1>2. /\ c \in CallRecord /\ c.todo # <<>> /\ Begins(c.todo, "own")
      /\ Stage(backend, kind, started, c, x)
      /\ kind \in {"tcp", "unix", "udp"} /\ s # 0 /\ s \in Slots
      /\ x \in SocketRecord /\ x.inherit \in BOOLEAN
      /\ SocketGood(backend, kind, x, FALSE)
  BY <1>1, AtSocket
<1> HIDE DEF c, x, s
<1>3. Accepted(backend, kind, c, x) /\ OwnLeft(backend, c.todo)
  BY <1>2, WhereItIs
<1>4. /\ n.todo = Tail(c.todo) /\ n.s = s /\ n.op = c.op /\ n.on = c.on /\ n.asked = c.asked
      /\ n.owned
  BY <1>2, NextCallFields
<1> HIDE DEF n
<1>5. /\ backend = "bsd" => MarkLeft(backend, n.todo) /\ ~last
      /\ ~last => MarkLeft(backend, n.todo) \/ (PosixBackend(backend) /\ UnpackLeft(n.todo))
  BY <1>3, <1>4 DEF OwnLeft, MarkLeft, Begins, PosixBackend
<1>6. SocketGood(backend, kind, x, last)
  BY <1>2, <1>3, <1>5, GoodAgain DEF Accepted
<1>7. sock' = [sock EXCEPT ![s] = x]
  BY <1>1, <1>2, SameSocket DEF x
<1>8. Moved(t, s) /\ sock'[s] = x
  BY <1>1, <1>2, <1>6, <1>7, MovedOn DEF c, s
<1>9. ~last => Accepted(backend, kind, n, x)
  BY <1>2, <1>3, <1>4, <1>5 DEF Accepted
<1> QED
  BY <1>1, <1>2, <1>8, <1>9, AdvanceStep DEF Stage, n, c, s

LEMMA UnpackKeeps ==
    ASSUME SocketInv, NEW t \in Thread, Unpack(t)
    PROVE  SocketInv'
<1> DEFINE c == call[t]
           s == c.s
           x == sock[s]
           n == NextCall(c, s, c.owned)
           last == Tail(c.todo) = <<>>
<1>1. AtCall(t, {"unpack"})
  BY DEF Unpack
<1>2. /\ c \in CallRecord /\ c.todo # <<>> /\ Begins(c.todo, "unpack")
      /\ Stage(backend, kind, started, c, x)
      /\ kind \in {"tcp", "unix", "udp"} /\ s # 0 /\ s \in Slots
      /\ x \in SocketRecord /\ x.inherit \in BOOLEAN
      /\ SocketGood(backend, kind, x, FALSE)
  BY <1>1, AtSocket
<1> HIDE DEF c, x, s
<1>3. /\ Accepted(backend, kind, c, x)
      /\ \/ UnpackFirst(backend, c.todo)
         \/ c.owned /\ PosixBackend(backend) /\ UnpackLeft(c.todo) /\ (backend = "bsd" => ~x.inherit)
  BY <1>2, WhereItIs
<1>4. CASE backend = "windows" /\ kind = "unix" /\ Unreadable(x.peer) /\ Fail(t, "unreadable")
  <2>1. kind = "unix" /\ 2 \in Bytes(x.peer)
    BY <1>4 DEF Unreadable
  <2> QED
    BY <1>4, <2>1, FailStep DEF c, s, x
<1>5. CASE Advance(t, s, c.owned) /\ UNCHANGED <<backend, kind, started, sock, leaked>>
  <2>0. c.owned \in BOOLEAN
    BY <1>2 DEF CallRecord
  <2>1. /\ n.todo = Tail(c.todo) /\ n.s = s /\ n.op = c.op /\ n.on = c.on /\ n.asked = c.asked
        /\ n.owned = c.owned
    BY <1>2, <2>0, NextCallFields
  <2> HIDE DEF n
  <2>2. /\ ~last => OwnLeft(backend, n.todo)
        /\ last /\ backend = "bsd" => ~x.inherit
    BY <1>3, <2>1 DEF UnpackFirst, UnpackLeft, OwnLeft, Begins
  <2>3. SocketGood(backend, kind, x, last)
    BY <1>2, <1>3, <2>2, GoodAgain DEF Accepted
  <2>4. sock' = [sock EXCEPT ![s] = x]
    BY <1>5, <1>2, SameSocket DEF x
  <2>5. Moved(t, s) /\ sock'[s] = x
    BY <1>1, <1>2, <1>5, <2>3, <2>4, MovedOn DEF c, s
  <2>6. ~last => Accepted(backend, kind, n, x)
    BY <1>2, <1>3, <2>1, <2>2 DEF Accepted
  <2> QED
    BY <1>2, <1>5, <2>0, <2>5, <2>6, AdvanceStep DEF Stage, n, c, s
<1> QED
  BY <1>4, <1>5 DEF Unpack, c, s, x

\* A connection that waits at a listener, or a datagram at a socket.
GoodQueue(b, k, q) ==
    /\ q \in Seq(Waiting)
    /\ k = "udp" => \A i \in 1..Len(q) : q[i].from \in Inet /\ q[i].name = NameOn(b, k, q[i].from)
    /\ k = "unix" => \A i \in 1..Len(q) : Fits(q[i].name)

LEMMA QueueGood ==
    ASSUME NEW b, NEW k, NEW x \in SocketRecord, NEW h, NEW q, SocketGood(b, k, x, h), GoodQueue(b, k, q)
    PROVE  LET y == [x EXCEPT !.queue = q]
           IN /\ y \in SocketRecord /\ SocketGood(b, k, y, h) /\ y.st = x.st /\ y.asked = x.asked
              /\ y.inherit = x.inherit /\ y.peer = x.peer
<1> DEFINE y == [x EXCEPT !.queue = q]
<1>0. q \in Seq(Waiting)
  BY DEF GoodQueue
<1>1. /\ y \in SocketRecord /\ y.st = x.st /\ y.asked = x.asked /\ y.inherit = x.inherit
      /\ y.peer = x.peer /\ y.name = x.name /\ y.queue = q /\ y.timeo = x.timeo /\ y.want = x.want
  BY <1>0 DEF SocketRecord
<1> HIDE DEF y
<1>2. SocketGood(b, k, y, h)
  <2>1. y.inherit => b # "linux" /\ (b = "bsd" => ~h)
    BY <1>1 DEF SocketGood
  <2>2. AskedOf(k, y.asked) /\ y.timeo = TimeoutOn(b, y.want) /\ (k = "udp" /\ h => y.st = "bound")
    BY <1>1 DEF SocketGood
  <2>3. y.st \in {"bound", "listening"} =>
            y.name = NameOn(b, k, y.asked) /\ (k = "unix" => ~RefusedOn(b, y.asked))
    BY <1>1 DEF SocketGood
  <2>4. k = "unix" => Fits(y.peer)
    BY <1>1 DEF SocketGood
  <2> QED
    BY <1>1, <2>1, <2>2, <2>3, <2>4 DEF SocketGood, GoodQueue
<1> QED
  BY <1>1, <1>2 DEF y

LEMMA OneWaits ==
    ASSUME NEW d \in Waiting, NEW P, NEW k, k = P => Fits(d.name)
    PROVE  /\ <<d>> \in Seq(Waiting) /\ Len(<<d>>) = 1 /\ <<d>>[1] = d
           /\ \A i \in 1..Len(<<d>>) : <<d>>[i] = d
           /\ k = P => \A i \in 1..Len(<<d>>) : Fits(<<d>>[i].name)
<1>1. /\ <<d>> \in Seq(Waiting) /\ Len(<<d>>) = 1 /\ <<d>>[1] = d
  OBVIOUS
<1>2. \A i \in 1..1 : i = 1
  OBVIOUS
<1>3. \A i \in 1..Len(<<d>>) : <<d>>[i] = d
  BY <1>1, <1>2
<1> QED
  BY <1>1, <1>3

\* A path that names a listener fits.
LEMMA ListenersNamed ==
    ASSUME NEW b, NEW x, NEW h, SocketGood(b, "unix", x, h), x.st \in {"bound", "listening"}
    PROVE  Fits(x.name)
<1>1. x.name = CString(x.asked) /\ ~RefusedOn(b, x.asked) /\ AskedOf("unix", x.asked)
  BY DEF SocketGood, NameOn
<1>2. x.asked \in Seq(Nat)
  BY <1>1, AskedIsAsked
<1> QED
  BY <1>1, <1>2, AcceptedPathFits

\* A socket x that is connected to a peer of some name.
Connected(x, name) == [x EXCEPT !.st = "connected", !.peer = name]

LEMMA ConnectKeeps ==
    ASSUME SocketInv, NEW t \in Thread, Connect(t)
    PROVE  SocketInv'
<1> DEFINE c == call[t]
           s == c.s
           x == sock[s]
<1>1. AtCall(t, {"connect"})
  BY DEF Connect
<1>2. /\ c \in CallRecord /\ c.todo # <<>> /\ Begins(c.todo, "connect")
      /\ Stage(backend, kind, started, c, x)
      /\ kind \in {"tcp", "unix", "udp"} /\ s # 0 /\ s \in Slots
      /\ x \in SocketRecord /\ x.inherit \in BOOLEAN
      /\ SocketGood(backend, kind, x, FALSE)
  BY <1>1, AtSocket
<1> HIDE DEF c, x, s
<1>3. /\ Fresh(backend, kind, c, x) /\ ConnectLeft(c.todo) /\ kind # "udp"
      /\ kind = "unix" => ~RefusedOn(backend, x.asked)
  BY <1>2, WhereItIs
<1>4. CASE \E cause : Fail(t, cause)
  BY <1>3, <1>4, FailStep DEF Fresh, c
<1>5. ASSUME NEW l \in Listeners(x.asked), sock[l].queue = <<>>,
             sock' = [sock EXCEPT ![s].st = "connected", ![s].peer = sock[l].name,
                                  ![l].queue = <<[name |-> <<>>]>>],
             Advance(t, s, TRUE), UNCHANGED <<backend, kind, started, leaked>>
      PROVE  SocketInv'
  <2> DEFINE z == sock[l]
             d == [name |-> <<>>]
             y == Connected(x, z.name)
             q == [z EXCEPT !.queue = <<d>>]
  <2>1. l \in Slots /\ z.st = "listening"
    BY <1>5 DEF Listeners
  <2>2. l # s
    BY <1>3, <2>1 DEF Fresh, x
  <2>3. /\ z \in SocketRecord /\ SocketGood(backend, kind, z, l \in held) /\ z.name \in SockName
    BY <2>1, SocketFacts, SocketFields DEF Open
  <2>4. sock' = [[sock EXCEPT ![s] = [x EXCEPT !.st = "connected", !.peer = z.name]]
                    EXCEPT ![l] = [z EXCEPT !.queue = <<d>>]]
    BY <1>2, <1>5, <2>1, <2>2, SocketFacts DEF x
  <2>5. /\ sock'[s] = y /\ sock'[l] = q /\ \A r \in Slots : r # s /\ r # l => sock'[r] = sock[r]
    BY <1>2, <2>1, <2>2, <2>4, SocketFacts DEF Connected
  <2> HIDE DEF z
  <2>6. /\ y \in SocketRecord /\ y.st = "connected" /\ y.asked = x.asked /\ y.inherit = x.inherit
        /\ y.peer = z.name /\ y.queue = x.queue /\ y.timeo = x.timeo /\ y.want = x.want
    BY <1>2, <2>3 DEF SocketRecord, Connected
  <2>7. kind = "unix" => Fits(z.name)
    BY <2>1, <2>3, ListenersNamed DEF z
  <2> HIDE DEF y
  <2>8. Tail(c.todo) = <<>>
    BY <1>3 DEF ConnectLeft
  <2>9. SocketGood(backend, kind, y, Tail(c.todo) = <<>>)
    <3>1. y.inherit => backend # "linux" /\ backend # "bsd"
      BY <1>2, <1>3, <2>6 DEF SocketGood, Fresh
    <3>2. AskedOf(kind, y.asked) /\ y.timeo = TimeoutOn(backend, y.want)
      BY <1>2, <2>6 DEF SocketGood
    <3>3. kind = "unix" => Fits(y.peer) /\ \A i \in 1..Len(y.queue) : Fits(y.queue[i].name)
      BY <1>2, <2>6, <2>7 DEF SocketGood
    <3> QED
      BY <1>3, <2>6, <3>1, <3>2, <3>3 DEF SocketGood
  <2>10. /\ q \in SocketRecord /\ SocketGood(backend, kind, q, l \in held) /\ q.st = z.st
         /\ q.asked = z.asked /\ q.inherit = z.inherit /\ q.peer = z.peer
    <3>1. d \in Waiting /\ d.name = <<>>
      BY DEF Waiting, SockName
    <3> HIDE DEF d
    <3>2. /\ <<d>> \in Seq(Waiting)
          /\ kind = "unix" => \A i \in 1..Len(<<d>>) : Fits(<<d>>[i].name)
      BY <3>1, EmptyFits, OneWaits
    <3>3. GoodQueue(backend, kind, <<d>>)
      BY <1>3, <3>2 DEF GoodQueue
    <3> QED
      BY <2>3, <3>3, QueueGood
  <2> HIDE DEF q
  <2>11. sock' \in [Slots -> {NoSock} \union SocketRecord]
    <3>1. sock' = [[sock EXCEPT ![s] = y] EXCEPT ![l] = q]
      BY <2>4 DEF y, q, Connected
    <3> QED
      BY <2>6, <2>10, <3>1, SocketFacts
  <2>12. ASSUME NEW r \in Slots, r # s
         PROVE  Kept(r) /\ (Open(r) => SocketGood(backend, kind, sock'[r], r \in held))
    <3>1. CASE r = l
      BY <2>5, <2>10, <3>1 DEF Kept, z
    <3>2. CASE r # l
      BY <2>5, <2>12, <3>2, Untouched
    <3> QED
      BY <3>1, <3>2
  <2>13. PosixBackend(backend) \/ started'
    BY <1>1, <1>2, <1>5, CallFacts DEF c, s
  <2>14. Moved(t, s)
    <3>1. /\ s \in Slots /\ s = call[t].s /\ s # 0 /\ sock'[s] \in SocketRecord
          /\ SocketGood(backend, kind, sock'[s], Tail(call[t].todo) = <<>>)
          /\ started' \in BOOLEAN /\ (started => started')
      BY <1>2, <1>5, <2>5, <2>6, <2>9, SocketFacts DEF c, s
    <3> QED
      BY <2>11, <2>12, <2>13, <3>1 DEF Moved
  <2> QED
    BY <1>2, <1>5, <2>8, <2>14, AdvanceStep DEF c, s
<1> QED
  BY <1>4, <1>5 DEF Connect, c, s, x

LEMMA AcceptKeeps ==
    ASSUME SocketInv, NEW t \in Thread, Accept(t)
    PROVE  SocketInv'
<1> DEFINE c == call[t]
           w == Head(c.todo)
           l == c.on
           z == sock[l]
<1>1. AtCall(t, {"accept", "accept_cloexec"})
  BY DEF Accept
<1>2. /\ c \in CallRecord /\ c.todo # <<>> /\ w \in {"accept", "accept_cloexec"}
      /\ Begins(c.todo, w) /\ Stage(backend, kind, started, c, sock[c.s]) /\ (l # 0 => l \in held)
  BY <1>1, CallFacts
<1>3. Accepting(backend, kind, c)
  BY <1>2, SocketFacts, WhereItStarts
<1>4. c.s = 0 /\ l \in held
  BY <1>2, <1>3 DEF Accepting
<1>5. CASE Fail(t, "reset")
  BY <1>4, <1>5, FailStep
<1>6. ASSUME z.queue # <<>>, NEW s \in Slots, ~Open(s), Advance(t, s, FALSE),
             sock' = [sock EXCEPT ![s] = [NewSock("connected", z.asked, w = "accept")
                                            EXCEPT !.name = z.name, !.peer = z.queue[1].name],
                                  ![l].queue = <<>>],
             UNCHANGED <<backend, kind, started, leaked>>
      PROVE  SocketInv'
  <2> DEFINE i == w = "accept"
             st == "connected"
             a == z.asked
             x == NewSock(st, a, i)
             p == z.queue[1].name
             y == [x EXCEPT !.name = z.name, !.peer = p]
             q == [z EXCEPT !.queue = <<>>]
             n == NextCall(c, s, FALSE)
  <2>1. /\ l \in Slots /\ Open(l) /\ l # s /\ z \in SocketRecord
        /\ SocketGood(backend, kind, z, l \in held) /\ (PosixBackend(backend) \/ started)
    BY <1>4, <1>6, SocketFacts
  <2>2. /\ a \in Asked /\ z.name \in SockName /\ AskedOf(kind, a) /\ z.queue \in Seq(Waiting)
    BY <2>1, SocketFields DEF SocketGood
  <2>3. p \in SockName /\ (kind = "unix" => Fits(p))
    <3> DEFINE g == z.queue
    <3>1. g \in Seq(Waiting) /\ g # <<>> /\ p = g[1].name
      BY <1>6, <2>2
    <3>2. kind = "unix" => \A j \in 1..Len(g) : Fits(g[j].name)
      BY <2>1 DEF SocketGood
    <3> HIDE DEF g, p
    <3>3. 1 \in 1..Len(g) /\ g[1] \in Waiting
      BY <3>1
    <3>4. \A d \in Waiting : d.name \in SockName
      BY DEF Waiting
    <3> QED
      BY <3>1, <3>2, <3>3, <3>4
  <2>4. /\ OwnLeft(backend, Tail(c.todo)) \/ UnpackFirst(backend, Tail(c.todo))
        /\ backend = "bsd" => OwnLeft(backend, Tail(c.todo))
        /\ Tail(c.todo) # <<>> /\ (i => backend # "linux") /\ kind # "udp"
    <3>1. AcceptLeft(backend, kind, c.todo) /\ kind # "udp"
      BY <1>3 DEF Accepting
    <3>2. /\ OwnLeft(backend, Tail(c.todo)) \/ UnpackFirst(backend, Tail(c.todo))
          /\ i => backend # "linux"
      BY <3>1 DEF AcceptLeft, Begins
    <3> QED
      BY <3>1, <3>2 DEF OwnLeft, UnpackFirst, Begins
  <2>5. /\ HasFields(x, st, a, i) /\ SocketGood(backend, kind, x, FALSE)
    <3>1. i \in BOOLEAN /\ st \in {"new", "connected"}
      OBVIOUS
    <3> HIDE DEF i, a, st
    <3>2. HasFields(NewSock(st, a, i), st, a, i)
      BY <2>2, <3>1, NewSockFields, Zenon
    <3>3. SocketGood(backend, kind, NewSock(st, a, i), FALSE)
      BY <2>2, <2>4, <3>1, NewSockGood, Zenon
    <3> QED
      BY <3>2, <3>3
  <2>6. /\ sock'[s] = y /\ sock'[l] = q /\ (\A r \in Slots : r # s /\ r # l => sock'[r] = sock[r])
        /\ sock' = [[sock EXCEPT ![s] = y] EXCEPT ![l] = q]
    BY <1>6, <2>1, SocketFacts
  <2> HIDE DEF x, z, p, i, a
  <2>7. /\ x \in SocketRecord /\ x.st = "connected" /\ x.asked = a /\ x.inherit = i
    BY <2>5 DEF HasFields
  <2>8. /\ y \in SocketRecord /\ y.st = "connected" /\ y.asked = x.asked /\ y.inherit = x.inherit
        /\ y.peer = p /\ y.queue = x.queue /\ y.timeo = x.timeo /\ y.want = x.want
    BY <2>2, <2>3, <2>7 DEF SocketRecord
  <2> HIDE DEF y
  <2>9. SocketGood(backend, kind, y, FALSE)
    <3>1. y.inherit => backend # "linux"
      BY <2>5, <2>8 DEF SocketGood
    <3>2. AskedOf(kind, y.asked) /\ y.timeo = TimeoutOn(backend, y.want)
      BY <2>5, <2>8 DEF SocketGood
    <3>3. kind = "unix" => Fits(y.peer) /\ \A j \in 1..Len(y.queue) : Fits(y.queue[j].name)
      BY <2>3, <2>5, <2>8 DEF SocketGood
    <3> QED
      BY <2>4, <2>8, <3>1, <3>2, <3>3 DEF SocketGood
  <2>10. /\ q \in SocketRecord /\ SocketGood(backend, kind, q, l \in held) /\ q.st = z.st
         /\ q.asked = z.asked /\ q.inherit = z.inherit /\ q.peer = z.peer
    <3> DEFINE e == <<>>
    <3>1. e \in Seq(Waiting) /\ Len(e) = 0
      OBVIOUS
    <3>2. q = [z EXCEPT !.queue = e]
      OBVIOUS
    <3> HIDE DEF e, q
    <3>3. \A j \in 1..Len(e) : FALSE
      BY <3>1
    <3>4. GoodQueue(backend, kind, e)
      BY <3>1, <3>3 DEF GoodQueue
    <3> QED
      BY <2>1, <3>2, <3>4, QueueGood
  <2> HIDE DEF q
  <2>11. sock' \in [Slots -> {NoSock} \union SocketRecord]
    BY <2>6, <2>8, <2>10, SocketFacts
  <2>12. ASSUME NEW r \in Slots, r # s
         PROVE  Kept(r) /\ (Open(r) => SocketGood(backend, kind, sock'[r], r \in held))
    <3>1. CASE r = l
      BY <2>6, <2>10, <3>1 DEF Kept, z
    <3>2. CASE r # l
      BY <2>6, <2>12, <3>2, Untouched
    <3> QED
      BY <3>1, <3>2
  <2>13. s # 0 /\ s \in Slots \union {0}
    BY ZeroIsNoSlot
  <2>14. Moved(t, s)
    <3>0. (Tail(call[t].todo) = <<>>) = FALSE
      BY <2>4
    <3>1. /\ sock'[s] \in SocketRecord
          /\ SocketGood(backend, kind, sock'[s], Tail(call[t].todo) = <<>>)
      BY <2>6, <2>8, <2>9, <3>0
    <3>2. started' \in BOOLEAN /\ (started => started') /\ (PosixBackend(backend) \/ started')
      BY <1>6, <2>1, SocketFacts
    <3> QED
      BY <1>4, <1>6, <2>11, <2>12, <2>13, <3>1, <3>2 DEF Moved
  <2>15. /\ n.todo = Tail(c.todo) /\ n.s = s /\ n.op = c.op /\ n.on = c.on
    BY <1>2, <2>13, NextCallFields
  <2> HIDE DEF n
  <2>16. Accepted(backend, kind, n, y)
    BY <1>3, <2>4, <2>8, <2>13, <2>15 DEF Accepted, Accepting
  <2>17. Stage(backend, kind, started', n, sock'[s])
    BY <2>6, <2>16 DEF Stage
  <2> QED
    BY <1>2, <1>6, <2>13, <2>14, <2>17, AdvanceStep DEF n
<1> QED
  BY <1>5, <1>6 DEF Accept

-----------------------------------------------------------------------------
(* Operations that begin, and operations on a socket that is held          *)

LEMMA IdleSocket ==
    ASSUME SocketInv, NEW t \in Thread, call[t] = Idle
    PROVE  call[t].s = 0
  BY IdleType

\* The sockets stay and a thread's call changes that has no socket.
LEMMA BeginKeeps ==
    ASSUME SocketInv, NEW t \in Thread, NEW op, NEW a, Begin(t, op, a), Makes(kind, op), AskedOf(kind, a)
    PROVE  SocketInv'
<1> DEFINE q == Script(op)
           c == [Idle EXCEPT !.op = op, !.asked = a, !.todo = q]
<1>1. /\ call[t] = Idle /\ call' = [call EXCEPT ![t] = c]
      /\ UNCHANGED <<backend, kind, started, sock, held, leaked>>
  BY DEF Begin
<1>2. /\ q \in Seq(SystemCalls)
      /\ \/ StartupLeft(backend, kind, q)
         \/ SocketLeft(backend, kind, q) /\ PosixBackend(backend)
  BY SocketFacts, CreateScript
<1>3. op \in CreateOps /\ a \in Asked
  BY AskedIsAsked DEF Makes, CreateOps
<1> HIDE DEF q
<1>4. /\ c.op = op /\ c.asked = a /\ c.todo = q /\ c.s = 0 /\ c.on = 0
      /\ c \in CallRecord
  BY <1>2, <1>3 DEF Idle, CallRecord
<1> HIDE DEF c
<1>5. Acquiring(backend, kind, started, c)
  BY <1>2, <1>3, <1>4 DEF Acquiring
<1>6. \A x : Stage(backend, kind, started, c, x)
  BY <1>5 DEF Stage
<1>7. \A r \in Slots : Kept(r) /\ (Open(r) => SocketGood(backend, kind, sock'[r], r \in held))
  BY <1>1, Untouched
<1>8. call[t].s = 0 /\ sock' \in [Slots -> {NoSock} \union SocketRecord]
  BY <1>1, IdleSocket, SocketFacts
<1> QED
  BY <1>1, <1>4, <1>6, <1>7, <1>8, CallStep

LEMMA BeginAcceptKeeps ==
    ASSUME SocketInv, NEW t \in Thread, NEW l \in Slots, BeginAccept(t, l)
    PROVE  SocketInv'
<1> DEFINE op == IF kind = "tcp" THEN "tcp_accept" ELSE "unix_accept"
           q == Script(op)
           c == [Idle EXCEPT !.op = op, !.on = l, !.todo = q]
<1>1. /\ call[t] = Idle /\ call' = [call EXCEPT ![t] = c] /\ l \in held /\ sock[l].st = "listening"
      /\ UNCHANGED <<backend, kind, started, sock, held, leaked>>
  BY DEF BeginAccept
<1>2. kind # "udp"
  BY <1>1, SocketFacts DEF SocketGood
<1>3. \/ kind = "tcp" /\ op = "tcp_accept"
      \/ kind = "unix" /\ op = "unix_accept"
  BY <1>2, SocketFacts
<1> HIDE DEF op
<1>4. q \in Seq(SystemCalls) /\ AcceptLeft(backend, kind, q)
  BY <1>3, SocketFacts, AcceptScript
<1>5. op \in AcceptOps /\ l \in Slots /\ l # 0
  BY <1>3, ZeroIsNoSlot DEF AcceptOps
<1> HIDE DEF q
<1>6. /\ c.op = op /\ c.todo = q /\ c.s = 0 /\ c.on = l /\ c \in CallRecord
  <2>1. <<>> \in Asked
    BY DEF Asked
  <2> QED
    BY <1>4, <1>5, <2>1 DEF Idle, CallRecord
<1> HIDE DEF c
<1>7. Accepting(backend, kind, c)
  BY <1>2, <1>4, <1>5, <1>6 DEF Accepting
<1>8. \A x : Stage(backend, kind, started, c, x)
  BY <1>7 DEF Stage
<1>9. \A r \in Slots : Kept(r) /\ (Open(r) => SocketGood(backend, kind, sock'[r], r \in held))
  BY <1>1, Untouched
<1>10. call[t].s = 0 /\ sock' \in [Slots -> {NoSock} \union SocketRecord]
  BY <1>1, IdleSocket, SocketFacts
<1> QED
  BY <1>1, <1>6, <1>8, <1>9, <1>10, CallStep

LEMMA BeginReadKeeps ==
    ASSUME SocketInv, NEW t \in Thread, NEW s \in Slots, BeginRead(t, s)
    PROVE  SocketInv'
<1> DEFINE c == [Idle EXCEPT !.op = "read", !.on = s]
<1>1. /\ call[t] = Idle /\ call' = [call EXCEPT ![t] = c] /\ s \in held
      /\ UNCHANGED <<backend, kind, started, sock, held, leaked>>
  BY DEF BeginRead, Usable
<1>2. /\ c.op = "read" /\ c.todo = <<>> /\ c.s = 0 /\ c.on = s /\ c \in CallRecord
  <2>1. <<>> \in Asked /\ <<>> \in Seq(SystemCalls)
    BY DEF Asked
  <2> QED
    BY <2>1 DEF Idle, CallRecord
<1> HIDE DEF c
<1>3. InRead(c)
  BY <1>2, ZeroIsNoSlot DEF InRead
<1>4. \A x : Stage(backend, kind, started, c, x)
  BY <1>3 DEF Stage
<1>5. \A r \in Slots : Kept(r) /\ (Open(r) => SocketGood(backend, kind, sock'[r], r \in held))
  BY <1>1, Untouched
<1>6. call[t].s = 0 /\ sock' \in [Slots -> {NoSock} \union SocketRecord]
  BY <1>1, IdleSocket, SocketFacts
<1> QED
  BY <1>1, <1>2, <1>4, <1>5, <1>6, CallStep

\* A thread that reads.
LEMMA Reading ==
    ASSUME SocketInv, NEW t \in Thread, call[t].op = "read"
    PROVE  call[t].s = 0 /\ call[t].on \in held
<1>1. CallGood(t)
  BY SocketFacts
<1>2. InRead(call[t])
  BY <1>1 DEF CallGood, Stage, Idle, Acquiring, Creating, Accepting, Accepted, CreateOps, AcceptOps
<1> QED
  BY <1>1, <1>2 DEF InRead, CallGood

\* A field of a held socket that nothing else depends on.
LEMMA FlagSet ==
    ASSUME SocketInv, NEW s \in Slots, Open(s), NEW y, y \in SocketRecord, sock' = [sock EXCEPT ![s] = y],
           y.asked = sock[s].asked, y.name = sock[s].name, y.st = sock[s].st, y.queue = sock[s].queue,
           y.peer = sock[s].peer, y.timeo = sock[s].timeo, y.want = sock[s].want,
           y.inherit = sock[s].inherit
    PROVE  /\ sock' \in [Slots -> {NoSock} \union SocketRecord]
           /\ \A r \in Slots : Kept(r) /\ (Open(r) => SocketGood(backend, kind, sock'[r], r \in held))
<1>1. /\ sock' \in [Slots -> {NoSock} \union SocketRecord] /\ sock'[s] = y
      /\ \A r \in Slots : r # s => sock'[r] = sock[r]
  BY SocketFacts
<1>2. SocketGood(backend, kind, sock[s], s \in held)
  BY SocketFacts
<1>3. SocketGood(backend, kind, y, s \in held)
  BY <1>2, GoodAgain DEF SocketGood
<1>4. Kept(s)
  BY <1>1 DEF Kept
<1> QED
  BY <1>1, <1>3, <1>4, Untouched

LEMMA ReadDataKeeps ==
    ASSUME SocketInv, NEW t \in Thread, ReadData(t)
    PROVE  SocketInv'
<1> DEFINE s == call[t].on
           y == [sock[s] EXCEPT !.unread = FALSE]
<1>1. /\ call[t].op = "read" /\ call' = [call EXCEPT ![t] = Idle]
      /\ sock' = [sock EXCEPT ![s] = y] /\ UNCHANGED <<backend, kind, started, held, leaked>>
  BY DEF ReadData
<1>2. call[t].s = 0 /\ s \in held
  BY <1>1, Reading
<1>3. s \in Slots /\ Open(s) /\ sock[s] \in SocketRecord
  BY <1>2, SocketFacts
<1> HIDE DEF s
<1>4. /\ y \in SocketRecord
      /\ y.asked = sock[s].asked /\ y.name = sock[s].name /\ y.st = sock[s].st /\ y.queue = sock[s].queue
      /\ y.peer = sock[s].peer /\ y.timeo = sock[s].timeo /\ y.want = sock[s].want
      /\ y.inherit = sock[s].inherit
  BY <1>3 DEF SocketRecord
<1> HIDE DEF y
<1>5. /\ sock' \in [Slots -> {NoSock} \union SocketRecord]
      /\ \A r \in Slots : Kept(r) /\ (Open(r) => SocketGood(backend, kind, sock'[r], r \in held))
  BY <1>1, <1>3, <1>4, FlagSet
<1>6. \A x : Stage(backend, kind, started, Idle, x)
  BY DEF Stage
<1> QED
  BY <1>1, <1>2, <1>5, <1>6, IdleType, CallStep

LEMMA ReadNothingKeeps ==
    ASSUME SocketInv, NEW t \in Thread, ReadNothing(t)
    PROVE  SocketInv'
<1>1. call[t].op = "read" /\ \E cause : Fail(t, cause)
  BY DEF ReadNothing
<1>2. call[t].s = 0
  BY <1>1, Reading
<1> QED
  BY <1>1, <1>2, FailStep

\* No socket changes.
LEMMA LookKeeps ==
    ASSUME SocketInv, UNCHANGED <<backend, kind, started, sock, held, call, leaked>>
    PROVE  SocketInv'
<1>1. \A r \in Slots : Kept(r) /\ (Open(r) => SocketGood(backend, kind, sock'[r], r \in held))
  BY Untouched
<1> QED
  BY <1>1, SocketFacts, WorldStep

LEMMA FlagKeeps ==
    ASSUME SocketInv, NEW s \in Slots, Open(s), UNCHANGED <<backend, kind, started, held, call, leaked>>,
           NEW v \in BOOLEAN,
           \/ sock' = [sock EXCEPT ![s].unread = v]
           \/ sock' = [sock EXCEPT ![s].nonblock = v]
    PROVE  SocketInv'
<1>1. sock[s] \in SocketRecord
  BY SocketFacts
<1>2. PICK y : /\ y \in SocketRecord /\ sock' = [sock EXCEPT ![s] = y]
      /\ y.asked = sock[s].asked /\ y.name = sock[s].name /\ y.st = sock[s].st /\ y.queue = sock[s].queue
      /\ y.peer = sock[s].peer /\ y.timeo = sock[s].timeo /\ y.want = sock[s].want
      /\ y.inherit = sock[s].inherit
  <2>1. CASE sock' = [sock EXCEPT ![s].unread = v]
    <3> DEFINE y == [sock[s] EXCEPT !.unread = v]
    <3>1. /\ y \in SocketRecord /\ sock' = [sock EXCEPT ![s] = y]
          /\ y.asked = sock[s].asked /\ y.name = sock[s].name /\ y.st = sock[s].st
          /\ y.queue = sock[s].queue
          /\ y.peer = sock[s].peer /\ y.timeo = sock[s].timeo /\ y.want = sock[s].want
          /\ y.inherit = sock[s].inherit
      BY <1>1, <2>1 DEF SocketRecord
    <3> HIDE DEF y
    <3> QED
      BY <3>1
  <2>2. CASE sock' = [sock EXCEPT ![s].nonblock = v]
    <3> DEFINE y == [sock[s] EXCEPT !.nonblock = v]
    <3>1. /\ y \in SocketRecord /\ sock' = [sock EXCEPT ![s] = y]
          /\ y.asked = sock[s].asked /\ y.name = sock[s].name /\ y.st = sock[s].st
          /\ y.queue = sock[s].queue
          /\ y.peer = sock[s].peer /\ y.timeo = sock[s].timeo /\ y.want = sock[s].want
          /\ y.inherit = sock[s].inherit
      BY <1>1, <2>2 DEF SocketRecord
    <3> HIDE DEF y
    <3> QED
      BY <3>1
  <2> QED
    BY <2>1, <2>2
<1>3. /\ sock' \in [Slots -> {NoSock} \union SocketRecord]
      /\ \A r \in Slots : Kept(r) /\ (Open(r) => SocketGood(backend, kind, sock'[r], r \in held))
  BY <1>2, FlagSet
<1> QED
  BY <1>3, WorldStep

LEMMA TimeoutKeeps ==
    ASSUME SocketInv, NEW t \in Thread, NEW s \in Slots, NEW d \in Durations, set_read_timeout(t, s, d)
    PROVE  SocketInv'
<1>1. /\ s \in held /\ UNCHANGED <<backend, kind, started, held, call, leaked>>
      /\ UNCHANGED sock \/ sock' = [sock EXCEPT ![s].want = d, ![s].timeo = rcvtimeo(d)]
  BY DEF set_read_timeout, Usable, SetOption
<1>2. CASE UNCHANGED sock
  BY <1>1, <1>2, LookKeeps
<1>3. CASE sock' = [sock EXCEPT ![s].want = d, ![s].timeo = rcvtimeo(d)]
  <2> DEFINE m == TimeoutOn(backend, d)
             x == sock[s]
             y == [x EXCEPT !.want = d, !.timeo = m]
  <2>1. /\ x \in SocketRecord /\ SocketGood(backend, kind, x, s \in held)
    BY <1>1, SocketFacts
  <2>2. d \in Nat \union {-1}
    BY SocketConstants DEF SocketParameters
  <2>3. m \in Nat /\ rcvtimeo(d) = m
    BY <2>2, TimeoutBounds, SocketFacts, ConversionsOn
  <2>4. sock' = [sock EXCEPT ![s] = y]
    BY <1>3, <2>3, SocketFacts
  <2> HIDE DEF m, x
  <2>5. /\ y \in SocketRecord
        /\ y.asked = x.asked /\ y.name = x.name /\ y.st = x.st /\ y.queue = x.queue
        /\ y.peer = x.peer /\ y.timeo = m /\ y.want = d /\ y.inherit = x.inherit
    BY <2>1, <2>2, <2>3 DEF SocketRecord
  <2> HIDE DEF y
  <2>6. SocketGood(backend, kind, y, s \in held)
    <3>1. y.inherit => backend # "linux" /\ (backend = "bsd" => ~(s \in held))
      BY <2>1, <2>5 DEF SocketGood
    <3>2. AskedOf(kind, y.asked) /\ y.timeo = TimeoutOn(backend, y.want)
          /\ (kind = "udp" /\ s \in held => y.st = "bound")
      BY <2>1, <2>5 DEF SocketGood, m
    <3>3. y.st \in {"bound", "listening"} =>
            y.name = NameOn(backend, kind, y.asked) /\ (kind = "unix" => ~RefusedOn(backend, y.asked))
      BY <2>1, <2>5 DEF SocketGood
    <3>4. /\ kind = "udp" => \A i \in 1..Len(y.queue) :
                y.queue[i].from \in Inet /\ y.queue[i].name = NameOn(backend, kind, y.queue[i].from)
          /\ kind = "unix" => Fits(y.peer) /\ \A i \in 1..Len(y.queue) : Fits(y.queue[i].name)
      BY <2>1, <2>5 DEF SocketGood
    <3> QED
      BY <3>1, <3>2, <3>3, <3>4 DEF SocketGood
  <2>7. /\ sock' \in [Slots -> {NoSock} \union SocketRecord] /\ sock'[s] = y
        /\ \A r \in Slots : r # s => sock'[r] = sock[r]
    BY <2>4, <2>5, SocketFacts
  <2>8. Kept(s)
    BY <2>5, <2>7 DEF Kept, x
  <2>9. \A r \in Slots : Kept(r) /\ (Open(r) => SocketGood(backend, kind, sock'[r], r \in held))
    BY <2>6, <2>7, <2>8, Untouched
  <2> QED
    BY <1>1, <2>7, <2>9, WorldStep
<1> QED
  BY <1>1, <1>2, <1>3

\* What waits at sockets changes: each gets a queue that it may have.
LEMMA QueueKeeps ==
    ASSUME SocketInv, UNCHANGED <<backend, kind, started, held, call, leaked>>,
           sock' \in [Slots -> {NoSock} \union SocketRecord],
           \A r \in Slots : \/ sock'[r] = sock[r]
                            \/ Open(r) /\ \E q : GoodQueue(backend, kind, q) /\ sock'[r] = [sock[r] EXCEPT !.queue = q]
    PROVE  SocketInv'
<1>1. ASSUME NEW r \in Slots
      PROVE  Kept(r) /\ (Open(r) => SocketGood(backend, kind, sock'[r], r \in held))
  <2>1. CASE sock'[r] = sock[r]
    BY <2>1, Untouched
  <2>2. CASE Open(r) /\ \E q : GoodQueue(backend, kind, q) /\ sock'[r] = [sock[r] EXCEPT !.queue = q]
    <3>1. PICK q : GoodQueue(backend, kind, q) /\ sock'[r] = [sock[r] EXCEPT !.queue = q]
      BY <2>2
    <3>2. sock[r] \in SocketRecord /\ SocketGood(backend, kind, sock[r], r \in held)
      BY <2>2, SocketFacts
    <3> DEFINE y == [sock[r] EXCEPT !.queue = q]
    <3>3. /\ y \in SocketRecord /\ SocketGood(backend, kind, y, r \in held) /\ y.st = sock[r].st
          /\ y.asked = sock[r].asked /\ y.inherit = sock[r].inherit /\ y.peer = sock[r].peer
      BY <3>1, <3>2, QueueGood
    <3> HIDE DEF y
    <3>4. sock'[r] = y
      BY <3>1 DEF y
    <3> QED
      BY <3>3, <3>4 DEF Kept
  <2> QED
    BY <1>1, <2>1, <2>2
<1> QED
  BY <1>1, WorldStep

LEMMA EmptyQueue == ASSUME NEW b, NEW k PROVE GoodQueue(b, k, <<>>)
<1> DEFINE e == <<>>
<1>1. e \in Seq(Waiting) /\ Len(e) = 0
  OBVIOUS
<1> HIDE DEF e
<1>2. \A j \in 1..Len(e) : FALSE
  BY <1>1
<1>3. GoodQueue(b, k, e)
  BY <1>1, <1>2 DEF GoodQueue
<1> QED
  BY <1>3 DEF e

LEMMA OneQueue ==
    ASSUME NEW b, NEW k, NEW d \in Waiting, k = "unix" => Fits(d.name),
           k = "udp" => d.from \in Inet /\ d.name = NameOn(b, k, d.from)
    PROVE  GoodQueue(b, k, <<d>>)
<1>1. /\ <<d>> \in Seq(Waiting) /\ \A i \in 1..Len(<<d>>) : <<d>>[i] = d
  BY OneWaits
<1>2. k = "unix" => \A i \in 1..Len(<<d>>) : Fits(<<d>>[i].name)
  BY <1>1
<1>3. k = "udp" => \A i \in 1..Len(<<d>>) :
          <<d>>[i].from \in Inet /\ <<d>>[i].name = NameOn(b, k, <<d>>[i].from)
  BY <1>1
<1> QED
  BY <1>1, <1>2, <1>3 DEF GoodQueue

LEMMA StrangerKeeps ==
    ASSUME SocketInv, NEW l \in Slots, NEW name \in Names, StrangerConnects(l, name)
    PROVE  SocketInv'
<1> DEFINE d == [name |-> name]
           q == <<d>>
<1>1. /\ sock[l].st = "listening" /\ sock' = [sock EXCEPT ![l].queue = q]
      /\ UNCHANGED <<backend, kind, started, held, call, leaked>>
  BY DEF StrangerConnects
<1>2. Open(l) /\ sock[l] \in SocketRecord /\ SocketGood(backend, kind, sock[l], l \in held)
  BY <1>1, SocketFacts DEF Open
<1>3. kind # "udp"
  <2>1. \/ l \in held
        \/ \E t \in Thread : call[t].s = l
        \/ backend = "windows" /\ kind = "unix"
    BY <1>2 DEF SocketInv, NoSocketLeaks
  <2>2. l \in held /\ kind = "udp" => FALSE
    BY <1>1, <1>2 DEF SocketGood
  <2>3. ASSUME NEW t \in Thread, call[t].s = l, kind = "udp" PROVE FALSE
    <3>1. Stage(backend, kind, started, call[t], sock[l]) /\ l # 0
      BY <2>3, SocketFacts, ZeroIsNoSlot DEF CallGood
    <3>2. Creating(backend, kind, call[t], sock[l]) \/ Accepted(backend, kind, call[t], sock[l])
      BY <2>3, <3>1, IdleType DEF Stage, InRead, Acquiring, Accepting
    <3> QED
      BY <1>1, <3>2 DEF Creating, Accepted
  <2> QED
    BY <2>1, <2>2, <2>3
<1>4. Fits(name) /\ name \in Seq(Nat)
  BY SocketConstants DEF SocketParameters, Fits
<1>5. d \in Waiting /\ d.name = name
  BY <1>4 DEF Waiting, SockName
<1> HIDE DEF d
<1>6. GoodQueue(backend, kind, q)
  BY <1>3, <1>4, <1>5, OneQueue
<1> HIDE DEF q
<1>7. q \in Seq(Waiting)
  BY <1>6 DEF GoodQueue
<1>8. [sock[l] EXCEPT !.queue = q] \in SocketRecord
  BY <1>2, <1>7 DEF SocketRecord
<1>9. sock' \in [Slots -> {NoSock} \union SocketRecord]
  BY <1>1, <1>8, SocketFacts
<1>10. \A r \in Slots : \/ sock'[r] = sock[r]
                        \/ r = l /\ sock'[r] = [sock[r] EXCEPT !.queue = q]
  BY <1>1, SocketFacts
<1> QED
  BY <1>1, <1>2, <1>6, <1>9, <1>10, QueueKeeps

LEMMA ReceiveKeeps ==
    ASSUME SocketInv, NEW t \in Thread, NEW s \in Slots, udp_recv_from(t, s)
    PROVE  SocketInv'
<1> DEFINE q == <<>>
<1>1. /\ s \in held /\ sock' = [sock EXCEPT ![s].queue = q]
      /\ UNCHANGED <<backend, kind, started, held, call, leaked>>
  BY DEF udp_recv_from, Usable
<1>2. Open(s) /\ sock[s] \in SocketRecord
  BY <1>1, SocketFacts
<1>3. GoodQueue(backend, kind, q)
  BY EmptyQueue
<1> HIDE DEF q
<1>4. q \in Seq(Waiting)
  BY <1>3 DEF GoodQueue
<1>5. [sock[s] EXCEPT !.queue = q] \in SocketRecord
  BY <1>2, <1>4 DEF SocketRecord
<1>6. sock' \in [Slots -> {NoSock} \union SocketRecord]
  BY <1>1, <1>5, SocketFacts
<1>7. \A r \in Slots : \/ sock'[r] = sock[r]
                       \/ r = s /\ sock'[r] = [sock[r] EXCEPT !.queue = q]
  BY <1>1, SocketFacts
<1> QED
  BY <1>1, <1>2, <1>3, <1>6, <1>7, QueueKeeps

LEMMA SendKeeps ==
    ASSUME SocketInv, NEW t \in Thread, NEW s \in Slots, NEW a \in Inet, NEW m \in Datagrams,
           udp_send_to(t, s, a, m)
    PROVE  SocketInv'
<1> DEFINE d == [name |-> sock[s].name, from |-> sock[s].asked, len |-> m]
           q == <<d>>
           for(r) == sock[r].st = "bound" /\ sock[r].name = sendto(a) /\ sock[r].queue = <<>>
<1>1. /\ s \in held /\ kind = "udp"
      /\ sock' = [r \in Slots |-> IF for(r) THEN [sock[r] EXCEPT !.queue = q] ELSE sock[r]]
      /\ UNCHANGED <<backend, kind, started, held, call, leaked>>
  BY DEF udp_send_to, Usable
<1>2. /\ Open(s) /\ sock[s] \in SocketRecord /\ SocketGood(backend, kind, sock[s], TRUE)
  <2>1. (s \in held) = TRUE
    BY <1>1
  <2> QED
    BY <1>1, <2>1, SocketFacts
<1>3. /\ sock[s].asked \in Inet /\ sock[s].name = NameOn(backend, kind, sock[s].asked)
      /\ sock[s].name \in SockName
  <2>1. sock[s].st = "bound" /\ AskedOf(kind, sock[s].asked)
    BY <1>1, <1>2 DEF SocketGood
  <2>2. sock[s].name = NameOn(backend, kind, sock[s].asked)
    BY <1>2, <2>1 DEF SocketGood
  <2> QED
    BY <1>1, <1>2, <2>1, <2>2, AskedIsAsked, SocketFields
<1>4. m \in Nat
  BY SocketConstants DEF SocketParameters
<1>5. d \in Waiting /\ d.name = sock[s].name /\ d.from = sock[s].asked
  <2>1. d \in [name : SockName, from : Asked, len : Nat]
    BY <1>3, <1>4 DEF Asked
  <2> QED
    BY <2>1 DEF Waiting
<1> HIDE DEF d, for
<1>6. GoodQueue(backend, kind, q)
  BY <1>1, <1>3, <1>5, OneQueue
<1> HIDE DEF q
<1>7. q \in Seq(Waiting)
  BY <1>6 DEF GoodQueue
<1>8. ASSUME NEW r \in Slots, for(r)
      PROVE  Open(r) /\ [sock[r] EXCEPT !.queue = q] \in SocketRecord
  <2>1. Open(r) /\ sock[r] \in SocketRecord
    BY <1>8, SocketFacts DEF for, Open
  <2> QED
    BY <1>7, <2>1 DEF SocketRecord
<1>9. sock' \in [Slots -> {NoSock} \union SocketRecord]
  BY <1>1, <1>8, SocketFacts
<1>10. \A r \in Slots : \/ sock'[r] = sock[r]
                        \/ Open(r) /\ sock'[r] = [sock[r] EXCEPT !.queue = q]
  BY <1>1, <1>8
<1> QED
  BY <1>1, <1>6, <1>9, <1>10, QueueKeeps

LEMMA DropKeeps ==
    ASSUME SocketInv, NEW s \in Slots, drop(s)
    PROVE  SocketInv'
<1>1. /\ s \in held /\ (\A u \in Thread : call[u].on # s) /\ held' = held \ {s}
      /\ sock' = [sock EXCEPT ![s] = NoSock] /\ UNCHANGED <<backend, kind, started, call, leaked>>
  BY DEF drop
<1>2. /\ sock'[s] = NoSock /\ sock'[s].st = "none" /\ (\A r \in Slots : r # s => sock'[r] = sock[r])
      /\ sock' \in [Slots -> {NoSock} \union SocketRecord]
  BY <1>1, SocketFacts DEF NoSock
<1>3. PICK t : t \notin Thread
  BY NoSetContainsEverything
<1>4. TypesNext
  BY <1>1, <1>2, SocketFacts DEF TypesNext
<1>5. ASSUME NEW u \in Thread, call[u].s # 0 PROVE Kept(call[u].s) /\ call[u].s \notin held'
  <2>1. call[u].s \notin held /\ call[u].s \in Slots
    <3>1. CallGood(u) /\ call[u] \in CallRecord
      BY SocketFacts
    <3> QED
      BY <1>5, <3>1 DEF CallGood, CallRecord
  <2> QED
    BY <1>1, <1>2, <2>1 DEF Kept
<1>6. ASSUME NEW u \in Thread, call[u].on # 0 PROVE call[u].on \in held'
  BY <1>1, <1>6, SocketFacts DEF CallGood
<1>7. ASSUME NEW r \in Slots, sock'[r].st # "none" PROVE GoodNext(r) /\ OwnedNext(r)
  <2>1. r # s /\ sock'[r] = sock[r] /\ Open(r) /\ (r \in held') = (r \in held)
    BY <1>1, <1>2, <1>7 DEF Open
  <2>2. SocketGood(backend, kind, sock[r], r \in held) /\ (PosixBackend(backend) \/ started)
    BY <2>1, SocketFacts
  <2>3. GoodNext(r)
    BY <1>1, <2>1, <2>2 DEF GoodNext
  <2>4. \/ r \in held \/ \E u \in Thread : call[u].s = r
        \/ backend = "windows" /\ kind = "unix" /\ 2 \in Bytes(sock[r].peer)
    BY <2>1 DEF SocketInv, NoSocketLeaks
  <2> QED
    BY <1>1, <2>1, <2>3, <2>4 DEF OwnedNext
<1>8. \A r \in held' : sock'[r].st # "none"
  BY <1>1, <1>2, SocketFacts DEF Open
<1> QED
  BY <1>1, <1>3, <1>4, <1>5, <1>6, <1>7, <1>8, SocketStep

LEMMA SpawnKeeps ==
    ASSUME SocketInv, Spawn
    PROVE  SocketInv'
<1> DEFINE new == {IF s \in held THEN "held" ELSE "creating" : s \in {r \in Slots : Open(r) /\ sock[r].inherit}}
<1>1. leaked' = leaked \union new /\ UNCHANGED <<backend, kind, started, sock, held, call>>
  BY DEF Spawn
<1>2. new \subseteq {"held", "creating"}
  OBVIOUS
<1>3. \A r \in Slots : Open(r) /\ sock[r].inherit =>
          backend # "linux" /\ (backend = "bsd" => r \notin held)
  BY SocketFacts DEF SocketGood
<1>4. SocketsStayHome'
  BY <1>1, <1>3 DEF SocketInv, SocketsStayHome
<1>5. SocketTypes'
  BY <1>1, <1>2 DEF SocketInv, SocketTypes
<1>6. CallsAreStaged' /\ OneCallEach' /\ SocketsAreGood' /\ NoSocketLeaks'
  BY <1>1 DEF SocketInv, CallsAreStaged, CallGood, OneCallEach, SocketsAreGood, NoSocketLeaks, Open
<1> QED
  BY <1>4, <1>5, <1>6 DEF SocketInv

LEMMA SocketInit ==
    ASSUME Init
    PROVE  SocketInv
<1>1. \A s \in Slots : ~Open(s)
  BY DEF Init, Open, NoSock
<1>2. \A t \in Thread : call[t] = Idle /\ call[t].s = 0 /\ call[t].on = 0
  BY IdleType DEF Init
<1>3. SocketTypes
  BY IdleType DEF Init, SocketTypes
<1>4. CallsAreStaged
  BY <1>2 DEF CallsAreStaged, CallGood, Stage
<1> QED
  BY <1>1, <1>2, <1>3, <1>4 DEF Init, SocketInv, OneCallEach, SocketsAreGood, NoSocketLeaks, SocketsStayHome

LEMMA SocketNext ==
    ASSUME SocketInv, [Next]_vars
    PROVE  SocketInv'
<1>1. CASE UNCHANGED vars
  BY <1>1, LookKeeps DEF vars
<1>2. ASSUME NEW t \in Thread, NEW op \in {"tcp_connect", "tcp_listen"}, NEW a \in Inet, kind = "tcp", Begin(t, op, a)
      PROVE  SocketInv'
  BY <1>2, BeginKeeps DEF Makes, AskedOf
<1>3. ASSUME NEW t \in Thread, NEW a \in Inet, kind = "udp", Begin(t, "udp_bind", a)
      PROVE  SocketInv'
  BY <1>3, BeginKeeps DEF Makes, AskedOf
<1>4. ASSUME NEW t \in Thread, NEW op \in {"unix_connect", "unix_listen"}, NEW p \in Paths, kind = "unix", Begin(t, op, p)
      PROVE  SocketInv'
  BY <1>4, BeginKeeps DEF Makes, AskedOf
<1>5. ASSUME NEW t \in Thread, Step(t) PROVE SocketInv'
  BY <1>5, StartupKeeps, SocketKeeps, SetKeeps, PackKeeps, BindKeeps, ListenKeeps, ConnectKeeps, AcceptKeeps,
     OwnKeeps, UnpackKeeps DEF Step
<1>6. ASSUME NEW t \in Thread, ReadData(t) \/ ReadNothing(t) PROVE SocketInv'
  BY <1>6, ReadDataKeeps, ReadNothingKeeps
<1>7. ASSUME NEW t \in Thread, NEW s \in Slots, BeginAccept(t, s) \/ BeginRead(t, s) PROVE SocketInv'
  BY <1>7, BeginAcceptKeeps, BeginReadKeeps
<1>8. ASSUME NEW t \in Thread, NEW s \in Slots, local_addr(t, s) \/ unix_peer_addr(t, s) PROVE SocketInv'
  BY <1>8, LookKeeps DEF local_addr, unix_peer_addr
<1>9. ASSUME NEW t \in Thread, NEW s \in Slots, udp_recv_from(t, s) PROVE SocketInv'
  BY <1>9, ReceiveKeeps
<1>10. ASSUME NEW t \in Thread, NEW s \in Slots, NEW d \in Durations, set_read_timeout(t, s, d) PROVE SocketInv'
  BY <1>10, TimeoutKeeps
<1>11. ASSUME NEW t \in Thread, NEW s \in Slots, NEW on \in BOOLEAN, set_nonblocking(t, s, on) PROVE SocketInv'
  <2>1. /\ s \in held /\ UNCHANGED <<backend, kind, started, held, call, leaked>>
        /\ UNCHANGED sock \/ sock' = [sock EXCEPT ![s].nonblock = on]
    BY <1>11 DEF set_nonblocking, Usable, SetOption
  <2>2. Open(s)
    BY <2>1, SocketFacts
  <2> QED
    BY <2>1, <2>2, LookKeeps, FlagKeeps
<1>12. ASSUME NEW t \in Thread, NEW s \in Slots, NEW a \in Inet, NEW n \in Datagrams, udp_send_to(t, s, a, n)
       PROVE  SocketInv'
  BY <1>12, SendKeeps
<1>13. ASSUME NEW s \in Slots, drop(s) PROVE SocketInv'
  BY <1>13, DropKeeps
<1>14. ASSUME NEW s \in Slots, PeerWrites(s) PROVE SocketInv'
  <2>1. /\ sock[s].st = "connected" /\ UNCHANGED <<backend, kind, started, held, call, leaked>>
        /\ sock' = [sock EXCEPT ![s].unread = TRUE]
    BY <1>14 DEF PeerWrites
  <2>2. Open(s) /\ TRUE \in BOOLEAN
    BY <2>1 DEF Open
  <2> QED
    BY <2>1, <2>2, FlagKeeps
<1>15. ASSUME NEW s \in Slots, NEW n \in Names, StrangerConnects(s, n) PROVE SocketInv'
  BY <1>15, StrangerKeeps
<1>16. CASE Spawn
  BY <1>16, SpawnKeeps
<1> QED
  BY <1>1, <1>2, <1>3, <1>4, <1>5, <1>6, <1>7, <1>8, <1>9, <1>10, <1>11, <1>12, <1>13, <1>14, <1>15, <1>16 DEF Next

-----------------------------------------------------------------------------
(* What operations return                                                  *)

\* The kind that a condition has on backend b.
HonestKind(b, kd, cause) ==
    /\ cause = "inuse" => kd = "AddrInUse"
    /\ cause = "refused" => kd = "ConnectionRefused"
    /\ cause = "badpath" => kd = "InvalidInput"
    /\ cause = "denied" => kd = "PermissionDenied"
    /\ cause = "mode" => kd = IF b = "trackw" THEN "Other" ELSE "PermissionDenied"
    /\ cause \in {"again", "expired"} => kd \in {"WouldBlock", "TimedOut"}

\* A result that says what it should on backend b.
HonestResult(b, r) ==
    /\ HonestKind(b, r.kind, r.cause)
    /\ r.kind \in {"local_addr", "peer_addr", "recv_from"} =>
          \/ r.got = r.want
          \/ ~PosixBackend(b) /\ 0 \in Bytes(r.want) /\ r.got = CString(r.want)

LEMMA HonestIsGood ==
    ASSUME backend \in {"linux", "bsd", "windows", "trackw"}
    PROVE  ResultGood <=> HonestResult(backend, result)
<1>1. Windows <=> ~PosixBackend(backend)
  BY ConversionsOn
<1> QED
  BY <1>1 DEF ResultGood, AddressesAreFaithful, KindsAreHonest, HonestResult, HonestKind

ErrorResult(kd, cause) == [NoResult EXCEPT !.kind = kd, !.cause = cause]

LEMMA ErrorsAreHonest ==
    ASSUME NEW b, NEW kd, NEW cause, HonestKind(b, kd, cause)
    PROVE  HonestResult(b, ErrorResult(kd, cause))
<1>1. LET r == ErrorResult(kd, cause) IN r.kind = kd /\ r.cause = cause /\ r.got = r.want
  BY DEF ErrorResult, NoResult
<1> QED
  BY <1>1 DEF HonestResult

LEMMA PlainAreHonest ==
    ASSUME NEW b
    PROVE  /\ HonestResult(b, NoResult)
           /\ HonestResult(b, [NoResult EXCEPT !.kind = "Ok"])
  BY DEF HonestResult, HonestKind, NoResult

\* The table that an operation's code goes through, and what it says.
Table(op) ==
    LET stream == op \in {"read", "set_nonblocking", "set_read_timeout"}
    IN CASE backend = "linux" -> IF stream THEN LinuxTcpStream[op] ELSE linux_kind_of
         [] backend = "bsd" -> IF stream THEN BsdTcpStream[op] ELSE bsd_kind_of
         [] OTHER -> IF stream THEN WindowsTcpStream[op] ELSE wsa_kind

LEMMA KindIsLookedUp ==
    ASSUME NEW op, NEW cause
    PROVE  Kind(op, cause) = IF cause = "badpath" THEN "InvalidInput"
                             ELSE IF cause \in DOMAIN Table(op) THEN Table(op)[cause] ELSE "Other"
  BY DEF Kind, Table

LEMMA TablesSay ==
    /\ \A T \in {linux_kind_of, bsd_kind_of, wsa_kind} :
          /\ "refused" \in DOMAIN T /\ T["refused"] = "ConnectionRefused"
          /\ "inuse" \in DOMAIN T /\ T["inuse"] = "AddrInUse"
          /\ "denied" \in DOMAIN T /\ T["denied"] = "PermissionDenied"
          /\ "again" \in DOMAIN T /\ T["again"] = "WouldBlock"
    /\ "denied" \in DOMAIN trackw_err /\ trackw_err["denied"] = "Other"
    /\ "again" \in DOMAIN linux_fdio_kind_of /\ linux_fdio_kind_of["again"] = "WouldBlock"
    /\ "again" \in DOMAIN bsd_os_err /\ bsd_os_err["again"] = "WouldBlock"
    /\ "expired" \in DOMAIN wsa_kind /\ wsa_kind["expired"] = "TimedOut"
  BY DEF linux_kind_of, bsd_kind_of, wsa_kind, trackw_err, linux_fdio_kind_of, bsd_os_err

LEMMA ScriptKinds ==
    ASSUME backend \in {"linux", "bsd", "windows", "trackw"}, NEW op \in CreateOps \union AcceptOps,
           NEW cause, cause \notin {"again", "expired", "mode"}
    PROVE  HonestKind(backend, Kind(op, cause), cause)
<1>1. Table(op) \in {linux_kind_of, bsd_kind_of, wsa_kind}
  BY DEF Table, CreateOps, AcceptOps
<1>2. cause \in {"refused", "inuse", "denied"} => cause \in DOMAIN Table(op) /\ Kind(op, cause) = Table(op)[cause]
  BY <1>1, TablesSay, KindIsLookedUp
<1>3. cause = "badpath" => Kind(op, cause) = "InvalidInput"
  BY KindIsLookedUp
<1> QED
  BY <1>1, <1>2, <1>3, TablesSay DEF HonestKind

LEMMA StreamKinds ==
    ASSUME backend \in {"linux", "bsd", "windows", "trackw"}
    PROVE  /\ HonestKind(backend, Kind("read", "again"), "again")
           /\ Windows => HonestKind(backend, Kind("read", "expired"), "expired")
           /\ HonestKind(backend, Kind("set_read_timeout", "denied"), "denied")
           /\ HonestKind(backend, Kind("set_nonblocking", "denied"), "mode")
<1>1. /\ Table("read") \in {linux_fdio_kind_of, bsd_os_err, wsa_kind}
      /\ Windows => Table("read") = wsa_kind
  BY DEF Table, LinuxTcpStream, BsdTcpStream, WindowsTcpStream, linux_read, bsd_read, raw_recv, Windows
<1>2. IF backend = "trackw" THEN Table("set_nonblocking") = trackw_err
      ELSE Table("set_nonblocking") \in {linux_kind_of, bsd_kind_of, wsa_kind}
  BY DEF Table, LinuxTcpStream, BsdTcpStream, WindowsTcpStream, linux_set_nonblocking, bsd_set_nonblocking,
         windows_set_nonblocking
<1>3. /\ Table("set_read_timeout") \in {linux_kind_of, bsd_kind_of, wsa_kind}
  BY DEF Table, LinuxTcpStream, BsdTcpStream, WindowsTcpStream, set_sockopt
<1>4. Kind("read", "again") = "WouldBlock"
  BY <1>1, TablesSay, KindIsLookedUp
<1>5. Windows => Kind("read", "expired") = "TimedOut"
  BY <1>1, TablesSay, KindIsLookedUp
<1>6. /\ Kind("set_read_timeout", "denied") = "PermissionDenied"
      /\ Kind("set_nonblocking", "denied") = IF backend = "trackw" THEN "Other" ELSE "PermissionDenied"
  BY <1>2, <1>3, TablesSay, KindIsLookedUp
<1> QED
  BY <1>4, <1>5, <1>6 DEF HonestKind

LEMMA ScriptOps ==
    ASSUME SocketInv, NEW t \in Thread, call[t].todo # <<>>
    PROVE  call[t].op \in CreateOps \union AcceptOps
<1>1. Stage(backend, kind, started, call[t], sock[call[t].s])
  BY SocketFacts DEF CallGood
<1> QED
  BY <1>1 DEF Stage, Idle, InRead, Acquiring, Creating, Accepting, Accepted

\* A port survives its way through a sockaddr.
LEMMA InetRoundTrip ==
    ASSUME backend \in {"linux", "bsd", "windows", "trackw"}, NEW k, k # "unix", NEW a \in Inet
    PROVE  from_sockaddr(NameOn(backend, k, a)) = a
<1>1. a \in [family : {4, 6}, port : 0..3]
  BY SocketConstants DEF SocketParameters
<1>2. from_be(to_be(a.port)) = a.port
  <2>1. CASE a.port = 0
    BY <2>1 DEF from_be, to_be
  <2>2. CASE a.port = 1
    BY <2>2 DEF from_be, to_be
  <2>3. CASE a.port = 2
    BY <2>3 DEF from_be, to_be
  <2>4. CASE a.port = 3
    BY <2>4 DEF from_be, to_be
  <2> QED
    BY <1>1, <2>1, <2>2, <2>3, <2>4
<1>3. /\ NameOn(backend, k, a).family = a.family /\ NameOn(backend, k, a).port = to_be(a.port)
  BY DEF NameOn
<1>4. \A s : from_sockaddr(s) = [family |-> s.family, port |-> from_be(s.port)]
  BY DEF from_sockaddr, linux_addr, linux_from_sockaddr, bsd_addr, bsd_from_sockaddr, raw_sock_addr,
         windows_from_sockaddr, from_donor_addr, sockaddr_to_donor
<1>5. a = [family |-> a.family, port |-> a.port]
  BY <1>1
<1> QED
  BY <1>2, <1>3, <1>4, <1>5

\* A path that was bound is reported as it was, up to a NUL that only Windows
\* lets through.
LEMMA BoundPathReported ==
    ASSUME backend \in {"linux", "bsd", "windows", "trackw"}, NEW p \in Seq(Nat), ~RefusedOn(backend, p),
           NEW r \in Reported(CString(p))
    PROVE  \/ unix_addr(r, FALSE) = p
           \/ ~PosixBackend(backend) /\ 0 \in Bytes(p) /\ unix_addr(r, FALSE) = CString(p)
<1> DEFINE n == CString(p)
<1>1. Fits(n)
  BY AcceptedPathFits
<1>2. /\ backend = "linux" => from_sockaddr_unPop(r) = n
      /\ CString(SunBytes(r)) = n
  BY <1>1, ReportedIsRead
<1>3. Bytes(n) \subseteq Bytes(p) /\ (0 \notin Bytes(p) => n = p)
  BY CStringFacts
<1> HIDE DEF n
<1>4. PosixBackend(backend) => 0 \notin Bytes(p)
  BY DEF RefusedOn, linux_refuses_un
<1>5. ~PosixBackend(backend) => 2 \notin Bytes(n)
  BY <1>3 DEF RefusedOn, windows_refuses_un
<1>6. unix_addr(r, FALSE) = n
  <2>1. CASE backend = "linux"
    BY <1>2, <2>1 DEF unix_addr, linux_unix_addr, linux_from_sockaddr_un, Windows
  <2>2. CASE backend = "bsd"
    BY <1>2, <2>2 DEF unix_addr, bsd_unix_addr, bsd_from_sockaddr_un, Windows
  <2>3. CASE backend = "windows"
    BY <1>2, <2>3 DEF unix_addr, raw_local_addr_unix, windows_from_sockaddr_un, Windows
  <2>4. CASE backend = "trackw"
    <3>1. unix_addr(r, FALSE) = from_donor_unix_addr(r)
      BY <2>4 DEF unix_addr, raw_local_addr_unix, Windows
    <3>2. ~Unreadable(n)
      BY <1>5, <2>4 DEF Unreadable, PosixBackend
    <3> QED
      BY <1>2, <3>1, <3>2 DEF from_donor_unix_addr
  <2> QED
    BY <2>1, <2>2, <2>3, <2>4
<1> QED
  BY <1>3, <1>4, <1>6 DEF n

LEMMA PeerReported ==
    ASSUME backend \in {"linux", "bsd", "windows", "trackw"}, NEW n, Fits(n), NEW r \in Reported(n)
    PROVE  unix_addr(r, TRUE) = n
<1>1. /\ backend = "linux" => from_sockaddr_unPop(r) = n
      /\ CString(SunBytes(r)) = n
  BY ReportedIsRead
<1>2. CASE backend = "linux"
  BY <1>1, <1>2 DEF unix_addr, linux_unix_addr, linux_from_sockaddr_un, Windows
<1>3. CASE backend = "bsd"
  BY <1>1, <1>3 DEF unix_addr, bsd_unix_addr, bsd_from_sockaddr_un, Windows
<1>4. CASE backend \in {"windows", "trackw"}
  BY <1>1, <1>4 DEF unix_addr, windows_unix_peer_addr, windows_from_sockaddr_un, Windows
<1> QED
  BY <1>2, <1>3, <1>4

LEMMA AdvanceResult ==
    ASSUME NEW t, NEW s, NEW o, Advance(t, s, o), HonestResult(backend, result)
    PROVE  HonestResult(backend, result')
<1>1. result' = result \/ result' = [NoResult EXCEPT !.kind = "Ok"]
  BY DEF Advance
<1> QED
  BY <1>1, PlainAreHonest

LEMMA FailResult ==
    ASSUME NEW t, NEW cause, Fail(t, cause), HonestKind(backend, Kind(call[t].op, cause), cause)
    PROVE  HonestResult(backend, result')
<1>1. result' = ErrorResult(Kind(call[t].op, cause), cause)
  BY DEF Fail, ErrorResult
<1> QED
  BY <1>1, ErrorsAreHonest

LEMMA StepResult ==
    ASSUME SocketInv, NEW t \in Thread, Step(t), HonestResult(backend, result)
    PROVE  HonestResult(backend, result')
<1>1. call[t].todo # <<>>
  BY DEF Step, Startup, Socket, Set, Pack, Bind, Listen, Connect, Accept, Own, Unpack, AtCall
<1>2. \/ \E s, o : Advance(t, s, o)
      \/ \E cause : Fail(t, cause) /\ cause \notin {"again", "expired", "mode"}
  <2> DEFINE Goes == \E s, o : Advance(t, s, o)
             Fails == \E cause : Fail(t, cause) /\ cause \notin {"again", "expired", "mode"}
  <2>1. Startup(t) \/ Own(t) => Goes
    BY DEF Startup, Own
  <2>2. Socket(t) \/ Set(t) \/ Pack(t) => Goes \/ Fails
    <3>1. \A s, o : Advance(t, s, o) => Goes
      OBVIOUS
    <3>2. \A cause \in {"nofd", "denied", "badpath"} : Fail(t, cause) => Fails
      OBVIOUS
    <3> HIDE DEF Goes, Fails
    <3> QED
      BY <3>1, <3>2 DEF Socket, Set, Pack
  <2>3. Bind(t) => Goes \/ Fails
    <3>1. \A s, o : Advance(t, s, o) => Goes
      OBVIOUS
    <3>2. \A cause \in {"inuse", "denied"} : Fail(t, cause) => Fails
      OBVIOUS
    <3> HIDE DEF Goes, Fails
    <3>3. Bind(t) => (\E s : Advance(t, s, TRUE)) \/ Fail(t, "inuse") \/ Fail(t, "denied")
      <4>1. CASE Taken(call[t].s)
        BY <4>1 DEF Bind
      <4>2. CASE ~Taken(call[t].s)
        BY <4>2 DEF Bind
      <4> QED
        BY <4>1, <4>2
    <3> QED
      BY <3>1, <3>2, <3>3
  <2>4. Listen(t) \/ Connect(t) \/ Accept(t) \/ Unpack(t) => Goes \/ Fails
    <3>1. \A s, o : Advance(t, s, o) => Goes
      OBVIOUS
    <3>2. \A cause \in {"denied", "refused", "missing", "reset", "unreadable"} : Fail(t, cause) => Fails
      OBVIOUS
    <3> HIDE DEF Goes, Fails
    <3> QED
      BY <3>1, <3>2 DEF Listen, Connect, Accept, Unpack
  <2> QED
    BY <2>1, <2>2, <2>3, <2>4 DEF Step
<1>3. CASE \E s, o : Advance(t, s, o)
  BY <1>3, AdvanceResult
<1>4. CASE \E cause : Fail(t, cause) /\ cause \notin {"again", "expired", "mode"}
  <2>1. PICK cause : Fail(t, cause) /\ cause \notin {"again", "expired", "mode"}
    BY <1>4
  <2>2. call[t].op \in CreateOps \union AcceptOps /\ backend \in {"linux", "bsd", "windows", "trackw"}
    BY <1>1, ScriptOps, SocketFacts
  <2>3. HonestKind(backend, Kind(call[t].op, cause), cause)
    BY <2>1, <2>2, ScriptKinds
  <2> QED
    BY <2>1, <2>3, FailResult
<1> QED
  BY <1>2, <1>3, <1>4

LEMMA ReadResult ==
    ASSUME SocketInv, NEW t \in Thread, ReadData(t) \/ ReadNothing(t)
    PROVE  HonestResult(backend, result')
<1>1. CASE ReadData(t)
  BY <1>1, PlainAreHonest DEF ReadData
<1>2. CASE ReadNothing(t)
  <2>1. call[t].op = "read" /\ (Fail(t, "again") \/ (Windows /\ Fail(t, "expired")))
    BY <1>2 DEF ReadNothing
  <2>2. /\ HonestKind(backend, Kind("read", "again"), "again")
        /\ Windows => HonestKind(backend, Kind("read", "expired"), "expired")
    BY SocketFacts, StreamKinds
  <2> QED
    BY <2>1, <2>2, FailResult
<1> QED
  BY <1>1, <1>2

LEMMA LocalAddrResult ==
    ASSUME SocketInv, NEW t \in Thread, NEW s \in Slots, local_addr(t, s)
    PROVE  HonestResult(backend, result')
<1> DEFINE x == sock[s]
<1>1. PICK r \in IF kind = "unix" THEN Reported(x.name) ELSE {x.name} :
         result' = [kind |-> "local_addr", cause |-> "none", want |-> x.asked,
                    got |-> IF kind = "unix" THEN unix_addr(r, FALSE) ELSE from_sockaddr(r)]
  BY DEF local_addr
<1>2. /\ s \in held /\ x.st \in {"bound", "listening"}
  BY DEF local_addr, Usable
<1>3. /\ SocketGood(backend, kind, x, s \in held) /\ backend \in {"linux", "bsd", "windows", "trackw"}
  BY <1>2, SocketFacts
<1> HIDE DEF x
<1>4. /\ x.name = NameOn(backend, kind, x.asked) /\ (kind = "unix" => ~RefusedOn(backend, x.asked))
      /\ AskedOf(kind, x.asked)
  BY <1>2, <1>3 DEF SocketGood
<1>5. /\ result'.kind = "local_addr" /\ result'.cause = "none" /\ result'.want = x.asked
      /\ result'.got = IF kind = "unix" THEN unix_addr(r, FALSE) ELSE from_sockaddr(r)
  BY <1>1
<1>6. \/ result'.got = x.asked
      \/ ~PosixBackend(backend) /\ 0 \in Bytes(x.asked) /\ result'.got = CString(x.asked)
  <2>1. CASE kind = "unix"
    <3>1. r \in Reported(CString(x.asked)) /\ x.asked \in Seq(Nat)
      BY <1>4, <2>1, AskedIsAsked DEF NameOn
    <3>2. \/ unix_addr(r, FALSE) = x.asked
          \/ ~PosixBackend(backend) /\ 0 \in Bytes(x.asked) /\ unix_addr(r, FALSE) = CString(x.asked)
      BY <1>3, <1>4, <2>1, <3>1, BoundPathReported
    <3> QED
      BY <1>5, <2>1, <3>2
  <2>2. CASE kind # "unix"
    <3>1. r = NameOn(backend, kind, x.asked) /\ x.asked \in Inet
      BY <1>4, <2>2, AskedIsAsked
    <3>2. from_sockaddr(r) = x.asked
      BY <1>3, <2>2, <3>1, InetRoundTrip
    <3> QED
      BY <1>5, <2>2, <3>2
  <2> QED
    BY <2>1, <2>2
<1> QED
  BY <1>5, <1>6 DEF HonestResult, HonestKind

LEMMA PeerAddrResult ==
    ASSUME SocketInv, NEW t \in Thread, NEW s \in Slots, unix_peer_addr(t, s)
    PROVE  HonestResult(backend, result')
<1> DEFINE n == sock[s].peer
<1>1. PICK r \in Reported(n) :
         result' = IF Unreadable(n) THEN [NoResult EXCEPT !.kind = "Other", !.cause = "unreadable"]
                   ELSE [kind |-> "peer_addr", cause |-> "none", got |-> unix_addr(r, TRUE), want |-> n]
  BY DEF unix_peer_addr
<1>2. s \in held /\ kind = "unix"
  BY DEF unix_peer_addr, Usable
<1>3. Fits(n) /\ backend \in {"linux", "bsd", "windows", "trackw"}
  BY <1>2, SocketFacts DEF SocketGood
<1> HIDE DEF n
<1>4. CASE Unreadable(n)
  <2>1. result' = ErrorResult("Other", "unreadable")
    BY <1>1, <1>4 DEF ErrorResult
  <2>2. HonestKind(backend, "Other", "unreadable")
    BY DEF HonestKind
  <2> QED
    BY <2>1, <2>2, ErrorsAreHonest
<1>5. CASE ~Unreadable(n)
  <2>1. unix_addr(r, TRUE) = n
    BY <1>3, PeerReported
  <2>2. result'.cause = "none" /\ result'.got = result'.want
    BY <1>1, <1>5, <2>1
  <2> QED
    BY <2>2 DEF HonestResult, HonestKind
<1> QED
  BY <1>4, <1>5

LEMMA ReceiveResult ==
    ASSUME SocketInv, NEW t \in Thread, NEW s \in Slots, udp_recv_from(t, s)
    PROVE  HonestResult(backend, result')
<1> DEFINE g == sock[s].queue
           d == g[1]
<1>1. /\ s \in held /\ kind = "udp" /\ g # <<>>
      /\ result'.cause = "none" /\ result'.got = from_sockaddr(d.name) /\ result'.want = d.from
  BY DEF udp_recv_from, Usable, NoResult
<1>2. /\ sock[s] \in SocketRecord /\ SocketGood(backend, kind, sock[s], s \in held)
      /\ backend \in {"linux", "bsd", "windows", "trackw"}
  BY <1>1, SocketFacts
<1>3. g \in Seq(Waiting) /\ \A i \in 1..Len(g) : g[i].from \in Inet /\ g[i].name = NameOn(backend, kind, g[i].from)
  BY <1>1, <1>2, SocketFields DEF SocketGood
<1> HIDE DEF g
<1>4. 1 \in 1..Len(g)
  BY <1>1, <1>3
<1>5. d.from \in Inet /\ d.name = NameOn(backend, kind, d.from)
  BY <1>3, <1>4
<1> HIDE DEF d
<1>6. from_sockaddr(d.name) = d.from
  BY <1>1, <1>2, <1>5, InetRoundTrip
<1> QED
  BY <1>1, <1>6 DEF HonestResult, HonestKind

LEMMA OptionResult ==
    ASSUME SocketInv, NEW t, NEW op \in {"set_nonblocking", "set_read_timeout"}, NEW new, SetOption(t, op, new)
    PROVE  HonestResult(backend, result')
<1> DEFINE cause == IF op = "set_nonblocking" THEN "mode" ELSE "denied"
<1>1. result' = NoResult \/ result' = ErrorResult(Kind(op, "denied"), cause)
  BY DEF SetOption, ErrorResult
<1>2. HonestKind(backend, Kind(op, "denied"), cause)
  BY SocketFacts, StreamKinds
<1> QED
  BY <1>1, <1>2, PlainAreHonest, ErrorsAreHonest

\* A program keeps its backend and its kind of sockets.
LEMMA SameProgram == ASSUME [Next]_vars PROVE UNCHANGED <<backend, kind>>
<1>1. ASSUME NEW t \in Thread, Step(t) PROVE UNCHANGED <<backend, kind>>
  BY <1>1 DEF Step, Startup, Socket, Set, Pack, Bind, Listen, Connect, Accept, Own, Unpack, Fail
<1>2. ASSUME NEW t \in Thread, ReadData(t) \/ ReadNothing(t) PROVE UNCHANGED <<backend, kind>>
  BY <1>2 DEF ReadData, ReadNothing, Fail
<1>3. ASSUME NEW t \in Thread, NEW op, NEW a, Begin(t, op, a) PROVE UNCHANGED <<backend, kind>>
  BY <1>3 DEF Begin
<1>4. ASSUME NEW t \in Thread, NEW s \in Slots,
             \/ BeginAccept(t, s) \/ BeginRead(t, s) \/ local_addr(t, s) \/ unix_peer_addr(t, s)
             \/ udp_recv_from(t, s)
      PROVE  UNCHANGED <<backend, kind>>
  BY <1>4 DEF BeginAccept, BeginRead, local_addr, unix_peer_addr, udp_recv_from
<1>5. ASSUME NEW t \in Thread, NEW s \in Slots, NEW d, NEW n,
             set_read_timeout(t, s, d) \/ set_nonblocking(t, s, d) \/ udp_send_to(t, s, d, n)
      PROVE  UNCHANGED <<backend, kind>>
  BY <1>5 DEF set_read_timeout, set_nonblocking, udp_send_to
<1>6. ASSUME NEW s \in Slots, drop(s) \/ PeerWrites(s) \/ \E n \in Names : StrangerConnects(s, n)
      PROVE  UNCHANGED <<backend, kind>>
  BY <1>6 DEF drop, PeerWrites, StrangerConnects
<1>7. Spawn \/ UNCHANGED vars => UNCHANGED <<backend, kind>>
  BY DEF Spawn, vars
<1> QED
  BY <1>1, <1>2, <1>3, <1>4, <1>5, <1>6, <1>7 DEF Next

LEMMA ResultNext ==
    ASSUME SocketInv, HonestResult(backend, result), [Next]_vars
    PROVE  HonestResult(backend', result')
<1>0. backend' = backend
  BY SameProgram
<1>1. CASE result' = result \/ result' = NoResult
  BY <1>0, <1>1, PlainAreHonest
<1>2. ASSUME NEW t \in Thread, NEW op, NEW a, Begin(t, op, a) PROVE result' = NoResult
  BY <1>2 DEF Begin
<1>3. ASSUME NEW t \in Thread, NEW s, BeginAccept(t, s) \/ BeginRead(t, s) PROVE result' = NoResult
  BY <1>3 DEF BeginAccept, BeginRead
<1>4. ASSUME NEW t \in Thread, Step(t) \/ ReadData(t) \/ ReadNothing(t) PROVE HonestResult(backend', result')
  BY <1>0, <1>4, StepResult, ReadResult
<1>5. ASSUME NEW t \in Thread, NEW s \in Slots, local_addr(t, s) \/ unix_peer_addr(t, s) \/ udp_recv_from(t, s)
      PROVE  HonestResult(backend', result')
  BY <1>0, <1>5, LocalAddrResult, PeerAddrResult, ReceiveResult
<1>6. ASSUME NEW t \in Thread, NEW s \in Slots, NEW d, set_read_timeout(t, s, d)
      PROVE  HonestResult(backend', result')
  BY <1>0, <1>6, OptionResult DEF set_read_timeout
<1>7. ASSUME NEW t \in Thread, NEW s \in Slots, NEW on, set_nonblocking(t, s, on)
      PROVE  HonestResult(backend', result')
  BY <1>0, <1>7, OptionResult DEF set_nonblocking
<1>8. ASSUME NEW t \in Thread, NEW s \in Slots, NEW a, NEW n, udp_send_to(t, s, a, n) PROVE result' = NoResult
  BY <1>8 DEF udp_send_to
<1>9. ASSUME NEW s \in Slots, drop(s) \/ PeerWrites(s) \/ \E n \in Names : StrangerConnects(s, n)
      PROVE  result' = result
  BY <1>9 DEF drop, PeerWrites, StrangerConnects
<1>10. Spawn \/ UNCHANGED vars => result' = result
  BY DEF Spawn, vars
<1> QED
  BY <1>1, <1>2, <1>3, <1>4, <1>5, <1>6, <1>7, <1>8, <1>9, <1>10 DEF Next

\* The inductive invariant of the sockets.
LEMMA SocketsInductive == Spec => [](SocketInv /\ HonestResult(backend, result))
<1>1. Init => SocketInv /\ HonestResult(backend, result)
  BY SocketInit, PlainAreHonest DEF Init
<1>2. SocketInv /\ HonestResult(backend, result) /\ [Next]_vars => (SocketInv /\ HonestResult(backend, result))'
  BY SocketNext, ResultNext
<1> QED
  BY <1>1, <1>2, PTL DEF Spec

\* On every backend, whichever system call of whichever thread's operation fails,
\* every open socket has an owner that will close it: a value the program holds or
\* the one operation that is making it (but for the accepted descriptor that
\* windows-sys's raw_accept_unix leaves open when the peer's name is no UTF-8);
\* no operation uses a socket before ensure_wsa_started has run or one that has
\* been dropped.
THEOREM SocketsHaveOwners == Spec => []SocketsAreOwned
<1>1. SocketInv => SocketsAreOwned
  <2> SUFFICES ASSUME SocketInv PROVE SocketsAreOwned
    OBVIOUS
  <2>1. \A t \in Thread :
          /\ call[t].s \in Slots \union {0} /\ call[t].on \in Slots \union {0}
          /\ call[t].s # 0 => Open(call[t].s) /\ call[t].s \notin held
          /\ call[t].on # 0 => call[t].on \in held
    BY SocketFacts DEF CallGood, CallRecord
  <2>2. (\E s \in Slots : Open(s)) => (Windows => started)
    BY SocketFacts, ConversionsOn
  <2>3. held \subseteq {s \in Slots : Open(s)}
    BY SocketFacts
  <2> QED
    BY <2>1, <2>2, <2>3 DEF SocketInv, SocketTypes, SocketsAreOwned, TypeOK
<1> QED
  BY <1>1, SocketsInductive, PTL

\* A child that is spawned at any moment inherits no socket on Linux, where
\* SOCK_CLOEXEC marks it as it is made, and on the BSDs none that an operation has
\* returned: set_cloexec comes before the return on every path of every script.
THEOREM ChildrenGetNoSockets == Spec => []SocketsStayHome
<1>1. SocketInv => SocketsStayHome
  BY DEF SocketInv
<1> QED
  BY <1>1, SocketsInductive, PTL

\* For every address, path, peer name and timeout, on every backend: what
\* local_addr, unix_peer_addr and recv_from report is what was bound, through
\* to_sockaddr and from_sockaddr and through sun_path whatever length the kernel
\* reports; each error table gives the portable conditions their portable kinds,
\* but for a mode change refused on Track W, which is Other whatever the reason;
\* and SO_RCVTIMEO is never zero for, nor longer than, a timeout of at least a unit.
THEOREM ConversionsKeepTheirMeaning == Spec => []ConversionsAreFaithful
<1>1. SocketInv /\ HonestResult(backend, result) => ConversionsAreFaithful
  <2> SUFFICES ASSUME SocketInv, HonestResult(backend, result) PROVE ConversionsAreFaithful
    OBVIOUS
  <2>1. AddressesAreFaithful /\ KindsAreHonest
    BY SocketFacts, HonestIsGood DEF ResultGood
  <2>2. TimeoutsBound
    <3> SUFFICES ASSUME NEW s \in Slots, Open(s), sock[s].want >= Unit
                 PROVE  sock[s].timeo # 0 /\ sock[s].timeo * Unit <= sock[s].want
      BY DEF TimeoutsBound
    <3>1. /\ sock[s].timeo = TimeoutOn(backend, sock[s].want) /\ sock[s].want \in Nat \union {-1}
      BY SocketFacts, SocketFields DEF SocketGood
    <3>2. Unit = IF PosixBackend(backend) THEN Micro ELSE Milli
      BY SocketFacts, ConversionsOn DEF Unit
    <3> QED
      BY <3>1, <3>2, TimeoutBounds
  <2> QED
    BY <2>1, <2>2 DEF ConversionsAreFaithful
<1> QED
  BY <1>1, SocketsInductive, PTL

-----------------------------------------------------------------------------
(* One listener for an address                                             *)

HasName(x) == x.st \in {"bound", "listening"}
SoleNames ==
    \A s, r \in Slots : s # r /\ HasName(sock[s]) /\ HasName(sock[r]) => sock[s].name # sock[r].name
NamesKept == \A r \in Slots : HasName(sock'[r]) => HasName(sock[r]) /\ sock'[r].name = sock[r].name

LEMMA KeptAreSole == ASSUME SoleNames, NamesKept PROVE SoleNames'
  BY DEF SoleNames, NamesKept

LEMMA FailKeepsNames == ASSUME SocketInv, NEW t \in Thread, NEW cause, Fail(t, cause) PROVE NamesKept
<1>1. sock \in [Slots -> {NoSock} \union SocketRecord]
  BY SocketFacts
<1>2. sock' = sock \/ sock' = [sock EXCEPT ![call[t].s] = NoSock]
  BY DEF Fail
<1> QED
  BY <1>1, <1>2 DEF NamesKept, HasName, NoSock

LEMMA ChangesKeepNames ==
    ASSUME SocketInv, NEW s \in Slots, NEW y, sock' = [sock EXCEPT ![s] = y],
           HasName(y) => HasName(sock[s]) /\ y.name = sock[s].name
    PROVE  NamesKept
<1>1. /\ sock'[s] = y /\ \A r \in Slots : r # s => sock'[r] = sock[r]
  BY SocketFacts
<1> QED
  BY <1>1 DEF NamesKept

LEMMA StepKeepsNames ==
    ASSUME SocketInv, NEW t \in Thread, Step(t), ~Bind(t)
    PROVE  NamesKept
<1>1. CASE Startup(t) \/ Own(t) \/ \E cause : Fail(t, cause)
  BY <1>1, FailKeepsNames DEF Startup, Own, NamesKept
<1>2. CASE Pack(t) \/ Unpack(t)
  <2>1. UNCHANGED sock \/ \E cause : Fail(t, cause)
    BY <1>2 DEF Pack, Unpack
  <2> QED
    BY <2>1, FailKeepsNames DEF NamesKept
<1>3. CASE Socket(t)
  <2> DEFINE x == NewSock("new", call[t].asked, Head(call[t].todo) = "socket")
  <2>1. \/ Fail(t, "nofd")
        \/ \E s \in Slots : sock' = [sock EXCEPT ![s] = x]
    BY <1>3 DEF Socket
  <2>2. ~HasName(x)
    BY DEF HasName, NewSock
  <2> HIDE DEF x
  <2> QED
    BY <2>1, <2>2, FailKeepsNames, ChangesKeepNames
<1>4. CASE Set(t)
  <2> DEFINE s == call[t].s
             i == Head(call[t].todo) # "cloexec"
             u == Head(call[t].todo) = "reuseaddr"
             y == Options(sock[s], i, u)
  <2>1. AtCall(t, {"cloexec", "reuseaddr", "chmod"})
    BY <1>4 DEF Set
  <2>2. /\ Begins(call[t].todo, Head(call[t].todo)) /\ Head(call[t].todo) \in {"cloexec", "reuseaddr", "chmod"}
        /\ Stage(backend, kind, started, call[t], sock[s])
    BY <2>1, CallFacts
  <2>3. s # 0
    BY <2>2, SocketFacts, WhereItStarts
  <2>4. s \in Slots /\ sock[s] \in SocketRecord
    BY <2>1, <2>3, CallFacts
  <2>5. y.st = sock[s].st /\ y.name = sock[s].name
    BY <2>4, OptionFields
  <2>6. sock' = [sock EXCEPT ![s] = y] \/ \E cause : Fail(t, cause)
    BY <1>4, <2>4, SocketFacts DEF Set, Options
  <2> HIDE DEF y
  <2> QED
    BY <2>4, <2>5, <2>6, FailKeepsNames, ChangesKeepNames DEF HasName
<1>5. CASE Listen(t)
  <2> DEFINE s == call[t].s
             y == [sock[s] EXCEPT !.st = "listening"]
  <2>1. AtCall(t, {"listen"})
    BY <1>5 DEF Listen
  <2>2. /\ Begins(call[t].todo, "listen") /\ Stage(backend, kind, started, call[t], sock[s])
        /\ s \in Slots /\ sock[s] \in SocketRecord /\ sock[s].inherit \in BOOLEAN
        /\ kind \in {"tcp", "unix", "udp"}
    BY <2>1, AtSocket
  <2>3. sock[s].st = "bound"
    BY <2>2, WhereItIs
  <2>4. sock' = [sock EXCEPT ![s] = y] \/ \E cause : Fail(t, cause)
    BY <1>5 DEF Listen
  <2>5. y.name = sock[s].name
    BY <2>2 DEF SocketRecord
  <2> HIDE DEF y
  <2> QED
    BY <2>2, <2>3, <2>4, <2>5, FailKeepsNames, ChangesKeepNames DEF HasName
<1>6. CASE Connect(t)
  <2> DEFINE s == call[t].s
  <2>1. s \in Slots /\ sock[s] \in SocketRecord
    BY <1>6, AtSocket DEF Connect
  <2>2. \/ \E cause : Fail(t, cause)
        \/ \E l \in Slots : /\ sock[l].st = "listening"
                            /\ sock' = [sock EXCEPT ![s].st = "connected", ![s].peer = sock[l].name,
                                                    ![l].queue = <<[name |-> <<>>]>>]
    BY <1>6 DEF Connect, Listeners
  <2>3. ASSUME NEW l \in Slots, sock[l].st = "listening",
               sock' = [sock EXCEPT ![s].st = "connected", ![s].peer = sock[l].name,
                                    ![l].queue = <<[name |-> <<>>]>>]
        PROVE  NamesKept
    <3>1. sock[l] \in SocketRecord
      BY <2>3, SocketFacts DEF Open
    <3>2. ASSUME NEW r \in Slots, HasName(sock'[r]) PROVE HasName(sock[r]) /\ sock'[r].name = sock[r].name
      <4>1. CASE r = s
        <5>1. sock'[s].st = "connected"
          BY <2>1, <2>3, <3>1, SocketFacts DEF SocketRecord
        <5> QED
          BY <3>2, <4>1, <5>1 DEF HasName
      <4>2. CASE r = l /\ r # s
        <5>1. sock'[r] = [sock[r] EXCEPT !.queue = <<[name |-> <<>>]>>]
          BY <2>1, <2>3, <4>2, SocketFacts
        <5> QED
          BY <2>3, <3>1, <4>2, <5>1 DEF HasName, SocketRecord
      <4>3. CASE r # l /\ r # s
        <5>1. sock'[r] = sock[r]
          BY <2>1, <2>3, <4>3, SocketFacts
        <5> QED
          BY <3>2, <5>1
      <4> QED
        BY <4>1, <4>2, <4>3
    <3> QED
      BY <3>2 DEF NamesKept
  <2> QED
    BY <2>2, <2>3, FailKeepsNames
<1>7. CASE Accept(t)
  <2> DEFINE l == call[t].on
  <2>1. \/ \E cause : Fail(t, cause)
        \/ \E s \in Slots : \E i : /\ ~Open(s) /\ sock[l].queue # <<>>
              /\ sock' = [sock EXCEPT ![s] = [NewSock("connected", sock[l].asked, i)
                                                EXCEPT !.name = sock[l].name,
                                                       !.peer = sock[l].queue[1].name],
                                      ![l].queue = <<>>]
    BY <1>7 DEF Accept
  <2>2. l \in Slots /\ Open(l) /\ sock[l] \in SocketRecord
    <3>1. AtCall(t, {"accept", "accept_cloexec"})
      BY <1>7 DEF Accept
    <3>2. /\ Begins(call[t].todo, Head(call[t].todo)) /\ Head(call[t].todo) \in {"accept", "accept_cloexec"}
          /\ Stage(backend, kind, started, call[t], sock[call[t].s]) /\ (l # 0 => l \in held)
      BY <3>1, CallFacts
    <3>3. Accepting(backend, kind, call[t])
      BY <3>2, SocketFacts, WhereItStarts
    <3> QED
      BY <3>2, <3>3, SocketFacts DEF Accepting
  <2>3. ASSUME NEW s \in Slots, NEW i, ~Open(s),
               sock' = [sock EXCEPT ![s] = [NewSock("connected", sock[l].asked, i)
                                              EXCEPT !.name = sock[l].name,
                                                     !.peer = sock[l].queue[1].name],
                                    ![l].queue = <<>>]
        PROVE  NamesKept
    <3>0. s # l
      BY <2>2, <2>3
    <3> HIDE DEF l
    <3>1. ASSUME NEW r \in Slots, HasName(sock'[r]) PROVE HasName(sock[r]) /\ sock'[r].name = sock[r].name
      <4>1. CASE r = s
        <5>1. sock'[s].st = "connected"
          BY <2>2, <2>3, <3>0, SocketFacts DEF NewSock
        <5> QED
          BY <3>1, <4>1, <5>1 DEF HasName
      <4>2. CASE r = l
        <5>1. sock'[r] = [sock[r] EXCEPT !.queue = <<>>]
          BY <2>3, <3>0, <4>2, SocketFacts
        <5> QED
          BY <2>2, <3>1, <4>2, <5>1 DEF HasName, SocketRecord
      <4>3. CASE r # l /\ r # s
        <5>1. sock'[r] = sock[r]
          BY <2>3, <4>3, SocketFacts
        <5> QED
          BY <3>1, <5>1
      <4> QED
        BY <4>1, <4>2, <4>3
    <3> QED
      BY <3>1 DEF NamesKept
  <2> QED
    BY <2>1, <2>3, FailKeepsNames
<1> QED
  BY <1>1, <1>2, <1>3, <1>4, <1>5, <1>6, <1>7 DEF Step

LEMMA AddressesAreNames ==
    ASSUME NEW b, NEW k, NEW a, k # "unix"
    PROVE  NameOn(b, k, a) # <<>>
<1> DEFINE f == a.family
           p == to_be(a.port)
           n == IF b = "bsd" THEN IF a.family = 4 THEN 16 ELSE 28 ELSE 0
<1>1. NameOn(b, k, a) = [family |-> f, port |-> p, sin_len |-> n]
  BY DEF NameOn
<1> HIDE DEF f, p, n
<1>2. "family" \in DOMAIN NameOn(b, k, a)
  BY <1>1
<1>3. DOMAIN <<>> = {}
  OBVIOUS
<1> QED
  BY <1>2, <1>3

LEMMA BindIsSole ==
    ASSUME SocketInv, SoleNames, PosixBackend(backend), kind = "tcp", NEW t \in Thread, Bind(t)
    PROVE  SoleNames'
<1> DEFINE s == call[t].s
           name == KernelName(sock[s].asked)
<1>1. s \in Slots /\ sock[s] \in SocketRecord
  BY AtSocket DEF Bind
<1>2. CASE \E cause : Fail(t, cause)
  BY <1>2, FailKeepsNames, KeptAreSole
<1>3. CASE ~Taken(s) /\ sock' = [sock EXCEPT ![s].st = "bound", ![s].name = name]
  <2>1. ~Windows
    BY SocketFacts, ConversionsOn
  <2>2. name # <<>>
    BY SocketFacts, ConversionsOn, AddressesAreNames
  <2>3. \A r \in Slots : r # s /\ HasName(sock[r]) => sock[r].name # name
    BY <1>3, <2>1, <2>2 DEF Taken, Open, HasName
  <2> HIDE DEF name
  <2>4. /\ sock'[s].name = name /\ \A r \in Slots : r # s => sock'[r] = sock[r]
    BY <1>1, <1>3, SocketFacts DEF SocketRecord
  <2> HIDE DEF s
  <2>5. ASSUME NEW r \in Slots, NEW v \in Slots, r # v, HasName(sock'[r]), HasName(sock'[v])
        PROVE  sock'[r].name # sock'[v].name
    <3>1. CASE r = s
      BY <2>3, <2>4, <2>5, <3>1
    <3>2. CASE v = s
      BY <2>3, <2>4, <2>5, <3>2
    <3>3. CASE r # s /\ v # s
      BY <2>4, <2>5, <3>3 DEF SoleNames
    <3> QED
      BY <3>1, <3>2, <3>3
  <2> QED
    BY <2>5 DEF SoleNames
<1> QED
  BY <1>2, <1>3 DEF Bind

LEMMA SoleNext ==
    ASSUME SocketInv, PosixBackend(backend) /\ kind = "tcp" => SoleNames, [Next]_vars
    PROVE  (PosixBackend(backend) /\ kind = "tcp" => SoleNames)'
<1>0. UNCHANGED <<backend, kind>>
  BY SameProgram
<1> SUFFICES ASSUME PosixBackend(backend), kind = "tcp", SoleNames PROVE SoleNames'
  BY <1>0
<1>1. CASE UNCHANGED sock
  BY <1>1 DEF SoleNames
<1>2. ASSUME NEW t \in Thread, Step(t) PROVE SoleNames'
  BY <1>2, StepKeepsNames, BindIsSole, KeptAreSole
<1>3. ASSUME NEW s \in Slots, NEW y, sock' = [sock EXCEPT ![s] = y],
             HasName(y) => HasName(sock[s]) /\ y.name = sock[s].name
      PROVE  SoleNames'
  BY <1>3, ChangesKeepNames, KeptAreSole
<1>4. ASSUME NEW t \in Thread, ReadData(t) \/ ReadNothing(t) PROVE SoleNames'
  <2>1. CASE ReadNothing(t)
    <3>1. \E cause : Fail(t, cause)
      BY <2>1 DEF ReadNothing
    <3> QED
      BY <3>1, FailKeepsNames, KeptAreSole
  <2>2. CASE ReadData(t)
    <3> DEFINE s == call[t].on
               y == [sock[s] EXCEPT !.unread = FALSE]
    <3>1. sock' = [sock EXCEPT ![s] = y] /\ call[t].op = "read"
      BY <2>2 DEF ReadData
    <3>2. s \in Slots /\ sock[s] \in SocketRecord
      BY <3>1, Reading, SocketFacts
    <3>3. y.st = sock[s].st /\ y.name = sock[s].name
      BY <3>2 DEF SocketRecord
    <3> HIDE DEF y
    <3> QED
      BY <1>3, <3>1, <3>2, <3>3 DEF HasName
  <2> QED
    BY <1>4, <2>1, <2>2
<1>5. ASSUME NEW t \in Thread, NEW s \in Slots, NEW d, set_read_timeout(t, s, d) PROVE SoleNames'
  <2> DEFINE y == [sock[s] EXCEPT !.want = d, !.timeo = rcvtimeo(d)]
  <2>1. s \in held /\ (UNCHANGED sock \/ sock' = [sock EXCEPT ![s].want = d, ![s].timeo = rcvtimeo(d)])
    BY <1>5 DEF set_read_timeout, Usable, SetOption
  <2>2. sock[s] \in SocketRecord /\ (UNCHANGED sock \/ sock' = [sock EXCEPT ![s] = y])
    BY <2>1, SocketFacts
  <2>3. y.st = sock[s].st /\ y.name = sock[s].name
    BY <2>2 DEF SocketRecord
  <2> HIDE DEF y
  <2> QED
    BY <1>1, <1>3, <2>2, <2>3 DEF HasName
<1>6. ASSUME NEW t \in Thread, NEW s \in Slots, NEW on, set_nonblocking(t, s, on) PROVE SoleNames'
  <2> DEFINE y == [sock[s] EXCEPT !.nonblock = on]
  <2>1. s \in held /\ (UNCHANGED sock \/ sock' = [sock EXCEPT ![s] = y])
    BY <1>6 DEF set_nonblocking, Usable, SetOption
  <2>2. sock[s] \in SocketRecord
    BY <2>1, SocketFacts
  <2>3. y.st = sock[s].st /\ y.name = sock[s].name
    BY <2>2 DEF SocketRecord
  <2> HIDE DEF y
  <2> QED
    BY <1>1, <1>3, <2>1, <2>3 DEF HasName
<1>7. ASSUME NEW s \in Slots, drop(s) PROVE SoleNames'
  BY <1>3, <1>7 DEF drop, HasName, NoSock
<1>8. ASSUME NEW s \in Slots, PeerWrites(s) PROVE SoleNames'
  <2> DEFINE y == [sock[s] EXCEPT !.unread = TRUE]
  <2>1. sock[s].st = "connected" /\ sock' = [sock EXCEPT ![s] = y]
    BY <1>8 DEF PeerWrites
  <2>2. sock[s] \in SocketRecord
    BY <2>1, SocketFacts DEF Open
  <2>3. y.st = sock[s].st /\ y.name = sock[s].name
    BY <2>2 DEF SocketRecord
  <2> HIDE DEF y
  <2> QED
    BY <1>3, <2>1, <2>3 DEF HasName
<1>9. ASSUME NEW s \in Slots, NEW n, StrangerConnects(s, n) PROVE SoleNames'
  <2> DEFINE y == [sock[s] EXCEPT !.queue = <<[name |-> n]>>]
  <2>1. sock[s].st = "listening" /\ sock' = [sock EXCEPT ![s] = y]
    BY <1>9 DEF StrangerConnects
  <2>2. sock[s] \in SocketRecord
    BY <2>1, SocketFacts DEF Open
  <2>3. y.st = sock[s].st /\ y.name = sock[s].name
    BY <2>2 DEF SocketRecord
  <2> HIDE DEF y
  <2> QED
    BY <1>3, <2>1, <2>3 DEF HasName
<1>10. ASSUME NEW t \in Thread, NEW s \in Slots, NEW a, NEW n, udp_send_to(t, s, a, n) \/ udp_recv_from(t, s)
       PROVE  FALSE
  BY <1>10 DEF udp_send_to, udp_recv_from
<1>11. ASSUME NEW t \in Thread, NEW s \in Slots,
              BeginAccept(t, s) \/ BeginRead(t, s) \/ local_addr(t, s) \/ unix_peer_addr(t, s)
       PROVE  UNCHANGED sock
  BY <1>11 DEF BeginAccept, BeginRead, local_addr, unix_peer_addr
<1>12. ASSUME NEW t \in Thread, NEW op, NEW a, Begin(t, op, a) PROVE UNCHANGED sock
  BY <1>12 DEF Begin
<1>13. Spawn \/ UNCHANGED vars => UNCHANGED sock
  BY DEF Spawn, vars
<1> QED
  BY <1>1, <1>2, <1>4, <1>5, <1>6, <1>7, <1>8, <1>9, <1>10, <1>11, <1>12, <1>13 DEF Next

\* On the POSIX backends an address has one listener at a time: SO_REUSEADDR,
\* which tcp_listen sets on every backend, lets nobody bind there what is bound.
\* (On Windows it does: OneListenerPerAddress is violated there.)
THEOREM ListenersAreAlone == Spec => [](PosixBackend(backend) => OneListenerPerAddress)
<1>1. Init => (PosixBackend(backend) /\ kind = "tcp" => SoleNames)
  BY DEF Init, SoleNames, HasName, NoSock
<1>2. /\ SocketInv /\ HonestResult(backend, result) /\ (PosixBackend(backend) /\ kind = "tcp" => SoleNames)
      /\ [Next]_vars
      => (PosixBackend(backend) /\ kind = "tcp" => SoleNames)'
  BY SoleNext
<1>3. (PosixBackend(backend) /\ kind = "tcp" => SoleNames) => (PosixBackend(backend) => OneListenerPerAddress)
  BY DEF SoleNames, HasName, OneListenerPerAddress
<1> QED
  BY <1>1, <1>2, <1>3, SocketsInductive, PTL DEF Spec
=============================================================================
