------------------------------ MODULE MockNet ------------------------------
(***************************************************************************)
(* The in-memory network of platform-mock/src/net.rs: a registry from      *)
(* bound address to the channel of its listener, and two channels of       *)
(* chunks per connection.  A connect looks its listener up under the lock  *)
(* and sends to it after the unlock, so listeners can be dropped and       *)
(* addresses taken again in between.  Channels are std::sync::mpsc.        *)
(***************************************************************************)
EXTENDS Integers, Sequences, FiniteSets

CONSTANTS
    Dialer,        \* threads that connect
    Addr,          \* addresses: [kind, port], port 0 asks for one
    MaxListeners,  \* bound: listeners and UDP sockets ever made
    MaxConns,      \* bound: connections ever made
    Writers,       \* bound: the ends that write
    Chunks,        \* the lengths of writes, of an empty buffer too
    MaxBytes,      \* bound: bytes written per direction
    MaxWaiting,    \* bound: chunks waiting in a channel
    ReadBuf,       \* the length of a reader's buffer
    FirstPort,     \* where next_ephemeral_port starts
    LastPort       \* bound: it is called no more often, and does not wrap

\* Unix addresses are names, and none asks for one.
MockParameters ==
    /\ Addr \subseteq [kind : {"tcp", "unix", "udp"}, port : Nat]
    /\ \A a \in Addr : a.kind = "unix" => a.port # 0
    /\ MaxListeners \in Nat /\ MaxConns \in Nat /\ MaxBytes \in Nat /\ MaxWaiting \in Nat
    /\ Chunks \subseteq Nat /\ ReadBuf \in Nat \ {0}
    /\ FirstPort \in Nat \ {0} /\ LastPort \in Nat
ASSUME MockAssumption == MockParameters

VARIABLES
    registry,  \* address -> the listener whose Sender it holds, or 0
    nextport,
    lst,       \* listeners: state, address, what is queued for them
    conn,      \* connections
    dialing    \* the connects in progress: address, the Sender found

mvars == <<registry, nextport, lst, conn, dialing>>

StreamEnds == {"client", "server"}
Other(e) == IF e = "client" THEN "server" ELSE "client"
Addresses == {a \in Addr : a.port # 0}
             \union {[kind |-> k, port |-> i] : k \in {"tcp", "udp"}, i \in FirstPort..LastPort}

NoAddr == [kind |-> "none", port |-> 0]
NoDial == [addr |-> NoAddr, tx |-> 0]
NoConn == [kind |-> "none", queued |-> 0, open |-> [e \in StreamEnds |-> FALSE],
           chan |-> [e \in StreamEnds |-> <<>>], read_buf |-> [e \in StreamEnds |-> <<>>],
           reading |-> [e \in StreamEnds |-> FALSE], timeout |-> [e \in StreamEnds |-> FALSE],
           sent |-> [e \in StreamEnds |-> <<>>], got |-> [e \in StreamEnds |-> <<>>],
           ended |-> [e \in StreamEnds |-> FALSE]]
NoListener == [st |-> "none", addr |-> NoAddr, queue |-> <<>>]

next_ephemeral_port == nextport <= LastPort /\ nextport' = nextport + 1

-----------------------------------------------------------------------------
(* Listeners                                                               *)

\* Under the lock: AddrInUse, or the entry is made.
Register(a) ==
    IF registry[a] # 0 THEN UNCHANGED <<lst, registry>>
    ELSE \E l \in 1..MaxListeners :
            /\ lst[l].st = "none" /\ \A k \in 1..(l - 1) : lst[k].st # "none"
            /\ lst' = [lst EXCEPT ![l] = [st |-> "live", addr |-> a, queue |-> <<>>]]
            /\ registry' = [registry EXCEPT ![a] = l]

mock_listen(a) ==
    LET addr == IF a.port = 0 THEN [a EXCEPT !.port = nextport] ELSE a
    IN /\ IF a.port = 0 THEN next_ephemeral_port ELSE UNCHANGED nextport
       /\ Register(addr)
       /\ UNCHANGED <<conn, dialing>>

tcp_listen(a) == a.kind = "tcp" /\ mock_listen(a)
unix_listen(a) == a.kind = "unix" /\ mock_listen(a)
udp_bind(a) == a.kind = "udp" /\ mock_listen(a)

\* Drop, first half: the entry of this address goes.
Deregister(l, kind) ==
    /\ lst[l].st = "live" /\ lst[l].addr.kind = kind
    /\ lst' = [lst EXCEPT ![l].st = "closing"]
    /\ registry' = [registry EXCEPT ![lst[l].addr] = 0]
    /\ UNCHANGED <<nextport, conn, dialing>>
drop_tcp_listener(l) == Deregister(l, "tcp")
drop_unix_listener(l) == Deregister(l, "unix")
drop_udp_socket(l) == Deregister(l, "udp")

\* A receiver that goes without what is queued in it.
DropReceiverOnly(l) ==
    /\ lst[l].st = "closing"
    /\ lst' = [lst EXCEPT ![l].st = "gone"]
    /\ UNCHANGED <<registry, nextport, conn, dialing>>

\* Drop, second half: the receiver goes, and the queued server ends with it.
DropReceiver(l) ==
    /\ lst[l].st = "closing"
    /\ lst' = [lst EXCEPT ![l].st = "gone", ![l].queue = <<>>]
    /\ conn' = [c \in DOMAIN conn |-> IF conn[c].queued = l
                                      THEN [conn[c] EXCEPT !.open["server"] = FALSE, !.queued = 0]
                                      ELSE conn[c]]
    /\ UNCHANGED <<registry, nextport, dialing>>

-----------------------------------------------------------------------------
(* Connecting                                                              *)

\* Nobody there: ConnectionRefused, and nothing changes.
Lookup(t, a) ==
    /\ dialing[t].tx = 0
    /\ registry[a] # 0
    /\ dialing' = [dialing EXCEPT ![t] = [addr |-> a, tx |-> registry[a]]]
    /\ IF a.kind = "tcp" THEN next_ephemeral_port ELSE UNCHANGED nextport
    /\ UNCHANGED <<registry, lst, conn>>
tcp_connect(t, a) == a.kind = "tcp" /\ Lookup(t, a)
unix_connect(t, a) == a.kind = "unix" /\ Lookup(t, a)

\* The two ends are made and the server's is sent to the listener; the client
\* gets its own only if the receiver is still there.
ConnectSend(t) ==
    /\ dialing[t].tx # 0
    /\ LET l == dialing[t].tx IN
       IF lst[l].st = "gone" THEN UNCHANGED <<conn, lst>>
       ELSE \E c \in 1..MaxConns :
               /\ conn[c].kind = "none" /\ \A k \in 1..(c - 1) : conn[k].kind # "none"
               /\ conn' = [conn EXCEPT ![c] = [NoConn EXCEPT !.kind = dialing[t].addr.kind, !.queued = l,
                                                             !.open = [e \in StreamEnds |-> TRUE]]]
               /\ lst' = [lst EXCEPT ![l].queue = Append(@, c)]
    /\ dialing' = [dialing EXCEPT ![t] = NoDial]
    /\ UNCHANGED <<registry, nextport>>

mock_accept(l, kind) ==
    /\ lst[l].st = "live" /\ lst[l].addr.kind = kind
    /\ lst[l].queue # <<>>
    /\ lst' = [lst EXCEPT ![l].queue = Tail(@)]
    /\ conn' = [conn EXCEPT ![Head(lst[l].queue)].queued = 0]
    /\ UNCHANGED <<registry, nextport, dialing>>
tcp_accept(l) == mock_accept(l, "tcp")
unix_accept(l) == mock_accept(l, "unix")

-----------------------------------------------------------------------------
(* Streams                                                                 *)

\* e is held by the program: accepted, if it is the server's.
Held(c, e) == conn[c].open[e] /\ (e = "server" => conn[c].queued = 0)

\* Bytes are numbered, so that a lost, repeated or swapped one shows.
Numbered(c, e, n) == [i \in 1..n |-> Len(conn[c].sent[e]) + i]

\* BrokenPipe if the peer is gone.  An empty buffer is sent as an empty chunk.
Write(c, e, n) ==
    /\ e \in Writers /\ Held(c, e) /\ ~conn[c].reading[e]
    /\ Len(conn[c].sent[e]) + n <= MaxBytes /\ Len(conn[c].chan[Other(e)]) < MaxWaiting
    /\ conn[c].open[Other(e)]
    /\ conn' = [conn EXCEPT ![c].sent[e] = @ \o Numbered(c, e, n),
                            ![c].chan[Other(e)] = Append(@, Numbered(c, e, n))]
    /\ UNCHANGED <<registry, nextport, lst, dialing>>
tcp_write(c, e, n) == conn[c].kind = "tcp" /\ Write(c, e, n)
unix_write(c, e, n) == conn[c].kind = "unix" /\ Write(c, e, n)

BeginMockRead(c, e) ==
    /\ Held(c, e) /\ ~conn[c].reading[e]
    /\ conn' = [conn EXCEPT ![c].reading[e] = TRUE]
    /\ UNCHANGED <<registry, nextport, lst, dialing>>

\* What is returned of a chunk, and what is kept for the next read.
Take(c, e, chunk, chan) ==
    LET n == IF Len(chunk) < ReadBuf THEN Len(chunk) ELSE ReadBuf IN
    conn' = [conn EXCEPT ![c] = [conn[c] EXCEPT !.got[e] = @ \o SubSeq(chunk, 1, n),
                                                !.read_buf[e] = SubSeq(chunk, n + 1, Len(chunk)),
                                                !.chan[e] = chan, !.reading[e] = FALSE,
                                                !.ended[e] = @ \/ n = 0]]

\* The rest of the last chunk, or the next one (zero, if it is empty), or zero
\* once the channel is empty and its sender gone.
mock_read(c, e) ==
    /\ conn[c].reading[e]
    /\ \/ conn[c].read_buf[e] # <<>> /\ Take(c, e, conn[c].read_buf[e], conn[c].chan[e])
       \/ /\ conn[c].read_buf[e] = <<>> /\ conn[c].chan[e] # <<>>
          /\ Take(c, e, Head(conn[c].chan[e]), Tail(conn[c].chan[e]))
       \/ /\ conn[c].read_buf[e] = <<>> /\ conn[c].chan[e] = <<>> /\ ~conn[c].open[Other(e)]
          /\ conn' = [conn EXCEPT ![c].reading[e] = FALSE, ![c].ended[e] = TRUE]
    /\ UNCHANGED <<registry, nextport, lst, dialing>>

\* recv_timeout expired: WouldBlock.
ReadTimeout(c, e) ==
    /\ conn[c].reading[e] /\ conn[c].timeout[e]
    /\ conn[c].read_buf[e] = <<>> /\ conn[c].chan[e] = <<>> /\ conn[c].open[Other(e)]
    /\ conn' = [conn EXCEPT ![c].reading[e] = FALSE]
    /\ UNCHANGED <<registry, nextport, lst, dialing>>

tcp_read(c, e) == conn[c].kind = "tcp" /\ (mock_read(c, e) \/ ReadTimeout(c, e))
unix_read(c, e) == conn[c].kind = "unix" /\ mock_read(c, e)

mock_set_read_timeout(c, e, on) ==
    /\ conn[c].kind = "tcp" /\ Held(c, e) /\ ~conn[c].reading[e]
    /\ conn' = [conn EXCEPT ![c].timeout[e] = on]
    /\ UNCHANGED <<registry, nextport, lst, dialing>>

drop_stream(c, e) ==
    /\ Held(c, e) /\ ~conn[c].reading[e]
    /\ conn' = [conn EXCEPT ![c].open[e] = FALSE]
    /\ UNCHANGED <<registry, nextport, lst, dialing>>

-----------------------------------------------------------------------------
(* Datagrams: [from, to, len], bound: one waits at a socket                *)

mock_udp_send_to(l, a, n) ==
    /\ lst[l].st = "live" /\ lst[l].addr.kind = "udp" /\ a.kind = "udp" /\ a.port # 0
    /\ registry[a] # 0 /\ lst[registry[a]].queue = <<>>
    /\ lst' = [lst EXCEPT ![registry[a]].queue = <<[from |-> lst[l].addr, to |-> a, len |-> n]>>]
    /\ UNCHANGED <<registry, nextport, conn, dialing>>

\* The datagram is cut to the buffer.
mock_udp_recv_from(l) ==
    /\ lst[l].st = "live" /\ lst[l].addr.kind = "udp" /\ lst[l].queue # <<>>
    /\ lst' = [lst EXCEPT ![l].queue = <<>>]
    /\ UNCHANGED <<registry, nextport, conn, dialing>>

-----------------------------------------------------------------------------
MockInit ==
    /\ registry = [a \in Addresses |-> 0]
    /\ nextport = FirstPort
    /\ lst = [l \in 1..MaxListeners |-> NoListener]
    /\ conn = [c \in 1..MaxConns |-> NoConn]
    /\ dialing = [t \in Dialer |-> NoDial]

MockNext ==
    \/ \E a \in Addr : tcp_listen(a) \/ unix_listen(a) \/ udp_bind(a)
    \/ \E l \in 1..MaxListeners :
          \/ drop_tcp_listener(l) \/ drop_unix_listener(l) \/ drop_udp_socket(l) \/ DropReceiver(l)
          \/ tcp_accept(l) \/ unix_accept(l) \/ mock_udp_recv_from(l)
          \/ \E a \in Addr, n \in Chunks : mock_udp_send_to(l, a, n)
    \/ \E t \in Dialer :
          ConnectSend(t) \/ \E a \in Addresses : tcp_connect(t, a) \/ unix_connect(t, a)
    \/ \E c \in 1..MaxConns, e \in StreamEnds :
          \/ \E n \in Chunks : tcp_write(c, e, n) \/ unix_write(c, e, n)
          \/ BeginMockRead(c, e) \/ tcp_read(c, e) \/ unix_read(c, e) \/ drop_stream(c, e)
          \/ \E on \in BOOLEAN : mock_set_read_timeout(c, e, on)

MockSpec == MockInit /\ [][MockNext]_mvars

\* A thread in a read runs, and recv_timeout returns when its time has passed.
MockFair == \A c \in 1..MaxConns, e \in StreamEnds : WF_mvars(tcp_read(c, e) \/ unix_read(c, e))

-----------------------------------------------------------------------------
(* Properties                                                              *)

\* The registry and the listeners agree: an address is registered exactly while
\* a listener that has not begun to be dropped is bound to it.  Drop removes the
\* entry by address, which is right only because of this.
RegistryAgrees ==
    \A a \in Addresses, l \in 1..MaxListeners :
        registry[a] = l <=> lst[l].st = "live" /\ lst[l].addr = a

\* A connection that nobody will ever accept is closed as its client sees it:
\* a connect that overtakes the drop of its listener is refused, or its stream
\* ends, and no client waits for a server that is not there.
NoOrphans ==
    \A c \in 1..MaxConns :
        conn[c].open["server"] /\ conn[c].queued # 0 =>
            /\ lst[conn[c].queued].st # "gone"
            /\ \E i \in DOMAIN lst[conn[c].queued].queue : lst[conn[c].queued].queue[i] = c

\* What a direction may not do if it is to be a stream, and the mock does when an
\* empty buffer was written to it: the read that meets the empty chunk returns
\* zero, and the writer is not gone or not all it wrote was read.  Nothing is
\* lost: later reads go on with the next chunk.
FalseEnd(c, e) ==
    /\ conn[c].read_buf[Other(e)] = <<>>
    /\ conn[c].chan[Other(e)] # <<>> /\ Head(conn[c].chan[Other(e)]) = <<>>
    /\ conn'[c].chan[Other(e)] = Tail(conn[c].chan[Other(e)])
    /\ conn'[c].sent[e] = conn[c].sent[e] /\ conn'[c].got = conn[c].got
    /\ conn'[c].open = conn[c].open

\* Either direction of every connection behaves like a stream of bytes, but for
\* the false ends of empty writes.
Direction(c, e) ==
    INSTANCE ByteStream WITH sent <- conn[c].sent[e], got <- conn[c].got[Other(e)],
                             open <- conn[c].kind = "none" \/ conn[c].open[e],
                             ended <- conn[c].ended[Other(e)]
StreamsAreStreams ==
    /\ \A c \in 1..MaxConns, e \in StreamEnds : Direction(c, e)!Init
    /\ [][\A c \in 1..MaxConns, e \in StreamEnds :
             [Direction(c, e)!Next \/ FalseEnd(c, e)]_(Direction(c, e)!svars)]_mvars

\* Mock connections are two streams of bytes each, where only a write of nothing
\* makes a read return zero before the end; the registry and the listeners agree,
\* and no connection waits for a server that will not come.
MockKeepsItsWord == StreamsAreStreams /\ [](RegistryAgrees /\ NoOrphans)

\* A read returns if its peer goes away or a timeout was set.
ReadReturns ==
    \A c \in 1..MaxConns, e \in StreamEnds :
        (conn[c].reading[e] /\ (conn[c].timeout[e] \/ ~conn[c].open[Other(e)]))
            ~> ~conn[c].reading[e]
=============================================================================
