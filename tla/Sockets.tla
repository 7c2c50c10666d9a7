------------------------------ MODULE Sockets ------------------------------
(***************************************************************************)
(* The sockets of the three real backends (sys/net.rs and net.rs of        *)
(* platform-linux, platform-bsd and platform-windows; the Windows one in   *)
(* its two arms, windows-sys and Track W).  Every operation of Net is a    *)
(* short script of system calls on a socket it owns; this module runs the  *)
(* scripts of several threads one call at a time, lets every call fail,    *)
(* and lets other threads spawn children in between.  What the kernel does *)
(* (addresses, queues, inheritance, timeouts) is external.                 *)
(*                                                                         *)
(* Reclaiming a stale path is UnixListen's subject; unix_listen appears    *)
(* here with a path that is free or taken.                                 *)
(***************************************************************************)
EXTENDS Integers, Sequences, FiniteSets

CONSTANTS
    Backends,   \* those to check, of "linux", "bsd", "windows", "trackw"
    Thread,
    Slots,      \* bound: how many sockets are open at a time
    Inet,       \* the IP addresses in use: [family, port]
    Paths,      \* the paths passed in: sequences of bytes, where 0 is NUL
                \* and 2 stands for a byte that is not UTF-8
    Names,      \* what sockets of other processes are bound to, alike
    SunPath,    \* sizeof(sun_path)
    Durations,  \* the timeouts requested, in ticks
    Micro, Milli, MaxMillis,  \* ticks in a unit; the largest u32
    Datagrams, Buffer         \* the lengths sent; the length of recv's buffer

Bytes(p) == {p[i] : i \in DOMAIN p}

\* Names fit into sun_path, full ones without a NUL behind them.
SocketParameters ==
    /\ Backends \subseteq {"linux", "bsd", "windows", "trackw"}
    /\ Slots \subseteq Nat \ {0}
    /\ Inet \subseteq [family : {4, 6}, port : 0..3]
    /\ SunPath \in Nat \ {0} /\ Paths \subseteq Seq(Nat)
    /\ Names \subseteq Seq(Nat) /\ \A n \in Names : 0 \notin Bytes(n) /\ Len(n) <= SunPath
    /\ Durations \subseteq Nat \union {-1}
    /\ Micro \in Nat \ {0} /\ Milli \in Nat \ {0} /\ MaxMillis \in Nat \ {0}
    /\ Datagrams \subseteq Nat /\ Buffer \in Nat
ASSUME SocketAssumption == SocketParameters

VARIABLES
    backend,  \* the one this program runs on
    kind,     \* of its sockets (bound: a program uses one kind of them)
    started,  \* ensure_wsa_started: the Once has run
    sock,     \* the open sockets
    held,     \* those the program holds a TcpStream, UdpSocket, ... for
    call,     \* the operation a thread is in, and what it has left to do
    result,   \* what the last operation to return returned
    leaked    \* the sockets that some spawned child inherited

vars == <<backend, kind, started, sock, held, call, result, leaked>>

Windows == backend \in {"windows", "trackw"}

-----------------------------------------------------------------------------
(* Addresses.  A port is two bytes, here of one bit each, stored big-      *)
(* endian; sin_len is the length byte only the BSDs have.                  *)

to_be(p) == (p % 2) * 2 + p \div 2
from_be(p) == (p % 2) * 2 + p \div 2

linux_to_sockaddr(a) == [family |-> a.family, port |-> to_be(a.port), sin_len |-> 0]
bsd_to_sockaddr(a) ==
    [family |-> a.family, port |-> to_be(a.port), sin_len |-> IF a.family = 4 THEN 16 ELSE 28]
windows_to_sockaddr(a) == [family |-> a.family, port |-> to_be(a.port), sin_len |-> 0]
\* Track W hands the port over as it is; the library converts it.
to_donor_addr(a) == [family |-> a.family, port |-> a.port]
donor_to_sockaddr(d) == [family |-> d.family, port |-> to_be(d.port), sin_len |-> 0]
sockaddr_to_donor(s) == [family |-> s.family, port |-> from_be(s.port)]

from_sockaddrSwapped(s) == [family |-> s.family, port |-> s.port]

linux_from_sockaddr(s) == [family |-> s.family, port |-> from_be(s.port)]
bsd_from_sockaddr(s) == [family |-> s.family, port |-> from_be(s.port)]
windows_from_sockaddr(s) == [family |-> s.family, port |-> from_be(s.port)]
from_donor_addr(d) == [family |-> d.family, port |-> d.port]

to_sockaddr(a) ==
    CASE backend = "linux" -> linux_to_sockaddr(a)
      [] backend = "bsd" -> bsd_to_sockaddr(a)
      [] backend = "windows" -> windows_to_sockaddr(a)
      [] OTHER -> donor_to_sockaddr(to_donor_addr(a))

\* getsockname and getpeername, and the sender that recvfrom reports.
linux_addr(s) == linux_from_sockaddr(s)
bsd_addr(s) == bsd_from_sockaddr(s)
raw_sock_addr(s) == IF backend = "trackw" THEN from_donor_addr(sockaddr_to_donor(s))
                    ELSE windows_from_sockaddr(s)

from_sockaddr(s) == CASE backend = "linux" -> linux_addr(s)
                      [] backend = "bsd" -> bsd_addr(s)
                      [] OTHER -> raw_sock_addr(s)

\* Paths are packed into sun_path with a NUL behind them, or refused.
linux_refuses_un(p) == 0 \in Bytes(p) \/ Len(p) >= SunPath
bsd_refuses_un(p) == 0 \in Bytes(p) \/ Len(p) >= SunPath
windows_refuses_un(p) == 2 \in Bytes(p) \/ Len(p) > SunPath - 1
to_donor_unix_addr_refuses(p) == 2 \in Bytes(p) \/ Len(p) > SunPath - 1

Refused_un(p) ==
    CASE backend = "linux" -> linux_refuses_un(p)
      [] backend = "bsd" -> bsd_refuses_un(p)
      [] backend = "windows" -> windows_refuses_un(p)
      [] OTHER -> to_donor_unix_addr_refuses(p)

\* The path up to its first NUL: what a C string names.
CString(b) ==
    IF 0 \in Bytes(b)
    THEN SubSeq(b, 1, (CHOOSE i \in DOMAIN b : b[i] = 0 /\ \A j \in 1..(i - 1) : b[j] # 0) - 1)
    ELSE b

\* What the kernel reports of a name (<<>>: unnamed): sun_path, and how much
\* of it counts.  Linux counts the NUL and no more; the others may count all.
Reported(name) ==
    LET exact == IF name = <<>> THEN 0 ELSE Len(name) + 1
    IN {[path |-> [i \in 1..SunPath |-> IF i <= Len(name) THEN name[i] ELSE 0], len |-> n] :
        n \in IF backend = "linux" THEN {exact} ELSE {exact, SunPath}}

SunBytes(s) == SubSeq(s.path, 1, IF s.len > SunPath THEN SunPath ELSE s.len)

\* A reader that drops one trailing NUL, which is enough on Linux.
from_sockaddr_unPop(s) ==
    LET b == SunBytes(s)
    IN IF b # <<>> /\ b[Len(b)] = 0 THEN SubSeq(b, 1, Len(b) - 1) ELSE b

linux_from_sockaddr_un(s) == from_sockaddr_unPop(s)
bsd_from_sockaddr_un(s) == CString(SunBytes(s))
windows_from_sockaddr_un(s) == CString(SunBytes(s))

\* Track W reads an unreadable name as no name, windows-sys as an error.
Unreadable(b) == Windows /\ 2 \in Bytes(b)
from_donor_unix_addr(s) ==
    LET b == CString(SunBytes(s)) IN IF Unreadable(b) THEN <<>> ELSE b

linux_unix_addr(s) == linux_from_sockaddr_un(s)
bsd_unix_addr(s) == bsd_from_sockaddr_un(s)
raw_local_addr_unix(s) == IF backend = "trackw" THEN from_donor_unix_addr(s)
                          ELSE windows_from_sockaddr_un(s)
\* Both Windows arms.
windows_unix_peer_addr(s) == windows_from_sockaddr_un(s)

unix_addr(s, peer) == CASE backend = "linux" -> linux_unix_addr(s)
                        [] backend = "bsd" -> bsd_unix_addr(s)
                        [] Windows /\ peer -> windows_unix_peer_addr(s)
                        [] OTHER -> raw_local_addr_unix(s)

-----------------------------------------------------------------------------
(* Errors: the condition a call met, as a portable kind                    *)

linux_kind_of ==
    [refused |-> "ConnectionRefused", inuse |-> "AddrInUse", missing |-> "NotFound",
     denied |-> "PermissionDenied", again |-> "WouldBlock", reset |-> "ConnectionReset"]
bsd_kind_of ==
    [refused |-> "ConnectionRefused", inuse |-> "AddrInUse", missing |-> "NotFound",
     denied |-> "PermissionDenied", again |-> "WouldBlock", reset |-> "ConnectionReset"]
wsa_kind ==
    [refused |-> "ConnectionRefused", inuse |-> "AddrInUse", denied |-> "PermissionDenied",
     again |-> "WouldBlock", expired |-> "TimedOut", reset |-> "ConnectionReset"]

\* Bytes go through read(2) and write(2) of sys/fdio.rs, with its own table.
linux_fdio_kind_of == [again |-> "WouldBlock", pipe |-> "BrokenPipe"]
bsd_os_err == [again |-> "WouldBlock", pipe |-> "BrokenPipe"]

\* set_nonblocking of the Track W arm goes through the table of Win32 codes,
\* which knows none of Winsock's.
trackw_err == [cause \in DOMAIN wsa_kind |-> "Other"]

linux_read == linux_fdio_kind_of
bsd_read == bsd_os_err
raw_recv == wsa_kind
linux_set_nonblocking == linux_kind_of
bsd_set_nonblocking == bsd_kind_of
windows_set_nonblocking == IF backend = "trackw" THEN trackw_err ELSE wsa_kind
set_sockopt == wsa_kind

\* The table that an operation of a stream goes through.
LinuxTcpStream == [read |-> linux_read, set_nonblocking |-> linux_set_nonblocking,
                   set_read_timeout |-> linux_kind_of]
BsdTcpStream == [read |-> bsd_read, set_nonblocking |-> bsd_set_nonblocking,
                 set_read_timeout |-> bsd_kind_of]
WindowsTcpStream == [read |-> raw_recv, set_nonblocking |-> windows_set_nonblocking,
                     set_read_timeout |-> set_sockopt]

Kind(op, cause) ==
    LET stream == op \in {"read", "set_nonblocking", "set_read_timeout"}
        table == CASE backend = "linux" -> IF stream THEN LinuxTcpStream[op] ELSE linux_kind_of
                   [] backend = "bsd" -> IF stream THEN BsdTcpStream[op] ELSE bsd_kind_of
                   [] OTHER -> IF stream THEN WindowsTcpStream[op] ELSE wsa_kind
    IN IF cause = "badpath" THEN "InvalidInput"
       ELSE IF cause \in DOMAIN table THEN table[cause] ELSE "Other"

-----------------------------------------------------------------------------
(* The scripts.  "own" is where the raw descriptor gets its owner, which   *)
(* closes it on every way out.                                             *)

linux_new_socketInheritable == <<"socket">>
linux_new_tcp_socket == <<"socket_cloexec">>
linux_new_unix_socket == <<"socket_cloexec">>
linux_new_udp_socket == <<"socket_cloexec">>
bsd_set_cloexec == <<"cloexec">>
bsd_new_tcp_socket == <<"socket">> \o bsd_set_cloexec
bsd_new_unix_socket == <<"socket">> \o bsd_set_cloexec
bsd_new_udp_socket == <<"socket">> \o bsd_set_cloexec
raw_socket == <<"socket">>
raw_unix_socket == <<"socket">>
ensure_wsa_started == <<"startup">>
windows_new_tcp_socket == ensure_wsa_started \o raw_socket
windows_new_unix_socket == ensure_wsa_started \o raw_unix_socket
windows_new_udp_socket == ensure_wsa_started \o raw_socket

linux_tcp_connect == linux_new_tcp_socket \o <<"connect">>
bsd_tcp_connect == bsd_new_tcp_socket \o <<"connect">>
raw_connect == <<"connect">>
windows_tcp_connect == windows_new_tcp_socket \o raw_connect

linux_tcp_listen == linux_new_tcp_socket \o <<"reuseaddr", "bind", "listen">>
bsd_tcp_listen == bsd_new_tcp_socket \o <<"reuseaddr", "bind", "listen">>
raw_bind == <<"bind">>
raw_listen == <<"listen">>
windows_tcp_listen == windows_new_tcp_socket \o <<"reuseaddr">> \o raw_bind \o raw_listen

\* An accept whose descriptor is closed by nobody when set_cloexec fails.
bsd_tcp_acceptOwnsLate == <<"accept">> \o bsd_set_cloexec \o <<"own">>

linux_tcp_accept == <<"accept_cloexec", "own">>
bsd_tcp_accept == <<"accept", "own">> \o bsd_set_cloexec
raw_accept == IF backend = "trackw" THEN <<"accept">> ELSE <<"accept", "unpack">>
windows_tcp_accept == raw_accept \o <<"own">>

linux_unix_connect == linux_new_unix_socket \o <<"pack", "connect">>
bsd_unix_connect == bsd_new_unix_socket \o <<"pack", "connect">>
raw_connect_unix == <<"pack", "connect">>
windows_unix_connect == windows_new_unix_socket \o raw_connect_unix

linux_unix_listen == linux_new_unix_socket \o <<"pack", "bind", "chmod", "listen">>
bsd_unix_listen == bsd_new_unix_socket \o <<"pack", "bind", "chmod", "listen">>
raw_bind_unix == <<"pack", "bind">>
windows_unix_listen == windows_new_unix_socket \o raw_bind_unix \o raw_listen

linux_unix_accept == <<"accept_cloexec", "own", "unpack">>
bsd_unix_accept == <<"accept", "own">> \o bsd_set_cloexec \o <<"unpack">>
raw_accept_unix == <<"accept", "unpack">>
windows_unix_accept == raw_accept_unix \o <<"own">>

linux_udp_bind == linux_new_udp_socket \o <<"bind">>
bsd_udp_bind == bsd_new_udp_socket \o <<"bind">>
windows_udp_bind == windows_new_udp_socket \o raw_bind

\* The portable operations, by backend.
LinuxNet ==
    [tcp_connect |-> linux_tcp_connect, tcp_listen |-> linux_tcp_listen,
     unix_connect |-> linux_unix_connect, unix_listen |-> linux_unix_listen,
     udp_bind |-> linux_udp_bind]
BsdNet ==
    [tcp_connect |-> bsd_tcp_connect, tcp_listen |-> bsd_tcp_listen,
     unix_connect |-> bsd_unix_connect, unix_listen |-> bsd_unix_listen,
     udp_bind |-> bsd_udp_bind]
WindowsNet ==
    [tcp_connect |-> windows_tcp_connect, tcp_listen |-> windows_tcp_listen,
     unix_connect |-> windows_unix_connect, unix_listen |-> windows_unix_listen,
     udp_bind |-> windows_udp_bind]
LinuxTcpListener == [tcp_accept |-> linux_tcp_accept]
LinuxUnixListener == [unix_accept |-> linux_unix_accept]
BsdTcpListener == [tcp_accept |-> bsd_tcp_accept]
BsdUnixListener == [unix_accept |-> bsd_unix_accept]
WindowsTcpListener == [tcp_accept |-> windows_tcp_accept]
WindowsUnixListener == [unix_accept |-> windows_unix_accept]

Script(op) ==
    LET by(linux, bsd, windows) ==
            CASE backend = "linux" -> linux[op] [] backend = "bsd" -> bsd[op] [] OTHER -> windows[op]
    IN CASE op = "tcp_accept" -> by(LinuxTcpListener, BsdTcpListener, WindowsTcpListener)
         [] op = "unix_accept" -> by(LinuxUnixListener, BsdUnixListener, WindowsUnixListener)
         [] OTHER -> by(LinuxNet, BsdNet, WindowsNet)

-----------------------------------------------------------------------------
(* Timeouts: SO_RCVTIMEO counts microseconds on the POSIX systems and      *)
(* milliseconds, in 32 bits, on Windows; zero means no timeout.  -1: None. *)

windows_set_read_timeoutWraps(d) == IF d = -1 THEN 0 ELSE (d \div Milli) % (MaxMillis + 1)

linux_set_read_timeout(d) == IF d = -1 THEN 0 ELSE d \div Micro
bsd_set_read_timeout(d) == IF d = -1 THEN 0 ELSE d \div Micro
windows_set_read_timeout(d) ==
    IF d = -1 THEN 0 ELSE IF d \div Milli > MaxMillis THEN MaxMillis ELSE d \div Milli

rcvtimeo(d) == CASE backend = "linux" -> linux_set_read_timeout(d)
                 [] backend = "bsd" -> bsd_set_read_timeout(d)
                 [] OTHER -> windows_set_read_timeout(d)

Unit == IF Windows THEN Milli ELSE Micro

-----------------------------------------------------------------------------
(* The kernel's sockets                                                    *)

NoSock == [st |-> "none"]
Open(s) == sock[s].st # "none"
NewSock(st, asked, inherit) ==
    [st |-> st, asked |-> asked, name |-> <<>>, peer |-> <<>>, reuse |-> FALSE,
     inherit |-> inherit, want |-> -1, timeo |-> 0, nonblock |-> FALSE, unread |-> FALSE,
     queue |-> <<>>]

\* The address as the kernel understands it.
KernelName(asked) == IF kind = "unix" THEN CString(asked) ELSE to_sockaddr(asked)

\* Winsock's SO_REUSEADDR lets a second socket have an address that is in use.
Taken(s) ==
    \E r \in Slots \ {s} :
        /\ Open(r) /\ sock[r].name # <<>> /\ sock[r].st \in {"bound", "listening"}
        /\ sock[r].name = KernelName(sock[s].asked)
        /\ ~(Windows /\ sock[r].reuse /\ sock[s].reuse)

Listeners(asked) == {r \in Slots : sock[r].st = "listening" /\ sock[r].name = KernelName(asked)}

-----------------------------------------------------------------------------
(* Running a script                                                        *)

Idle == [op |-> "none", todo |-> <<>>, asked |-> <<>>, on |-> 0, s |-> 0, owned |-> FALSE]
NoResult == [kind |-> "none", cause |-> "none", got |-> <<>>, want |-> <<>>]

Begin(t, op, asked) ==
    /\ call[t] = Idle
    /\ call' = [call EXCEPT ![t] = [Idle EXCEPT !.op = op, !.asked = asked, !.todo = Script(op)]]
    /\ result' = NoResult
    /\ UNCHANGED <<backend, kind, started, sock, held, leaked>>

BeginAccept(t, l) ==
    /\ call[t] = Idle
    /\ l \in held /\ sock[l].st = "listening"
    /\ LET op == IF kind = "tcp" THEN "tcp_accept" ELSE "unix_accept"
       IN call' = [call EXCEPT ![t] = [Idle EXCEPT !.op = op, !.on = l, !.todo = Script(op)]]
    /\ result' = NoResult
    /\ UNCHANGED <<backend, kind, started, sock, held, leaked>>

\* The operation goes on, or returns the socket when this was its last call.
Advance(t, s, owned) ==
    LET rest == Tail(call[t].todo)
    IN IF rest = <<>>
       THEN /\ call' = [call EXCEPT ![t] = Idle]
            /\ held' = held \union {s}
            /\ result' = [NoResult EXCEPT !.kind = "Ok"]
       ELSE /\ call' = [call EXCEPT ![t].todo = rest, ![t].s = s, ![t].owned = owned]
            /\ UNCHANGED <<held, result>>

\* An error return: the error is built from the call's code, then the owned
\* socket is closed.
Fail(t, cause) ==
    /\ call' = [call EXCEPT ![t] = Idle]
    /\ result' = [NoResult EXCEPT !.kind = Kind(call[t].op, cause), !.cause = cause]
    /\ sock' = IF call[t].s # 0 /\ call[t].owned THEN [sock EXCEPT ![call[t].s] = NoSock] ELSE sock
    /\ UNCHANGED <<backend, kind, started, held, leaked>>

AtCall(t, names) == call[t].todo # <<>> /\ Head(call[t].todo) \in names

Startup(t) ==
    /\ AtCall(t, {"startup"})
    /\ started' = TRUE
    /\ Advance(t, 0, FALSE)
    /\ UNCHANGED <<backend, kind, sock, leaked>>

Socket(t) ==
    /\ AtCall(t, {"socket", "socket_cloexec"})
    /\ \/ \E s \in Slots :
             /\ ~Open(s)
             /\ sock' = [sock EXCEPT ![s] =
                           NewSock("new", call[t].asked, Head(call[t].todo) = "socket")]
             /\ Advance(t, s, TRUE)
             /\ UNCHANGED <<backend, kind, started, leaked>>
       \/ Fail(t, "nofd")

\* Options and modes that only ever succeed or fail.
Set(t) ==
    /\ AtCall(t, {"cloexec", "reuseaddr", "chmod"})
    /\ LET s == call[t].s IN
       \/ /\ sock' = [sock EXCEPT ![s].inherit = @ /\ Head(call[t].todo) # "cloexec",
                                  ![s].reuse = @ \/ Head(call[t].todo) = "reuseaddr"]
          /\ Advance(t, s, call[t].owned)
          /\ UNCHANGED <<backend, kind, started, leaked>>
       \/ Fail(t, "denied")

Pack(t) ==
    /\ AtCall(t, {"pack"})
    /\ IF Refused_un(call[t].asked) THEN Fail(t, "badpath")
       ELSE Advance(t, call[t].s, TRUE) /\ UNCHANGED <<backend, kind, started, sock, leaked>>

Bind(t) ==
    /\ AtCall(t, {"bind"})
    /\ LET s == call[t].s IN
       \/ /\ ~Taken(s)
          /\ sock' = [sock EXCEPT ![s].st = "bound",
                                  ![s].name = KernelName(sock[s].asked)]
          /\ Advance(t, s, TRUE)
          /\ UNCHANGED <<backend, kind, started, leaked>>
       \/ Fail(t, IF Taken(s) THEN "inuse" ELSE "denied")

Listen(t) ==
    /\ AtCall(t, {"listen"})
    /\ \/ /\ sock' = [sock EXCEPT ![call[t].s].st = "listening"]
          /\ Advance(t, call[t].s, TRUE)
          /\ UNCHANGED <<backend, kind, started, leaked>>
       \/ Fail(t, "denied")

\* Bound: one connection waits at a listener.
Connect(t) ==
    /\ AtCall(t, {"connect"})
    /\ LET s == call[t].s
           there == Listeners(sock[s].asked)
       IN \/ \E l \in there :
                /\ sock[l].queue = <<>>
                /\ sock' = [sock EXCEPT ![s].st = "connected", ![s].peer = sock[l].name,
                                        ![l].queue = <<[name |-> <<>>]>>]
                /\ Advance(t, s, TRUE)
                /\ UNCHANGED <<backend, kind, started, leaked>>
          \/ there = {} /\ Fail(t, "refused")
          \/ kind = "unix" /\ ~Windows /\ there = {} /\ Fail(t, "missing")

Accept(t) ==
    /\ AtCall(t, {"accept", "accept_cloexec"})
    /\ LET l == call[t].on IN
       \/ /\ sock[l].queue # <<>>
          /\ \E s \in Slots :
                /\ ~Open(s)
                /\ sock' = [sock EXCEPT ![s] = [NewSock("connected", sock[l].asked,
                                                        Head(call[t].todo) = "accept")
                                                EXCEPT !.name = sock[l].name,
                                                       !.peer = sock[l].queue[1].name],
                                        ![l].queue = <<>>]
                /\ Advance(t, s, FALSE)
          /\ UNCHANGED <<backend, kind, started, leaked>>
       \/ Fail(t, "reset")

\* The raw descriptor becomes an OwnedFd or OwnedSocket.
Own(t) ==
    /\ AtCall(t, {"own"})
    /\ Advance(t, call[t].s, TRUE)
    /\ UNCHANGED <<backend, kind, started, sock, leaked>>

\* The name accept reported is read: windows-sys refuses a path that is not
\* UTF-8.  (It also refuses an address of neither IP family, which accept on
\* an IP socket does not report.)
Unpack(t) ==
    /\ AtCall(t, {"unpack"})
    /\ IF backend = "windows" /\ kind = "unix" /\ Unreadable(sock[call[t].s].peer)
       THEN Fail(t, "unreadable")
       ELSE /\ Advance(t, call[t].s, call[t].owned)
            /\ UNCHANGED <<backend, kind, started, sock, leaked>>

Step(t) == Startup(t) \/ Socket(t) \/ Set(t) \/ Pack(t) \/ Bind(t) \/ Listen(t)
           \/ Connect(t) \/ Accept(t) \/ Own(t) \/ Unpack(t)

-----------------------------------------------------------------------------
(* Operations on a socket the program holds                                *)

Usable(t, s) == call[t] = Idle /\ s \in held /\ \A u \in Thread : call[u].on # s

local_addr(t, s) ==
    /\ Usable(t, s)
    /\ sock[s].st \in {"bound", "listening"}
    /\ \E r \in IF kind = "unix" THEN Reported(sock[s].name) ELSE {sock[s].name} :
          result' =
             [kind |-> "local_addr", cause |-> "none", want |-> sock[s].asked,
              got |-> IF kind = "unix" THEN unix_addr(r, FALSE) ELSE from_sockaddr(r)]
    /\ UNCHANGED <<backend, kind, started, sock, held, call, leaked>>

unix_peer_addr(t, s) ==
    /\ Usable(t, s)
    /\ kind = "unix" /\ sock[s].st = "connected"
    /\ \E r \in Reported(sock[s].peer) :
          result' =
             IF Unreadable(sock[s].peer) THEN [NoResult EXCEPT !.kind = "Other", !.cause = "unreadable"]
             ELSE [kind |-> "peer_addr", cause |-> "none", got |-> unix_addr(r, TRUE),
                   want |-> sock[s].peer]
    /\ UNCHANGED <<backend, kind, started, sock, held, call, leaked>>

\* A refusal; of the mode it is told apart from the others as "mode".
SetOption(t, op, new) ==
    \/ sock' = new /\ result' = NoResult
    \/ /\ UNCHANGED sock
       /\ result' = [NoResult EXCEPT !.kind = Kind(op, "denied"),
                                      !.cause = IF op = "set_nonblocking" THEN "mode" ELSE "denied"]

set_read_timeout(t, s, d) ==
    /\ Usable(t, s)
    /\ kind = "tcp" /\ sock[s].st = "connected"
    /\ SetOption(t, "set_read_timeout", [sock EXCEPT ![s].want = d, ![s].timeo = rcvtimeo(d)])
    /\ UNCHANGED <<backend, kind, started, held, call, leaked>>

set_nonblocking(t, s, on) ==
    /\ Usable(t, s)
    /\ kind = "tcp" /\ sock[s].st = "connected"
    /\ SetOption(t, "set_nonblocking", [sock EXCEPT ![s].nonblock = on])
    /\ UNCHANGED <<backend, kind, started, held, call, leaked>>

BeginRead(t, s) ==
    /\ Usable(t, s)
    /\ kind = "tcp" /\ sock[s].st = "connected"
    /\ call' = [call EXCEPT ![t] = [Idle EXCEPT !.op = "read", !.on = s]]
    /\ result' = NoResult
    /\ UNCHANGED <<backend, kind, started, sock, held, leaked>>

ReadData(t) ==
    /\ call[t].op = "read" /\ sock[call[t].on].unread
    /\ sock' = [sock EXCEPT ![call[t].on].unread = FALSE]
    /\ call' = [call EXCEPT ![t] = Idle]
    /\ result' = [NoResult EXCEPT !.kind = "Ok"]
    /\ UNCHANGED <<backend, kind, started, held, leaked>>

\* A read that is simply repeated when nothing is there.
ReadNothingRetries(t) == call[t].op = "read" /\ UNCHANGED vars

\* Nothing there: at once when non-blocking, after SO_RCVTIMEO otherwise.
ReadNothing(t) ==
    /\ call[t].op = "read" /\ ~sock[call[t].on].unread
    /\ \/ sock[call[t].on].nonblock /\ Fail(t, "again")
       \/ /\ ~sock[call[t].on].nonblock /\ sock[call[t].on].timeo # 0
          /\ Fail(t, IF Windows THEN "expired" ELSE "again")

\* A datagram that does not fit is cut off; Winsock also reports WSAEMSGSIZE,
\* which raw_recvfrom returns as an error.
linux_udp_recv_from(n) == "recv_from"
bsd_udp_recv_from(n) == "recv_from"
raw_recvfrom(n) == IF n > Buffer THEN "Other" ELSE "recv_from"

linux_udp_send_to(a) == linux_to_sockaddr(a)
bsd_udp_send_to(a) == bsd_to_sockaddr(a)
raw_sendto(a) == IF backend = "trackw" THEN donor_to_sockaddr(to_donor_addr(a)) ELSE windows_to_sockaddr(a)
sendto(a) == CASE backend = "linux" -> linux_udp_send_to(a)
               [] backend = "bsd" -> bsd_udp_send_to(a)
               [] OTHER -> raw_sendto(a)

udp_send_to(t, s, a, n) ==
    /\ Usable(t, s)
    /\ kind = "udp"
    /\ sock' = [r \in Slots |-> IF sock[r].st = "bound"
                                   /\ sock[r].name = sendto(a) /\ sock[r].queue = <<>>
                                THEN [sock[r] EXCEPT !.queue = <<[name |-> sock[s].name, from |-> sock[s].asked, len |-> n]>>]
                                ELSE sock[r]]
    /\ result' = NoResult
    /\ UNCHANGED <<backend, kind, started, held, call, leaked>>

udp_recv_from(t, s) ==
    /\ Usable(t, s)
    /\ kind = "udp" /\ sock[s].queue # <<>>
    /\ LET d == sock[s].queue[1]
           r == CASE backend = "linux" -> linux_udp_recv_from(d.len)
                  [] backend = "bsd" -> bsd_udp_recv_from(d.len)
                  [] OTHER -> raw_recvfrom(d.len)
       IN /\ sock' = [sock EXCEPT ![s].queue = <<>>]
          /\ result' = [NoResult EXCEPT !.kind = r, !.got = from_sockaddr(d.name), !.want = d.from]
    /\ UNCHANGED <<backend, kind, started, held, call, leaked>>

drop(s) ==
    /\ s \in held /\ \A u \in Thread : call[u].on # s
    /\ held' = held \ {s}
    /\ sock' = [sock EXCEPT ![s] = NoSock]
    /\ UNCHANGED <<backend, kind, started, call, result, leaked>>

-----------------------------------------------------------------------------
(* The rest of the world                                                   *)

\* A child is spawned: it gets every inheritable socket of the process.
Spawn ==
    /\ leaked' = leaked \union {IF s \in held THEN "held" ELSE "creating" :
                                   s \in {r \in Slots : Open(r) /\ sock[r].inherit}}
    /\ UNCHANGED <<backend, kind, started, sock, held, call, result>>

\* Another process connects, from a socket bound to a name of its own.
StrangerConnects(l, name) ==
    /\ sock[l].st = "listening" /\ sock[l].queue = <<>>
    /\ kind = "tcp" => name = <<>>
    /\ sock' = [sock EXCEPT ![l].queue = <<[name |-> name]>>]
    /\ UNCHANGED <<backend, kind, started, held, call, result, leaked>>

PeerWrites(s) ==
    /\ sock[s].st = "connected" /\ kind = "tcp" /\ ~sock[s].unread
    /\ sock' = [sock EXCEPT ![s].unread = TRUE]
    /\ UNCHANGED <<backend, kind, started, held, call, result, leaked>>

Init ==
    /\ backend \in Backends
    /\ kind \in {"tcp", "unix", "udp"}
    /\ started = FALSE
    /\ sock = [s \in Slots |-> NoSock]
    /\ held = {}
    /\ call = [t \in Thread |-> Idle]
    /\ result = NoResult
    /\ leaked = {}

Next ==
    \/ \E t \in Thread :
          \/ \E op \in {"tcp_connect", "tcp_listen"}, a \in Inet : kind = "tcp" /\ Begin(t, op, a)
          \/ \E a \in Inet : kind = "udp" /\ Begin(t, "udp_bind", a)
          \/ \E op \in {"unix_connect", "unix_listen"}, p \in Paths : kind = "unix" /\ Begin(t, op, p)
          \/ Step(t) \/ ReadData(t) \/ ReadNothing(t)
          \/ \E s \in Slots :
                \/ BeginAccept(t, s) \/ BeginRead(t, s)
                \/ local_addr(t, s) \/ unix_peer_addr(t, s) \/ udp_recv_from(t, s)
                \/ \E d \in Durations : set_read_timeout(t, s, d)
                \/ \E on \in BOOLEAN : set_nonblocking(t, s, on)
                \/ \E a \in Inet, n \in Datagrams : udp_send_to(t, s, a, n)
    \/ \E s \in Slots :
          drop(s) \/ PeerWrites(s) \/ \E n \in Names : StrangerConnects(s, n)
    \/ Spawn

Spec == Init /\ [][Next]_vars

\* The kernel ends a read that has data or whose SO_RCVTIMEO has passed.
FairSpec == Spec /\ \A t \in Thread : WF_vars(ReadData(t) \/ ReadNothing(t))

-----------------------------------------------------------------------------
(* Properties                                                              *)

\* The shape of the state.
TypeOK ==
    /\ backend \in Backends /\ kind \in {"tcp", "unix", "udp"} /\ started \in BOOLEAN
    /\ held \subseteq {s \in Slots : Open(s)}
    /\ leaked \subseteq {"held", "creating"}
    /\ \A t \in Thread :
          /\ call[t].s \in Slots \union {0} /\ call[t].on \in Slots \union {0}
          /\ call[t].s # 0 => Open(call[t].s) /\ call[t].s \notin held
          /\ call[t].on # 0 => call[t].on \in held
    /\ (\E s \in Slots : Open(s)) => (Windows => started)

\* Whatever call fails in whatever order, every open socket belongs to a value
\* the program holds or to an operation in progress: nothing is left open by an
\* error return.  (The one exception is windows-sys's raw_accept_unix, when the
\* peer's name cannot be read.)
NoSocketLeaks ==
    \A s \in Slots :
        Open(s) => \/ s \in held
                   \/ \E t \in Thread : call[t].s = s
                   \/ backend = "windows" /\ kind = "unix" /\ 2 \in Bytes(sock[s].peer)

\* No child gets a socket of this program on Linux, and on the BSDs none but one
\* that is still being created (the window set_cloexec documents).
SocketsStayHome ==
    /\ backend = "linux" => leaked = {}
    /\ backend = "bsd" => "held" \notin leaked

\* local_addr, peer_addr and recv_from report the address that was bound, through every
\* backend's conversion there and back, however much of sun_path the kernel says
\* counts.  (Windows alone lets a path with a NUL through, and binds what is
\* before it.)
AddressesAreFaithful ==
    result.kind \in {"local_addr", "peer_addr", "recv_from"} =>
        \/ result.got = result.want
        \/ Windows /\ 0 \in Bytes(result.want) /\ result.got = CString(result.want)

\* The conditions a portable caller acts on have the same kind on every backend,
\* whichever of the error tables the call goes through; a read that finds nothing
\* in time is WouldBlock or TimedOut and never anything else.  (The exception is
\* Track W's set_nonblocking: its refusals go through the Win32 table, which the
\* code itself says means nothing for a Winsock code, and are always Other.)
KindsAreHonest ==
    /\ result.cause = "inuse" => result.kind = "AddrInUse"
    /\ result.cause = "refused" => result.kind = "ConnectionRefused"
    /\ result.cause = "badpath" => result.kind = "InvalidInput"
    /\ result.cause = "denied" => result.kind = "PermissionDenied"
    /\ result.cause = "mode" => result.kind = IF backend = "trackw" THEN "Other" ELSE "PermissionDenied"
    /\ result.cause \in {"again", "expired"} => result.kind \in {"WouldBlock", "TimedOut"}

\* A timeout of at least the system's unit stays one after the conversion (zero
\* would mean for ever) and is never longer than asked for.
TimeoutsBound ==
    \A s \in Slots :
        Open(s) /\ sock[s].want >= Unit =>
            sock[s].timeo # 0 /\ sock[s].timeo * Unit <= sock[s].want

\* The program's sockets and its operations own what is open, and nothing else
\* does, whichever call of a script fails.
SocketsAreOwned == TypeOK /\ NoSocketLeaks

\* Addresses, error kinds and timeouts mean the same on both sides of every
\* backend's conversions.
ConversionsAreFaithful == AddressesAreFaithful /\ KindsAreHonest /\ TimeoutsBound

\* tcp_listen: an address has one listener at a time.  (Not on Windows.)
OneListenerPerAddress ==
    \A s, r \in Slots :
        /\ sock[s].st = "listening" /\ sock[r].st = "listening"
        /\ kind = "tcp"
        => sock[s].name # sock[r].name \/ s = r

\* A read whose timeout is at least the system's unit ends, data or not.
ReadEnds ==
    \A t \in Thread :
        (call[t].op = "read" /\ sock[call[t].on].want >= Unit) ~> (call[t].op # "read")
=============================================================================
