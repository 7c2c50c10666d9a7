---------------------------- MODULE SecretService ----------------------------
(***************************************************************************)
(* The Linux credential store: one call of available, get or set, made of  *)
(* a connection to the session bus and up to six D-Bus calls, each of      *)
(* which sends a request under a serial and reads the byte stream until a  *)
(* message answers that serial.  A message arrives in two pieces, signals  *)
(* arrive in between, the bus may close the connection, and other clients  *)
(* and the user change the store, lock it, or stop the service while the   *)
(* call is on its way.                                                     *)
(***************************************************************************)
EXTENDS Integers, Sequences

CONSTANTS
    Secrets,      \* secrets; 0 stands for none
    MaxSignals,   \* signals the bus sends
    MaxMeddling   \* changes by others

VARIABLES
    op, want,     \* the operation, and the secret that set stores
    at,           \* where it is: connecting, authenticating, the call it is in, or done
    next_serial,  \* Connection::next_serial
    waiting,      \* the serial whose answer is awaited, or 0
    request,      \* what was sent and the bus has not answered: <<serial, member>>, or <<>>
    wire,         \* pieces of messages on their way to the client
    read_buf,     \* Connection::read_buf
    open,         \* the bus keeps the connection open
    store,        \* the service: running, default collection, locked, asks the user, secret
    result,       \* what the operation returned
    accepted,     \* the call that took a reply, and the call it was the reply to
    items,        \* the secrets the store has held since the operation began
    unlocked,     \* whether the collection has been open to it meanwhile
    signals, meddling

cvars == <<op, want, at, next_serial, waiting, request, wire, read_buf, open, store, result,
           accepted, items, unlocked, signals, meddling>>

Pending == [is |-> "pending", value |-> 0]
Answer(kind, v) == [is |-> kind, value |-> v]
Usable(s) == s.running /\ s.collection /\ ~s.locked

ServiceInit ==
    /\ op \in {"available", "get", "set"} /\ want \in Secrets
    /\ at = "connect" /\ next_serial = 1 /\ waiting = 0
    /\ request = <<>> /\ wire = <<>> /\ read_buf = <<>> /\ open = TRUE
    /\ store \in [running : BOOLEAN, collection : BOOLEAN, locked : BOOLEAN, asks : BOOLEAN,
                  item : {0} \cup Secrets]
    /\ result = Pending /\ accepted = <<"none", "none">>
    /\ items = {store.item} /\ unlocked = Usable(store)
    /\ signals = 0 /\ meddling = 0

-----------------------------------------------------------------------------
(* The connection                                                           *)

\* What an operation returns when the store cannot be used, for whatever
\* reason.
unreachable_err == IF op = "available" THEN Answer("Unavailable", 0) ELSE Answer("Err", 0)

Finish(r) == at' = "done" /\ result' = r

\* Every address is tried in turn; the last error counts.
connect_session_bus ==
    /\ at = "connect"
    /\ \/ open /\ at' = "auth" /\ UNCHANGED result
       \/ Finish(unreachable_err)
    /\ UNCHANGED <<op, want, next_serial, waiting, request, wire, read_buf, open, store, accepted,
                   items, unlocked, signals, meddling>>

\* NUL, AUTH EXTERNAL, a line that begins with OK, BEGIN.
sasl_external_handshake ==
    /\ at = "auth"
    /\ \/ open /\ at' = "Hello" /\ UNCHANGED result
       \/ Finish(unreachable_err)
    /\ UNCHANGED <<op, want, next_serial, waiting, request, wire, read_buf, open, store, accepted,
                   items, unlocked, signals, meddling>>

-----------------------------------------------------------------------------
(* A call: send, and read until the answer is there                         *)

Calls == {"Hello", "OpenSession", "ReadAlias", "Locked", "Unlock", "SearchItems", "GetSecret",
          "CreateItem"}

\* The first half of Connection::call.  A write to a closed connection fails.
Send ==
    /\ at \in Calls /\ waiting = 0
    /\ IF open
       THEN /\ request' = <<next_serial, at>> /\ waiting' = next_serial
            /\ next_serial' = next_serial + 1 /\ UNCHANGED <<at, result>>
       ELSE Finish(unreachable_err) /\ UNCHANGED <<request, waiting, next_serial>>
    /\ UNCHANGED <<op, want, wire, read_buf, open, store, accepted, items, unlocked, signals, meddling>>

\* A message in two pieces: what the fixed header promises may not be there.
encode(to, kind, body, of) ==
    [i \in 1..2 |-> [to |-> to, kind |-> kind, body |-> body, of |-> of, piece |-> i]]

\* How much of the buffer its first message takes; 0 if it is not complete.
decode_message(buf) == IF Len(buf) >= 2 THEN 2 ELSE 0

\* Some of what has arrived is read; nothing, if the connection is closed.
Receive ==
    /\ at \in Calls /\ waiting # 0 /\ decode_message(read_buf) = 0
    /\ \/ \E n \in 1..Len(wire) :
             /\ read_buf' = read_buf \o SubSeq(wire, 1, n)
             /\ wire' = SubSeq(wire, n + 1, Len(wire)) /\ UNCHANGED <<at, result>>
       \/ wire = <<>> /\ ~open /\ Finish(unreachable_err) /\ UNCHANGED <<read_buf, wire>>
    /\ UNCHANGED <<op, want, next_serial, waiting, request, open, store, accepted, items, unlocked,
                   signals, meddling>>

\* A message that answers another serial, or none, is thrown away.
Discard ==
    /\ at \in Calls /\ waiting # 0 /\ decode_message(read_buf) > 0 /\ read_buf[1].to # waiting
    /\ read_buf' = SubSeq(read_buf, 3, Len(read_buf))
    /\ UNCHANGED <<op, want, at, next_serial, waiting, request, wire, open, store, result, accepted,
                   items, unlocked, signals, meddling>>

-----------------------------------------------------------------------------
(* What the operations make of the answers                                  *)

\* The session is there, and the collection open.
Ready ==
    CASE op = "available" -> Finish(Answer("Available", 0))
      [] op = "get" -> at' = "SearchItems" /\ UNCHANGED result
      [] op = "set" -> at' = "CreateItem" /\ UNCHANGED result

\* An unlocking that is not complete, or needs the user, is none.
UnlockAnswer(body) == IF body.done /\ ~body.prompt THEN Ready ELSE Finish(unreachable_err)

prepare_session_over(body) ==
    CASE at = "Hello" -> at' = "OpenSession" /\ UNCHANGED result
      [] at = "OpenSession" -> at' = "ReadAlias" /\ UNCHANGED result
      [] at = "ReadAlias" -> IF body.done THEN at' = "Locked" /\ UNCHANGED result
                             ELSE Finish(unreachable_err)
      [] at = "Locked" -> IF body.done THEN at' = "Unlock" /\ UNCHANGED result ELSE Ready
      [] at = "Unlock" -> UnlockAnswer(body)

get_with(body) ==
    CASE at = "SearchItems" -> IF body.done THEN at' = "GetSecret" /\ UNCHANGED result
                               ELSE Finish(Answer("None", 0))
      [] at = "GetSecret" -> Finish(Answer("Some", body.value))

\* An item that waits for the user's consent has not been made.
set_with(body) ==
    at = "CreateItem" /\ Finish(IF body.prompt THEN Answer("Err", 0) ELSE Answer("Ok", 0))

\* The reply is the first message there is.
AcceptFirst ==
    /\ at \in Calls /\ waiting # 0 /\ decode_message(read_buf) > 0
    /\ LET m == read_buf[1] IN
       /\ accepted' = <<at, m.of>>
       /\ IF m.kind # "return" THEN Finish(unreachable_err)
          ELSE CASE at \in {"SearchItems", "GetSecret"} -> get_with(m.body)
                 [] at = "CreateItem" -> set_with(m.body)
                 [] OTHER -> prepare_session_over(m.body)
    /\ read_buf' = SubSeq(read_buf, 3, Len(read_buf)) /\ waiting' = 0
    /\ UNCHANGED <<op, want, next_serial, request, wire, open, store, items, unlocked, signals, meddling>>

\* The second half of call, and what its caller does: an error reply, and a
\* body of an unexpected shape, end the operation.
Accept ==
    /\ at \in Calls /\ waiting # 0 /\ decode_message(read_buf) > 0 /\ read_buf[1].to = waiting
    /\ LET m == read_buf[1] IN
       /\ accepted' = <<at, m.of>>
       /\ IF m.kind # "return" THEN Finish(unreachable_err)
          ELSE CASE at \in {"SearchItems", "GetSecret"} -> get_with(m.body)
                 [] at = "CreateItem" -> set_with(m.body)
                 [] OTHER -> prepare_session_over(m.body)
    /\ read_buf' = SubSeq(read_buf, 3, Len(read_buf)) /\ waiting' = 0
    /\ UNCHANGED <<op, want, next_serial, request, wire, open, store, items, unlocked, signals, meddling>>

-----------------------------------------------------------------------------
(* The bus, the service, and the others                                     *)

Body(done, prompt, v) == [done |-> done, prompt |-> prompt, value |-> v]

Reply(kind, body) ==
    wire' = wire \o encode(request[1], kind, body, request[2])

Nothing == Body(FALSE, FALSE, 0)

\* The answer, and what it does to the store.
Serve(m, s) ==
    CASE m = "Hello" -> <<Nothing, s>>
      [] m = "OpenSession" -> <<Nothing, s>>
      [] m = "ReadAlias" -> <<Body(s.collection, FALSE, 0), s>>
      [] m = "Locked" -> <<Body(s.locked, FALSE, 0), s>>
      [] m = "Unlock" -> <<Body(~s.asks, s.asks, 0), [s EXCEPT !.locked = @ /\ s.asks]>>
      [] m = "SearchItems" -> <<Body(s.item # 0, FALSE, 0), s>>
      [] m = "GetSecret" -> <<Body(TRUE, FALSE, s.item), s>>
      [] m = "CreateItem" -> <<Body(TRUE, s.asks, 0), [s EXCEPT !.item = IF s.asks THEN @ ELSE want]>>

\* What the service refuses: everything while it is not there; a secret that is
\* locked or gone; an item in a locked collection.
Refuses(m, s) ==
    \/ m # "Hello" /\ ~s.running
    \/ m = "GetSecret" /\ (s.locked \/ s.item = 0)
    \/ m = "CreateItem" /\ s.locked

BusAnswers ==
    /\ request # <<>> /\ open
    /\ IF Refuses(request[2], store) THEN Reply("error", Nothing) /\ UNCHANGED store
       ELSE \/ Reply("return", Serve(request[2], store)[1]) /\ store' = Serve(request[2], store)[2]
            \/ Reply("error", Nothing) /\ UNCHANGED store
    /\ request' = <<>>
    /\ items' = items \cup {store'.item} /\ unlocked' = (unlocked \/ Usable(store'))
    /\ UNCHANGED <<op, want, at, next_serial, waiting, read_buf, open, result, accepted, signals, meddling>>

\* NameAcquired, and whatever else is broadcast.
BusSignals ==
    /\ open /\ at \in Calls /\ signals < MaxSignals
    /\ wire' = wire \o encode(0, "signal", Nothing, "signal") /\ signals' = signals + 1
    /\ UNCHANGED <<op, want, at, next_serial, waiting, request, read_buf, open, store, result, accepted,
                   items, unlocked, meddling>>

BusCloses ==
    /\ open
    /\ open' = FALSE /\ request' = <<>>
    /\ UNCHANGED <<op, want, at, next_serial, waiting, wire, read_buf, store, result, accepted, items,
                   unlocked, signals, meddling>>

\* Another client writes or deletes the secret, the user locks the collection
\* or unlocks it, the service starts or stops.
Others ==
    /\ at # "done" /\ meddling < MaxMeddling
    /\ \/ \E v \in {0} \cup Secrets : store' = [store EXCEPT !.item = v]
       \/ store' = [store EXCEPT !.locked = ~@]
       \/ store' = [store EXCEPT !.running = ~@]
    /\ meddling' = meddling + 1
    /\ items' = items \cup {store'.item} /\ unlocked' = (unlocked \/ Usable(store'))
    /\ UNCHANGED <<op, want, at, next_serial, waiting, request, wire, read_buf, open, result, accepted,
                   signals>>

-----------------------------------------------------------------------------
ServiceNext ==
    \/ connect_session_bus \/ sasl_external_handshake
    \/ Send \/ Receive \/ Discard \/ Accept
    \/ BusAnswers \/ BusSignals \/ BusCloses \/ Others

ServiceSpec == ServiceInit /\ [][ServiceNext]_cvars

-----------------------------------------------------------------------------
\* A call takes the reply to its own request and no other message, whatever
\* arrives before it and in however many pieces.
RepliesMatch == accepted[1] = accepted[2]

\* get says that nothing is stored only if nothing was, at some time during the
\* call, and returns only a secret that was: a store that is out of reach is an
\* error, and never a secret that is missing.
GetIsTruthful == result.is \in {"None", "Some"} => result.value \in items

\* set succeeds only if the store has held the secret since.
SetIsStored == result.is = "Ok" => want \in items

\* available says so only if the collection was there and open at some time
\* during the call, and get and set work on no other.
AvailableIsUsable == result.is \in {"Available", "None", "Some", "Ok"} => unlocked

\* What the operations report is true of the store: the four together
\* (Connection::call, get_with, set_with, prepare_session_over).
SecretIsTrue == RepliesMatch /\ GetIsTruthful /\ SetIsStored /\ AvailableIsUsable
=============================================================================
