---------------------------- MODULE SessionProofs ----------------------------
(***************************************************************************)
(* What a session relies on: that its terminal is given back as it was     *)
(* found (Terminals), and that its credential store tells the truth        *)
(* (SecretService).                                                        *)
(***************************************************************************)
EXTENDS Terminals, SecretService, SequenceTheorems, TLAPS

-----------------------------------------------------------------------------
(* Terminals                                                                *)

\* Consoles are numbered in the order they are made.
Numbers == /\ DOMAIN modes = 1..MaxConsoles
           /\ made \in 0..MaxConsoles /\ console \in 0..made
           /\ slot["stdin"] \in 0..made

\* What leave_raw will put back is what enter_raw found: while a call is
\* between its read and its write nothing is saved, and nothing was just left.
Saves == /\ saved # None => before = saved
         /\ doing = "enter_raw" => saved = None
         /\ left => doing = "nothing"

TermInv == Numbers /\ Saves /\ TerminalIsGivenBack

LEMMA TermStarts == ASSUME Consoles PROVE TermInit => TermInv
<1> SUFFICES ASSUME TermInit PROVE TermInv
  OBVIOUS
<1> USE DEF TermInit
<1>1. Numbers
  BY DEF Numbers, Consoles
<1>2. Saves /\ LeaveRestores /\ NeverStopped
  BY DEF Saves, LeaveRestores, NeverStopped
<1>3. StateIsHonest
  BY DEF StateIsHonest
<1>4. AcquiredIsUsable
  BY DEF AcquiredIsUsable
<1> QED
  BY <1>1, <1>2, <1>3, <1>4 DEF TermInv, TerminalIsGivenBack

\* Reading the modes starts a call and ends no other.
LEMMA TermBegins ==
    ASSUME TermInv, BeginEnter \/ BeginEcho PROVE TermInv'
<1> USE DEF BeginEnter, BeginEcho, acquisition, jobs
<1>1. Numbers'
  BY DEF TermInv, Numbers
<1>2. Saves' /\ LeaveRestores'
  BY DEF TermInv, Saves, LeaveRestores
<1>3. NeverStopped' /\ StateIsHonest' /\ AcquiredIsUsable'
  BY DEF TermInv, TerminalIsGivenBack, NeverStopped, StateIsHonest, AcquiredIsUsable, is_tty
<1> QED
  BY <1>1, <1>2, <1>3 DEF TermInv, TerminalIsGivenBack

\* Writing them keeps what was found.
LEMMA TermWrites ==
    ASSUME TermInv, linux_enter_raw \/ windows_enter_raw \/ (\E on \in BOOLEAN : set_echo(on))
    PROVE  TermInv'
<1> USE DEF linux_enter_raw, windows_enter_raw, set_echo, acquisition, jobs
<1>1. DOMAIN modes' = DOMAIN modes
  OBVIOUS
<1>2. Numbers'
  BY <1>1 DEF TermInv, Numbers
<1>3. ~left'
  BY DEF TermInv, Saves
<1>4. Saves'
  BY <1>3 DEF TermInv, Saves
<1>5. LeaveRestores'
  BY <1>3 DEF LeaveRestores
<1>6. UNCHANGED <<backend, console, slot, state, halfway, stopped>>
  OBVIOUS
<1>7. NeverStopped' /\ StateIsHonest' /\ AcquiredIsUsable'
  <2> HIDE DEF linux_enter_raw, windows_enter_raw, set_echo
  <2> QED
    BY <1>6 DEF TermInv, TerminalIsGivenBack, NeverStopped, StateIsHonest, AcquiredIsUsable, is_tty
<1> QED
  BY <1>2, <1>4, <1>5, <1>7 DEF TermInv, TerminalIsGivenBack

\* Leaving raw mode puts back what was saved, which is what was found.
LEMMA TermLeaves == ASSUME Consoles, TermInv, leave_raw PROVE TermInv'
<1> USE DEF leave_raw, acquisition, jobs
<1>1. DOMAIN modes' = DOMAIN modes
  OBVIOUS
<1>2. Numbers'
  BY <1>1 DEF TermInv, Numbers
<1>3. Saves'
  BY DEF TermInv, Saves
<1>4. LeaveRestores'
  <2> SUFFICES ASSUME left', before'.from = slot'["stdin"]
               PROVE  /\ modes'[before'.from].line = before'.line
                      /\ modes'[before'.from].echo = before'.echo
    BY DEF LeaveRestores
  <2>1. before' = saved /\ slot' = slot
    BY DEF TermInv, Saves
  <2>2. is_tty("stdin")
    OBVIOUS
  <2>3. slot["stdin"] \in DOMAIN modes
    BY <2>2 DEF TermInv, Numbers, Consoles, is_tty
  <2>4. PICK m \in Restored(modes[slot["stdin"]]) : modes' = [modes EXCEPT ![slot["stdin"]] = m]
    OBVIOUS
  <2>5. m.line = saved.line /\ m.echo = saved.echo
    BY <2>4 DEF Restored
  <2> QED
    BY <2>1, <2>3, <2>4, <2>5
<1>5. NeverStopped' /\ StateIsHonest' /\ AcquiredIsUsable'
  BY DEF TermInv, TerminalIsGivenBack, NeverStopped, StateIsHonest, AcquiredIsUsable, is_tty
<1> QED
  BY <1>2, <1>3, <1>4, <1>5 DEF TermInv, TerminalIsGivenBack

\* Others on the terminal, and a handover that ignores SIGTTOU first.
LEMMA TermShared ==
    ASSUME TermInv, Outsider \/ Elsewhere \/ (\E g \in Group : give_terminal(g))
    PROVE  TermInv'
<1> USE DEF Outsider, Elsewhere, give_terminal, acquisition, jobs
<1>1. DOMAIN modes' = DOMAIN modes
  OBVIOUS
<1>2. Numbers'
  BY <1>1 DEF TermInv, Numbers
<1>3. ~left'
  OBVIOUS
<1>4. Saves' /\ LeaveRestores'
  BY <1>3 DEF TermInv, Saves, LeaveRestores
<1>5. NeverStopped'
  BY DEF TermInv, TerminalIsGivenBack, NeverStopped, ignore_sigttou, tcsetpgrp
<1>6. StateIsHonest' /\ AcquiredIsUsable'
  BY DEF TermInv, TerminalIsGivenBack, StateIsHonest, AcquiredIsUsable, is_tty
<1> QED
  BY <1>2, <1>4, <1>5, <1>6 DEF TermInv, TerminalIsGivenBack

\* A console is acquired, with all three streams or half-way.
LEMMA TermAcquires ==
    ASSUME Consoles, TermInv, NEW kind \in {"Allocated", "Attached"}, Acquire(kind) PROVE TermInv'
<1> USE DEF Acquire, jobs
<1>1. DOMAIN modes' = DOMAIN modes
  OBVIOUS
<1>2. made' = made + 1 /\ console' = made' /\ made' \in 1..MaxConsoles
  BY DEF TermInv, Numbers, Consoles
<1>3. slot'["stdin"] \in {slot["stdin"], made'}
  BY DEF reopen_std_handles, Streams
<1>4. Numbers'
  BY <1>1, <1>2, <1>3 DEF TermInv, Numbers, Consoles
<1>5. Saves' /\ LeaveRestores' /\ NeverStopped'
  BY DEF TermInv, Saves, LeaveRestores, TerminalIsGivenBack, NeverStopped
<1>6. state = "None"
  BY DEF TermInv, TerminalIsGivenBack, StateIsHonest
<1>7. StateIsHonest'
  BY <1>2, <1>6 DEF StateIsHonest
<1>8. AcquiredIsUsable'
  <2>1. CASE state' = state
    BY <1>6, <2>1 DEF AcquiredIsUsable
  <2>2. CASE reopen_std_handles(made', 3)
    <3>1. \A s \in Streams : slot'[s] = made'
      BY <2>2 DEF reopen_std_handles, Streams
    <3> QED
      BY <3>1, <1>2 DEF AcquiredIsUsable, is_tty
  <2> QED
    BY <2>1, <2>2
<1> QED
  BY <1>4, <1>5, <1>7, <1>8 DEF TermInv, TerminalIsGivenBack

LEMMA TermFrees == ASSUME Consoles, TermInv, free_console PROVE TermInv'
<1> USE DEF free_console, jobs
<1>1. Numbers'
  BY DEF TermInv, Numbers, Consoles
<1>2. Saves' /\ LeaveRestores' /\ NeverStopped'
  BY DEF TermInv, Saves, LeaveRestores, TerminalIsGivenBack, NeverStopped
<1>3. StateIsHonest' /\ AcquiredIsUsable'
  BY DEF StateIsHonest, AcquiredIsUsable
<1> QED
  BY <1>1, <1>2, <1>3 DEF TermInv, TerminalIsGivenBack

\* TerminalIsGivenBack: for any number of consoles and process groups, leave_raw
\* puts back what the first enter_raw found, a handover never stops its caller,
\* and console_state and the standard streams are true of the console.
THEOREM TerminalsAreGivenBack == TermSpec => []TerminalIsGivenBack
<1> USE ConsoleAssumption
<1>1. TermInit => TermInv
  BY TermStarts
<1>2. TermInv /\ [TermNext]_tvars => TermInv'
  <2> SUFFICES ASSUME TermInv, [TermNext]_tvars PROVE TermInv'
    OBVIOUS
  <2>1. CASE BeginEnter \/ BeginEcho
    BY <2>1, TermBegins
  <2>2. CASE linux_enter_raw \/ windows_enter_raw \/ (\E on \in BOOLEAN : set_echo(on))
    BY <2>2, TermWrites
  <2>3. CASE leave_raw
    BY <2>3, TermLeaves
  <2>4. CASE Outsider \/ Elsewhere \/ (\E g \in Group : give_terminal(g))
    BY <2>4, TermShared
  <2>5. CASE alloc_console \/ attach_console
    BY <2>5, TermAcquires DEF alloc_console, attach_console
  <2>6. CASE free_console
    BY <2>6, TermFrees
  <2>7. CASE UNCHANGED tvars
    BY <2>7 DEF tvars, TermInv, Numbers, Saves, TerminalIsGivenBack, LeaveRestores,
                NeverStopped, StateIsHonest, AcquiredIsUsable, is_tty
  <2> QED
    BY <2>1, <2>2, <2>3, <2>4, <2>5, <2>6, <2>7 DEF TermNext
<1>3. TermInv => TerminalIsGivenBack
  BY DEF TermInv
<1> QED
  BY <1>1, <1>2, <1>3, PTL DEF TermSpec

-----------------------------------------------------------------------------
(* SecretService                                                            *)

Operations == {"available", "get", "set"}
Stores == [running : BOOLEAN, collection : BOOLEAN, locked : BOOLEAN, asks : BOOLEAN,
           item : {0} \cup Secrets]
Bodies == [done : BOOLEAN, prompt : BOOLEAN, value : {0} \cup Secrets]
Pieces == [to : Nat, kind : {"return", "error", "signal"}, body : Bodies,
           of : Calls \cup {"signal"}, piece : 1..2]

\* What an answer says is so, or was at some time since the operation began.
Truthful(m) ==
    /\ m.of = "ReadAlias" /\ m.body.done => store.collection
    /\ m.of = "Locked" /\ ~m.body.done => unlocked
    /\ m.of = "Unlock" /\ m.body.done => unlocked
    /\ m.of = "SearchItems" /\ ~m.body.done => 0 \in items
    /\ m.of = "GetSecret" => m.body.value \in items
    /\ m.of = "CreateItem" /\ ~m.body.prompt => want \in items

\* A serial is given out once: a message that bears the one that is awaited
\* answers the call that is made, and none does before the bus has answered.
Answers(m) ==
    /\ m.to < next_serial
    /\ at \in Calls /\ waiting # 0 /\ m.to = waiting => m.of = at
    /\ request # <<>> => m.to # waiting

Sound == {m \in Pieces : Answers(m) /\ (m.kind = "return" => Truthful(m))}

\* The request on its way is that of the call that is made.
Asked ==
    /\ next_serial \in Nat \ {0} /\ waiting \in 0..(next_serial - 1)
    /\ at \in {"connect", "auth"} => waiting = 0
    /\ request # <<>> => request = <<waiting, at>> /\ waiting # 0 /\ at \in Calls /\ open

\* How far an operation comes depends on what it was told.
Staged ==
    /\ at \in {"Locked", "Unlock", "SearchItems", "GetSecret", "CreateItem"} => store.collection
    /\ at \in {"SearchItems", "GetSecret", "CreateItem"} => unlocked

SecretInv ==
    /\ op \in Operations /\ want \in Secrets
    /\ store \in Stores /\ unlocked \in BOOLEAN /\ store.item \in items
    /\ Asked /\ Staged
    /\ wire \in Seq(Sound) /\ read_buf \in Seq(Sound)
    /\ SecretIsTrue

\* The store only ever adds to what was so.
Grows == /\ want' = want /\ store'.collection = store.collection
         /\ items \subseteq items' /\ (unlocked => unlocked')

LEMMA SoundStays ==
    ASSUME Grows, \A m \in Pieces : Answers(m) => Answers(m)'
    PROVE  Sound \subseteq Sound'
<1> SUFFICES ASSUME NEW m \in Sound PROVE m \in Sound'
  OBVIOUS
<1>1. m \in Pieces /\ Answers(m)'
  BY DEF Sound
<1>2. ASSUME m.kind = "return" PROVE Truthful(m)'
  BY <1>2 DEF Sound, Truthful, Grows
<1> QED
  BY <1>1, <1>2 DEF Sound

\* What is left of a sequence of messages, and what is taken of it.
LEMMA SoundParts ==
    ASSUME NEW S, NEW s \in Seq(S), NEW n \in Nat
    PROVE  SubSeq(s, n + 1, Len(s)) \in Seq(S) /\ (n <= Len(s) => SubSeq(s, 1, n) \in Seq(S))
<1>1. Len(s) \in Nat /\ \A i \in 1..Len(s) : s[i] \in S
  BY LenProperties, ElementOfSeq
<1>2. SubSeq(s, n + 1, Len(s)) \in Seq(S)
  <2>1. \A i \in (n + 1)..Len(s) : s[i] \in S
    BY <1>1
  <2> QED
    BY <2>1, <1>1, SubSeqProperties
<1>3. ASSUME n <= Len(s) PROVE SubSeq(s, 1, n) \in Seq(S)
  <2>1. \A i \in 1..n : s[i] \in S
    BY <1>1, <1>3
  <2> QED
    BY <2>1, SubSeqProperties
<1> QED
  BY <1>2, <1>3

\* encode makes two pieces of one message.
LEMMA EncodeSound ==
    ASSUME NEW S, NEW to, NEW kind, NEW body, NEW of, NEW s \in Seq(S),
           \A i \in 1..2 : [to |-> to, kind |-> kind, body |-> body, of |-> of, piece |-> i] \in S
    PROVE  s \o encode(to, kind, body, of) \in Seq(S)
<1>1. encode(to, kind, body, of) \in [1..2 -> S]
  BY DEF encode
<1>2. encode(to, kind, body, of) \in Seq(S)
  <2>1. Seq(S) = UNION {[1..n -> S] : n \in Nat}
    BY SeqDef
  <2>2. [1..2 -> S] \in {[1..n -> S] : n \in Nat}
    OBVIOUS
  <2> QED
    BY <1>1, <2>1, <2>2
<1> QED
  BY <1>2, ConcatProperties

LEMMA SecretStarts == ServiceInit => SecretInv
<1> SUFFICES ASSUME ServiceInit PROVE SecretInv
  OBVIOUS
<1> USE DEF ServiceInit
<1>1. op \in Operations /\ store \in Stores /\ want \in Secrets /\ store.item \in items
  BY DEF Stores, Operations
<1>2. unlocked \in BOOLEAN
  BY <1>1 DEF Usable, Stores
<1>3. Asked /\ Staged
  BY DEF Asked, Staged
<1>4. wire \in Seq(Sound) /\ read_buf \in Seq(Sound)
  BY EmptySeq
<1>5. SecretIsTrue
  BY DEF SecretIsTrue, RepliesMatch, GetIsTruthful, SetIsStored, AvailableIsUsable, Pending
<1> QED
  BY <1>1, <1>2, <1>3, <1>4, <1>5 DEF SecretInv

\* A step that says nothing new of the store and takes no message: the
\* connection, a request, a failure.
LEMMA SecretQuiet ==
    ASSUME SecretInv, UNCHANGED <<op, want, store, unlocked, items, wire, read_buf, accepted>>,
           Asked', Staged', \A m \in Pieces : Answers(m) => Answers(m)',
           result' = result \/ result'.is \in {"Unavailable", "Err"}
    PROVE  SecretInv'
<1>1. Sound \subseteq Sound'
  BY SoundStays DEF Grows
<1>2. (wire \in Seq(Sound))' /\ (read_buf \in Seq(Sound))'
  BY <1>1, SeqMonotonic DEF SecretInv
<1>3. SecretIsTrue'
  BY DEF SecretInv, SecretIsTrue, RepliesMatch, GetIsTruthful, SetIsStored, AvailableIsUsable
<1>4. (op \in Operations /\ store \in Stores /\ want \in Secrets /\ unlocked \in BOOLEAN /\ store.item \in items)'
  BY DEF SecretInv, Stores, Operations
<1> QED
  BY <1>2, <1>3, <1>4 DEF SecretInv

LEMMA SecretConnects ==
    ASSUME SecretInv, connect_session_bus \/ sasl_external_handshake PROVE SecretInv'
<1> USE DEF connect_session_bus, sasl_external_handshake, Finish
<1>1. at \notin Calls /\ at' \in {"auth", "Hello", "done"}
  BY DEF Calls
<1>2. request = <<>>
  BY <1>1 DEF SecretInv, Asked
<1>3. Asked' /\ Staged'
  BY <1>1, <1>2 DEF SecretInv, Asked, Staged
<1>4. waiting = 0
  BY DEF SecretInv, Asked
<1>5. \A m \in Pieces : Answers(m) => Answers(m)'
  BY <1>2, <1>4 DEF Answers
<1>6. result' = result \/ result'.is \in {"Unavailable", "Err"}
  BY DEF unreachable_err, Answer
<1> QED
  BY <1>3, <1>5, <1>6, SecretQuiet

LEMMA SecretSends == ASSUME SecretInv, Send PROVE SecretInv'
<1> USE DEF Send, Finish
<1>1. next_serial \in Nat \ {0} /\ request = <<>> /\ at \in Calls /\ at \notin {"connect", "auth"}
  BY DEF SecretInv, Asked, Calls
<1>2. CASE open
  <2>1. Asked'
    BY <1>1, <1>2 DEF Asked
  <2>2. Staged'
    BY <1>2 DEF SecretInv, Staged
  <2>3. \A m \in Pieces : Answers(m) => Answers(m)'
    BY <1>1, <1>2 DEF Answers, Pieces
  <2> QED
    BY <1>2, <2>1, <2>2, <2>3, SecretQuiet
<1>3. CASE ~open
  <2>1. Asked' /\ Staged'
    BY <1>1, <1>3 DEF SecretInv, Asked, Staged
  <2>2. \A m \in Pieces : Answers(m) => Answers(m)'
    BY <1>1, <1>3 DEF Answers, Calls
  <2>3. result'.is \in {"Unavailable", "Err"}
    BY <1>3 DEF unreachable_err, Answer
  <2> QED
    BY <1>3, <2>1, <2>2, <2>3, SecretQuiet
<1> QED
  BY <1>2, <1>3

\* What is read is what was on its way; a connection that ended ends the call.
LEMMA SecretReceives == ASSUME SecretInv, Receive PROVE SecretInv'
<1> USE DEF Receive, Finish
<1>1. CASE UNCHANGED <<at, result>>
  <2>1. Sound' = Sound
    BY <1>1 DEF Sound, Pieces, Answers, Truthful, Calls
  <2>2. PICK n \in 1..Len(wire) : /\ read_buf' = read_buf \o SubSeq(wire, 1, n)
                                  /\ wire' = SubSeq(wire, n + 1, Len(wire))
    BY <1>1 DEF Calls
  <2>3. n \in Nat /\ n <= Len(wire)
    BY LenProperties DEF SecretInv
  <2>4. (wire \in Seq(Sound))' /\ (read_buf \in Seq(Sound))'
    BY <2>1, <2>2, <2>3, SoundParts, ConcatProperties DEF SecretInv
  <2>5. Asked' /\ Staged'
    BY <1>1 DEF SecretInv, Asked, Staged
  <2>6. SecretIsTrue'
    BY <1>1 DEF SecretInv, SecretIsTrue, RepliesMatch, GetIsTruthful, SetIsStored, AvailableIsUsable
  <2> QED
    BY <2>4, <2>5, <2>6 DEF SecretInv, Stores, Operations
<1>2. CASE /\ wire = <<>> /\ ~open /\ at' = "done" /\ result' = unreachable_err
           /\ UNCHANGED <<read_buf, wire>>
  <2>1. Asked' /\ Staged'
    BY <1>2 DEF SecretInv, Asked, Staged
  <2>2. \A m \in Pieces : Answers(m) => Answers(m)'
    BY <1>2 DEF Answers, Calls
  <2>3. result'.is \in {"Unavailable", "Err"}
    BY <1>2 DEF unreachable_err, Answer
  <2> QED
    BY <1>2, <2>1, <2>2, <2>3, SecretQuiet
<1> QED
  BY <1>1, <1>2

LEMMA SecretDiscards == ASSUME SecretInv, Discard PROVE SecretInv'
<1> USE DEF Discard
<1>1. Sound' = Sound
  BY DEF Sound, Pieces, Answers, Truthful, Calls
<1>2. SubSeq(read_buf, 3, Len(read_buf)) \in Seq(Sound)
  BY SoundParts DEF SecretInv
<1>3. Asked' /\ Staged'
  BY DEF SecretInv, Asked, Staged
<1>4. SecretIsTrue'
  BY DEF SecretInv, SecretIsTrue, RepliesMatch, GetIsTruthful, SetIsStored, AvailableIsUsable
<1> QED
  BY <1>1, <1>2, <1>3, <1>4 DEF SecretInv, Stores, Operations

\* Where an answer leads to, and what is made of it.
Leads ==
    /\ at' \notin {"connect", "auth"}
    /\ at' \in {"Locked", "Unlock", "SearchItems", "GetSecret", "CreateItem"} => store.collection
    /\ at' \in {"SearchItems", "GetSecret", "CreateItem"} => unlocked
    /\ result'.is \in {"None", "Some"} => result'.value \in items
    /\ result'.is = "Ok" => want \in items
    /\ result'.is \in {"Available", "None", "Some", "Ok"} => unlocked

\* The message that is accepted answers the call, so that where it leads to and
\* what is made of it are true.
LEMMA SecretAccepts == ASSUME SecretInv, Accept PROVE SecretInv'
<1> DEFINE m == read_buf[1]
<1>1. /\ at \in Calls /\ waiting # 0 /\ m.to = waiting
      /\ accepted' = <<at, m.of>> /\ waiting' = 0
      /\ read_buf' = SubSeq(read_buf, 3, Len(read_buf))
      /\ UNCHANGED <<op, want, next_serial, request, wire, open, store, items, unlocked>>
      /\ Len(read_buf) >= 2
  BY LenProperties DEF Accept, decode_message, SecretInv
<1>2. m \in Sound
  BY <1>1, ElementOfSeq, LenProperties DEF SecretInv
<1>3. m.of = at /\ request = <<>>
  BY <1>1, <1>2 DEF Sound, Answers
<1>4. /\ store \in Stores /\ want \in Secrets /\ unlocked \in BOOLEAN /\ store.item \in items
      /\ Staged /\ op \in Operations
  BY DEF SecretInv
<1>5. \/ /\ at' = "done" /\ result' = unreachable_err
      \/ /\ m.kind = "return" /\ at \in {"SearchItems", "GetSecret"} /\ get_with(m.body)
      \/ /\ m.kind = "return" /\ at = "CreateItem" /\ set_with(m.body)
      \/ /\ m.kind = "return" /\ at \in {"Hello", "OpenSession", "ReadAlias", "Locked", "Unlock"}
         /\ prepare_session_over(m.body)
  BY <1>1 DEF Accept, Finish, Calls
<1> HIDE DEF m
<1> USE DEF Leads
<1>6. Leads
  <2>1. CASE at' = "done" /\ result' = unreachable_err
    BY <2>1 DEF unreachable_err, Answer
  <2>2. CASE m.kind = "return" /\ at \in {"SearchItems", "GetSecret"} /\ get_with(m.body)
    <3>1. Truthful(m) /\ store.collection /\ unlocked
      BY <1>2, <1>4, <2>2 DEF Sound, Staged
    <3>2. CASE at = "SearchItems"
      <4>1. IF m.body.done THEN at' = "GetSecret" /\ UNCHANGED result
            ELSE at' = "done" /\ result' = Answer("None", 0)
        BY <2>2, <3>2 DEF get_with, Finish
      <4>2. ~m.body.done => 0 \in items
        BY <1>3, <3>1, <3>2 DEF Truthful
      <4> QED
        BY <4>1, <4>2, <3>1 DEF Answer, SecretInv, SecretIsTrue, GetIsTruthful, SetIsStored, AvailableIsUsable
    <3>3. CASE at = "GetSecret"
      BY <1>3, <2>2, <3>1, <3>3 DEF get_with, Finish, Answer, Truthful
    <3> QED
      BY <2>2, <3>2, <3>3
  <2>3. CASE m.kind = "return" /\ at = "CreateItem" /\ set_with(m.body)
    <3>1. Truthful(m) /\ store.collection /\ unlocked
      BY <1>2, <1>4, <2>3 DEF Sound, Staged
    <3>2. ~m.body.prompt => want \in items
      BY <1>3, <3>1, <2>3 DEF Truthful
    <3>3. at' = "done" /\ result' = IF m.body.prompt THEN Answer("Err", 0) ELSE Answer("Ok", 0)
      BY <2>3 DEF set_with, Finish
    <3> QED
      BY <3>1, <3>2, <3>3 DEF Answer
  <2>4. CASE /\ m.kind = "return" /\ at \in {"Hello", "OpenSession", "ReadAlias", "Locked", "Unlock"}
             /\ prepare_session_over(m.body)
    <3>1. Truthful(m)
      BY <1>2, <2>4 DEF Sound
    <3>2. /\ result.is \in {"None", "Some"} => result.value \in items
          /\ result.is = "Ok" => want \in items
          /\ result.is \in {"Available", "None", "Some", "Ok"} => unlocked
      BY DEF SecretInv, SecretIsTrue, GetIsTruthful, SetIsStored, AvailableIsUsable
    <3>3. CASE at' = "done" /\ result' = unreachable_err
      BY <3>3 DEF unreachable_err, Answer
    <3>4. ASSUME Ready, unlocked, store.collection PROVE Leads
      <4>1. \/ at' = "done" /\ result' = Answer("Available", 0)
            \/ at' \in {"SearchItems", "CreateItem"} /\ result' = result
        BY <1>4, <3>4 DEF Ready, Finish, Operations
      <4> QED
        BY <4>1, <3>2, <3>4 DEF Answer
    <3>5. CASE at \in {"Hello", "OpenSession"}
      <4>1. at' \in {"OpenSession", "ReadAlias"} /\ result' = result
        BY <2>4, <3>5 DEF prepare_session_over
      <4> QED
        BY <3>2, <4>1
    <3>6. CASE at = "ReadAlias"
      <4>1. m.body.done => store.collection
        BY <1>3, <3>1, <3>6 DEF Truthful
      <4>2. \/ m.body.done /\ at' = "Locked" /\ result' = result
            \/ at' = "done" /\ result' = unreachable_err
        BY <2>4, <3>6 DEF prepare_session_over, Finish
      <4> QED
        BY <3>2, <3>3, <4>1, <4>2
    <3>7. CASE at = "Locked"
      <4>1. store.collection /\ (~m.body.done => unlocked)
        BY <1>3, <1>4, <3>1, <3>7 DEF Truthful, Staged
      <4>2. \/ at' = "Unlock" /\ result' = result
            \/ ~m.body.done /\ Ready
        BY <2>4, <3>7 DEF prepare_session_over
      <4> QED
        BY <3>2, <3>4, <4>1, <4>2
    <3>8. CASE at = "Unlock"
      <4>1. store.collection /\ (m.body.done => unlocked)
        BY <1>3, <1>4, <3>1, <3>8 DEF Truthful, Staged
      <4>2. \/ m.body.done /\ Ready
            \/ at' = "done" /\ result' = unreachable_err
        BY <2>4, <3>8 DEF prepare_session_over, UnlockAnswer, Finish
      <4> QED
        BY <3>3, <3>4, <4>1, <4>2
    <3> QED
      BY <2>4, <3>5, <3>6, <3>7, <3>8
  <2> QED
    BY <1>5, <2>1, <2>2, <2>3, <2>4
<1>7. Asked' /\ Staged'
  BY <1>1, <1>3, <1>6 DEF SecretInv, Asked, Staged
<1>8. SecretIsTrue'
  <2>1. GetIsTruthful' /\ SetIsStored' /\ AvailableIsUsable'
    BY <1>1, <1>6 DEF GetIsTruthful, SetIsStored, AvailableIsUsable
  <2>2. RepliesMatch'
    BY <1>1, <1>3 DEF RepliesMatch
  <2> QED
    BY <2>1, <2>2 DEF SecretIsTrue
<1>9. (wire \in Seq(Sound))' /\ (read_buf \in Seq(Sound))'
  <2>1. \A x \in Pieces : Answers(x) => Answers(x)'
    BY <1>1, <1>3 DEF Answers
  <2>2. Sound \subseteq Sound'
    BY <1>1, <2>1, SoundStays DEF Grows
  <2>3. SubSeq(read_buf, 3, Len(read_buf)) \in Seq(Sound)
    BY SoundParts DEF SecretInv
  <2> QED
    BY <1>1, <2>2, <2>3, SeqMonotonic DEF SecretInv
<1> QED
  BY <1>1, <1>4, <1>7, <1>8, <1>9 DEF SecretInv

\* The store changes, and what it was meanwhile is remembered.
Changes ==
    /\ store' \in Stores /\ store'.collection = store.collection
    /\ items' = items \cup {store'.item} /\ unlocked' = (unlocked \/ Usable(store'))
    /\ UNCHANGED <<op, want, at, next_serial, waiting, open, read_buf, result, accepted>>

LEMMA SecretChanges ==
    ASSUME SecretInv, Changes, Asked', \A m \in Pieces : Answers(m) => Answers(m)',
           wire' \in Seq(Sound')
    PROVE  SecretInv'
<1>1. /\ want' = want /\ items \subseteq items' /\ store'.item \in items'
      /\ (unlocked => unlocked') /\ (unlocked \in BOOLEAN)'
  BY DEF Changes, SecretInv, Usable, Stores
<1>2. Sound \subseteq Sound'
  BY <1>1, SoundStays DEF Grows, Changes
<1>3. (read_buf \in Seq(Sound))'
  BY <1>2, SeqMonotonic DEF SecretInv, Changes
<1>4. Staged'
  BY <1>1 DEF SecretInv, Staged, Changes
<1>5. SecretIsTrue'
  <2>1. UNCHANGED <<want, result, accepted>>
    BY DEF Changes
  <2> QED
    BY <1>1, <2>1 DEF SecretInv, SecretIsTrue, RepliesMatch, GetIsTruthful, SetIsStored,
                      AvailableIsUsable
<1>6. (op \in Operations /\ want \in Secrets /\ store \in Stores)'
  BY DEF SecretInv, Changes
<1> QED
  BY <1>1, <1>3, <1>4, <1>5, <1>6 DEF SecretInv

\* An answer is true of the store when it is given: of a request made when the
\* collection was known, and that is not refused.
LEMMA ServesTruly ==
    ASSUME SecretInv, NEW m \in Calls, m = at, ~Refuses(m, store),
           store' = Serve(m, store)[2],
           items' = items \cup {store'.item}, unlocked' = (unlocked \/ Usable(store')), want' = want
    PROVE  /\ Serve(m, store)[1] \in Bodies /\ store' \in Stores
           /\ store'.collection = store.collection
           /\ \A r \in Pieces : r.of = m /\ r.body = Serve(m, store)[1] => Truthful(r)'
<1>1. /\ store \in Stores /\ store.item \in items /\ Staged /\ want \in Secrets
  BY DEF SecretInv
<1>2. CASE m \in {"Hello", "OpenSession"}
  <2>1. Serve(m, store) = <<Nothing, store>>
    BY <1>2 DEF Serve
  <2>2. Nothing \in Bodies
    BY DEF Nothing, Body, Bodies
  <2> QED
    BY <1>1, <1>2, <2>1, <2>2 DEF Truthful
<1>3. CASE m = "ReadAlias"
  <2>1. Serve(m, store) = <<Body(store.collection, FALSE, 0), store>>
    BY <1>3 DEF Serve
  <2>2. Body(store.collection, FALSE, 0) \in Bodies /\ (Body(store.collection, FALSE, 0).done <=> store.collection)
    BY <1>1 DEF Body, Bodies, Stores
  <2>3. store' = store /\ store' \in Stores
    BY <1>1, <2>1
  <2>4. store' = store
    BY <2>3
  <2>5. ASSUME NEW r \in Pieces, r.of = m, r.body = Body(store.collection, FALSE, 0) PROVE Truthful(r)'
    BY <1>3, <2>2, <2>4, <2>5 DEF Truthful
  <2>6. Serve(m, store)[1] = Body(store.collection, FALSE, 0)
    BY <2>1
  <2> QED
    BY <2>2, <2>3, <2>5, <2>6, Zenon
<1>4. CASE m = "Locked"
  <2>1. Serve(m, store) = <<Body(store.locked, FALSE, 0), store>>
    BY <1>4 DEF Serve
  <2>2. Body(store.locked, FALSE, 0) \in Bodies /\ (Body(store.locked, FALSE, 0).done <=> store.locked)
    BY <1>1 DEF Body, Bodies, Stores
  <2>3. store' = store /\ store' \in Stores
    BY <1>1, <2>1
  <2>4. store.locked \/ unlocked'
    BY <1>1, <1>4, <2>3 DEF Usable, Refuses, Staged
  <2>5. ASSUME NEW r \in Pieces, r.of = m, r.body = Body(store.locked, FALSE, 0) PROVE Truthful(r)'
    BY <1>4, <2>2, <2>4, <2>5 DEF Truthful
  <2>6. Serve(m, store)[1] = Body(store.locked, FALSE, 0)
    BY <2>1
  <2> QED
    BY <2>2, <2>3, <2>5, <2>6, Zenon
<1>5. CASE m = "Unlock"
  <2>1. Serve(m, store) = <<Body(~store.asks, store.asks, 0), [store EXCEPT !.locked = store.locked /\ store.asks]>>
    BY <1>5 DEF Serve
  <2>2. Body(~store.asks, store.asks, 0) \in Bodies /\ (Body(~store.asks, store.asks, 0).done <=> ~store.asks)
    BY <1>1 DEF Body, Bodies, Stores
  <2>3. store' \in Stores /\ store'.collection = store.collection
    BY <1>1, <2>1 DEF Stores
  <2>4. store.asks \/ unlocked'
    BY <1>1, <1>5, <2>1 DEF Usable, Refuses, Staged, Stores
  <2>5. ASSUME NEW r \in Pieces, r.of = m, r.body = Body(~store.asks, store.asks, 0) PROVE Truthful(r)'
    BY <1>5, <2>2, <2>4, <2>5 DEF Truthful
  <2>6. Serve(m, store)[1] = Body(~store.asks, store.asks, 0)
    BY <2>1
  <2> QED
    BY <2>2, <2>3, <2>5, <2>6, Zenon
<1>6. CASE m = "SearchItems"
  <2>1. Serve(m, store) = <<Body(store.item # 0, FALSE, 0), store>>
    BY <1>6 DEF Serve
  <2>2. Body(store.item # 0, FALSE, 0) \in Bodies /\ (Body(store.item # 0, FALSE, 0).done <=> store.item # 0)
    BY <1>1 DEF Body, Bodies, Stores
  <2>3. store' = store /\ store' \in Stores
    BY <1>1, <2>1
  <2>4. store.item # 0 \/ 0 \in items'
    BY <1>1
  <2>5. ASSUME NEW r \in Pieces, r.of = m, r.body = Body(store.item # 0, FALSE, 0) PROVE Truthful(r)'
    BY <1>6, <2>2, <2>4, <2>5 DEF Truthful
  <2>6. Serve(m, store)[1] = Body(store.item # 0, FALSE, 0)
    BY <2>1
  <2> QED
    BY <2>2, <2>3, <2>5, <2>6, Zenon
<1>7. CASE m = "GetSecret"
  <2>1. Serve(m, store) = <<Body(TRUE, FALSE, store.item), store>>
    BY <1>7 DEF Serve
  <2>2. Body(TRUE, FALSE, store.item) \in Bodies /\ (Body(TRUE, FALSE, store.item).value = store.item)
    BY <1>1 DEF Body, Bodies, Stores
  <2>3. store' = store /\ store' \in Stores
    BY <1>1, <2>1
  <2>4. store.item \in items'
    BY <1>1
  <2>5. ASSUME NEW r \in Pieces, r.of = m, r.body = Body(TRUE, FALSE, store.item) PROVE Truthful(r)'
    BY <1>7, <2>2, <2>4, <2>5 DEF Truthful
  <2>6. Serve(m, store)[1] = Body(TRUE, FALSE, store.item)
    BY <2>1
  <2> QED
    BY <2>2, <2>3, <2>5, <2>6, Zenon
<1>8. CASE m = "CreateItem"
  <2>1. Serve(m, store) = <<Body(TRUE, store.asks, 0), [store EXCEPT !.item = IF store.asks THEN store.item ELSE want]>>
    BY <1>8 DEF Serve
  <2>2. Body(TRUE, store.asks, 0) \in Bodies /\ (Body(TRUE, store.asks, 0).prompt <=> store.asks)
    BY <1>1 DEF Body, Bodies, Stores
  <2>3. store' \in Stores /\ store'.collection = store.collection
    BY <1>1, <2>1 DEF Stores
  <2>4. store.asks \/ want' \in items'
    BY <1>1, <2>1 DEF Stores
  <2>5. ASSUME NEW r \in Pieces, r.of = m, r.body = Body(TRUE, store.asks, 0) PROVE Truthful(r)'
    BY <1>8, <2>2, <2>4, <2>5 DEF Truthful
  <2>6. Serve(m, store)[1] = Body(TRUE, store.asks, 0)
    BY <2>1
  <2> QED
    BY <2>2, <2>3, <2>5, <2>6, Zenon
<1> QED
  BY <1>2, <1>3, <1>4, <1>5, <1>6, <1>7, <1>8 DEF Calls

LEMMA SecretAnswered == ASSUME SecretInv, BusAnswers PROVE SecretInv'
<1> DEFINE m == request[2]
<1>1. /\ request = <<waiting, at>> /\ m = at /\ at \in Calls /\ waiting # 0 /\ request' = <<>>
      /\ UNCHANGED <<op, want, at, next_serial, waiting, read_buf, open, result, accepted>>
      /\ items' = items \cup {store'.item} /\ unlocked' = (unlocked \/ Usable(store'))
      /\ next_serial \in Nat \ {0} /\ waiting \in 0..(next_serial - 1)
  BY DEF SecretInv, Asked, BusAnswers
<1>2. Asked' /\ \A r \in Pieces : Answers(r) => Answers(r)'
  BY <1>1 DEF Asked, Answers, Calls
<1>3. PICK kind \in {"return", "error"}, body \in Bodies :
         /\ wire' = wire \o encode(waiting, kind, body, at)
         /\ store' \in Stores /\ store'.collection = store.collection
         /\ kind = "return" => \A r \in Pieces : r.of = at /\ r.body = body => Truthful(r)'
  <2>1. CASE Reply("error", Nothing) /\ UNCHANGED store
    <3>1. Nothing \in Bodies
      BY DEF Nothing, Body, Bodies
    <3>2. wire' = wire \o encode(waiting, "error", Nothing, at)
      BY <1>1, <2>1 DEF Reply
    <3> QED
      BY <2>1, <3>1, <3>2 DEF SecretInv
  <2>2. CASE /\ ~Refuses(m, store)
             /\ Reply("return", Serve(m, store)[1]) /\ store' = Serve(m, store)[2]
    <3>1. wire' = wire \o encode(waiting, "return", Serve(at, store)[1], at)
      BY <1>1, <2>2 DEF Reply
    <3> QED
      BY <1>1, <2>2, <3>1, ServesTruly
  <2> QED
    BY <2>1, <2>2 DEF BusAnswers
<1> HIDE DEF m
<1>4. Changes
  BY <1>1, <1>3 DEF Changes
<1>5. wire \in Seq(Sound')
  <2>1. Grows
    BY <1>4 DEF Changes, Grows
  <2> QED
    BY <1>2, <2>1, SoundStays, SeqMonotonic DEF SecretInv
<1>6. \A i \in 1..2 : [to |-> waiting, kind |-> kind, body |-> body, of |-> at, piece |-> i] \in Sound'
  <2> SUFFICES ASSUME NEW i \in 1..2
               PROVE  [to |-> waiting, kind |-> kind, body |-> body, of |-> at, piece |-> i] \in Sound'
    OBVIOUS
  <2> DEFINE r == [to |-> waiting, kind |-> kind, body |-> body, of |-> at, piece |-> i]
  <2>1. r \in Pieces /\ r.of = at /\ r.body = body /\ r.kind = kind /\ r.to = waiting
    BY <1>1 DEF Pieces
  <2>2. PICK x : x = r
    OBVIOUS
  <2> HIDE DEF r
  <2>3. Answers(x)'
    BY <1>1, <2>1, <2>2 DEF Answers
  <2>4. kind = "return" => Truthful(x)'
    BY <1>3, <2>1, <2>2
  <2> QED
    BY <2>1, <2>2, <2>3, <2>4 DEF Sound, r
<1>7. wire' \in Seq(Sound')
  BY <1>3, <1>5, <1>6, EncodeSound
<1> QED
  BY <1>2, <1>4, <1>7, SecretChanges

LEMMA SecretSignalled == ASSUME SecretInv, BusSignals PROVE SecretInv'
<1>1. /\ UNCHANGED <<op, want, at, next_serial, waiting, request, read_buf, open, store, result,
                     accepted, items, unlocked>>
      /\ wire' = wire \o encode(0, "signal", Nothing, "signal") /\ at \in Calls
  BY DEF BusSignals
<1>2. Sound' = Sound
  BY <1>1 DEF Sound, Pieces, Answers, Truthful, Calls
<1>3. \A i \in 1..2 : [to |-> 0, kind |-> "signal", body |-> Nothing, of |-> "signal", piece |-> i] \in Sound
  BY DEF Sound, Pieces, Bodies, Nothing, Body, Answers, SecretInv, Asked
<1>4. wire' \in Seq(Sound)
  BY <1>1, <1>3, EncodeSound DEF SecretInv
<1>5. Asked' /\ Staged' /\ SecretIsTrue'
  BY <1>1 DEF SecretInv, Asked, Staged, SecretIsTrue, RepliesMatch, GetIsTruthful, SetIsStored,
              AvailableIsUsable
<1> QED
  BY <1>1, <1>2, <1>4, <1>5 DEF SecretInv, Stores, Operations

LEMMA SecretCloses == ASSUME SecretInv, BusCloses PROVE SecretInv'
<1> USE DEF BusCloses
<1>1. Asked' /\ Staged'
  BY DEF SecretInv, Asked, Staged
<1>2. \A m \in Pieces : Answers(m) => Answers(m)'
  BY DEF Answers
<1> QED
  BY <1>1, <1>2, SecretQuiet

LEMMA SecretOthers == ASSUME SecretInv, Others PROVE SecretInv'
<1>1. /\ UNCHANGED <<op, want, at, next_serial, waiting, request, wire, read_buf, open, result, accepted>>
      /\ items' = items \cup {store'.item} /\ unlocked' = (unlocked \/ Usable(store'))
  BY DEF Others
<1>2. store' \in Stores /\ store'.collection = store.collection
  BY DEF Others, SecretInv, Stores
<1>3. Changes
  BY <1>1, <1>2 DEF Changes
<1>4. Asked'
  BY <1>1 DEF SecretInv, Asked
<1>5. \A m \in Pieces : Answers(m) => Answers(m)'
  BY <1>1 DEF Answers
<1>6. wire' \in Seq(Sound')
  <2>1. Grows
    BY <1>3 DEF Changes, Grows
  <2> QED
    BY <1>1, <1>5, <2>1, SoundStays, SeqMonotonic DEF SecretInv
<1> QED
  BY <1>3, <1>4, <1>5, <1>6, SecretChanges

\* SecretIsTrue: for any number of signals and of changes by others, a D-Bus
\* call takes the reply to its own request, and get, set and available report
\* only what was so at some time during the operation.
THEOREM SecretsAreAlwaysTrue == ServiceSpec => []SecretIsTrue
<1>1. SecretInv /\ [ServiceNext]_cvars => SecretInv'
  <2> SUFFICES ASSUME SecretInv, [ServiceNext]_cvars PROVE SecretInv'
    OBVIOUS
  <2>1. CASE connect_session_bus \/ sasl_external_handshake
    BY <2>1, SecretConnects
  <2>2. CASE Send
    BY <2>2, SecretSends
  <2>3. CASE Receive
    BY <2>3, SecretReceives
  <2>4. CASE Discard
    BY <2>4, SecretDiscards
  <2>5. CASE Accept
    BY <2>5, SecretAccepts
  <2>6. CASE BusAnswers
    BY <2>6, SecretAnswered
  <2>7. CASE BusSignals
    BY <2>7, SecretSignalled
  <2>8. CASE BusCloses
    BY <2>8, SecretCloses
  <2>9. CASE Others
    BY <2>9, SecretOthers
  <2>10. CASE UNCHANGED cvars
    <3>1. Asked' /\ Staged' /\ \A m \in Pieces : Answers(m) => Answers(m)'
      BY <2>10 DEF cvars, SecretInv, Asked, Staged, Answers
    <3> QED
      BY <2>10, <3>1, SecretQuiet DEF cvars
  <2> QED
    BY <2>1, <2>2, <2>3, <2>4, <2>5, <2>6, <2>7, <2>8, <2>9, <2>10 DEF ServiceNext
<1>2. SecretInv => SecretIsTrue
  BY DEF SecretInv
<1> QED
  BY <1>1, <1>2, SecretStarts, PTL DEF ServiceSpec
=============================================================================
