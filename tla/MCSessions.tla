----------------------------- MODULE MCSessions -----------------------------
(* Small instances of what a session of the platform is made of: Linux      *)
(* children in their groups, the terminal and its consoles, the command     *)
(* lines of Windows programs, the credential store, and the messages of the *)
(* bus it is reached by.  One behaviour is of one part; what the others     *)
(* keep stays as it was.                                                    *)
EXTENDS LinuxProcess, Terminals, SecretService, TLC

VARIABLES
    part,
    program, args,   \* WinArgv
    msg              \* DBusWire

\* Every unit the parsers treat in a way of its own, and one they do not.
Argv == INSTANCE WinArgv WITH
    Unit <- {"a", " ", "\\", "\"", "%", "0", "'"}, MaxArgs <- 2, MaxUnits <- 4,
    Programs <- {<<"p", ".", "C", "m", "D">>, <<"p", " ", "q">>, <<"p", ".", "b", "A", "T">>, <<"b", "a", "t">>}

\* Every alignment, empty and nested containers, a dictionary, and the Secret
\* that the service hands out; a method call and its answer.
V(t, x) == [t |-> t, x |-> x, e |-> <<>>]
Arr(e, x) == [t |-> "a", x |-> x, e |-> e]
Text == <<47, 97>>
DictEntry(v) == V("{", <<V("s", Text), V("v", <<v>>)>>)
SomeValues ==
    {V("y", 7), V("b", 1), V("q", 258), V("u", 65539), V("s", <<>>), V("g", <<"a", "{", "s", "v", "}">>),
     V("v", <<Arr(<<"y">>, <<V("y", 3)>>)>>), Arr(<<"t">>, <<>>), Arr(<<"t">>, <<V("t", 1), V("t", 2)>>),
     Arr(<<"s">>, <<V("s", Text), V("s", <<>>)>>),
     Arr(<<"{", "s", "v", "}">>, <<DictEntry(V("s", Text)), DictEntry(V("b", 0))>>),
     V("(", <<V("(", <<V("y", 1)>>), V("u", 2)>>),
     V("(", <<V("o", Text), Arr(<<"y">>, <<>>), Arr(<<"y">>, <<V("y", 255)>>), V("s", Text)>>)}
Header(type, fields) ==
    [message_type |-> type, flags |-> 0, serial |-> 300, signature |-> <<>>, body |-> <<>>,
     fields |-> [c \in 1..7 |-> IF c \in DOMAIN fields THEN <<fields[c]>> ELSE <<>>]]
SomeHeaders ==
    {Header(1, (1 :> Text) @@ (2 :> <<105>>) @@ (3 :> <<109>>) @@ (6 :> Text)),
     Header(2, (5 :> 2) @@ (7 :> <<58, 49>>))}
Wire == INSTANCE DBusWire WITH MaxBody <- 2, Values <- SomeValues, Headers <- SomeHeaders

argv == <<program, args>>

-----------------------------------------------------------------------------
(* Two pids and three processes are enough for a pid to be recycled under a *)
(* handle; two handles for two children that share a group.                 *)

TwoPids == {11, 12}
TheGroup == 10

\* The pgids a job-control caller passes: those of its earlier children.
GroupsOfChildren == Pid

OneCode == {1}
KillDeath == {9}
KillAndStop == {"Kill", "Stop"}

Symmetry == Permutations(Handle)

-----------------------------------------------------------------------------
\* Where a part that does not run has several initial states, it is in one.
PartsInit ==
    /\ part \in {"linux", "term", "argv", "secret", "wire"}
    /\ Init /\ TermInit /\ ServiceInit
    /\ IF part = "argv" THEN Argv!ArgvInit ELSE program = 0 /\ args = 0
    /\ IF part = "wire" THEN Wire!WireInit ELSE msg = 0
    /\ part = "term" \/ (backend = "linux" /\ foreground = Own /\ slot["stdout"] = 1)
    /\ \/ part = "secret"
       \/ /\ op = "get" /\ want = 1 /\ store.item = 0
          /\ store.running /\ store.collection /\ ~store.locked /\ ~store.asks

PartsNext ==
    /\ UNCHANGED part
    /\ \/ part = "linux" /\ Next /\ UNCHANGED <<tvars, argv, cvars, msg>>
       \/ part = "term" /\ TermNext /\ UNCHANGED <<vars, argv, cvars, msg>>
       \/ part = "argv" /\ Argv!ArgvNext /\ UNCHANGED <<vars, tvars, cvars, msg>>
       \/ part = "secret" /\ ServiceNext /\ UNCHANGED <<vars, tvars, argv, msg>>
       \/ part = "wire" /\ Wire!WireNext /\ UNCHANGED <<vars, tvars, argv, cvars>>

PartsSpec == PartsInit /\ [][PartsNext]_<<part, vars, tvars, argv, cvars, msg>>

-----------------------------------------------------------------------------
(* The properties of the encodings                                          *)

\* A Windows program gets the arguments it was given, cmd interprets nothing in
\* those of a batch file, and a POSIX shell makes each argument of its word.  On
\* the bus a message is laid out as the specification says, read as what was
\* sent, and never taken for complete before it is.
EncodingsSurvive ==
    /\ part = "argv" => Argv!ArgvRoundTrip /\ Argv!BatchIsInert /\ Argv!ShellRoundTrip
    /\ part = "wire" => Wire!ValuesSurvive /\ Wire!MessagesSurvive /\ Wire!PrefixIsIncomplete
=============================================================================
