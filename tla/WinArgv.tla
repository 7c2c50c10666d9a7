------------------------------- MODULE WinArgv -------------------------------
(***************************************************************************)
(* The winargv crate: one command line out of a program and its arguments, *)
(* quoted so that the program's own parser takes it apart into the same    *)
(* arguments again (CommandLineToArgvW for an executable, cmd for a batch  *)
(* file), and one word for a POSIX shell out of an argument.  The three    *)
(* parsers are references, written from their documented rules; a state is *)
(* a list of arguments, and the steps reach all of them up to a size.      *)
(***************************************************************************)
EXTENDS Integers, Sequences, SequencesExt

CONSTANTS
    Unit,        \* the units that occur in arguments
    Programs,    \* resolved programs
    MaxArgs, MaxUnits

VARIABLES program, args

wvars == <<program, args>>

\* SPACE stands for the tab too, PERCENT for the line ends cmd cannot hold.
QUOTE == "\""
BACKSLASH == "\\"
SPACE == " "
NUL == "0"
PERCENT == "%"
APOSTROPHE == "'"

Refused == <<"refused">>
Repeat(u, n) == [i \in 1..n |-> u]
Holds(s, units) == \E i \in DOMAIN s : s[i] \in units

-----------------------------------------------------------------------------
(* The crate                                                                *)

\* An ASCII capital and its small letter are 32 apart.
Small == [A |-> "a", B |-> "b", C |-> "c", D |-> "d", E |-> "e", F |-> "f", G |-> "g", H |-> "h",
          I |-> "i", J |-> "j", K |-> "k", L |-> "l", M |-> "m", N |-> "n", O |-> "o", P |-> "p",
          Q |-> "q", R |-> "r", S |-> "s", T |-> "t", U |-> "u", V |-> "v", W |-> "w", X |-> "x",
          Y |-> "y", Z |-> "z"]
Lower(u) == IF u \in DOMAIN Small THEN Small[u] ELSE u

\* The last four units of the resolved program decide, in either case.
classify(prog) ==
    IF Len(prog) >= 4
       /\ [i \in 1..4 |-> Lower(prog[Len(prog) - 4 + i])]
           \in {<<".", "b", "a", "t">>, <<".", "c", "m", "d">>}
    THEN "Batch" ELSE "Executable"

\* Backslashes before a quote are doubled and one more escapes it.
EscapeUnit(acc, u) ==
    IF u = BACKSLASH THEN [out |-> Append(acc.out, u), backslashes |-> acc.backslashes + 1]
    ELSE [out |-> acc.out \o Repeat(BACKSLASH, IF u = QUOTE THEN acc.backslashes + 1 ELSE 0) \o <<u>>,
          backslashes |-> 0]

\* The closing quote follows whatever there is.
quote_arg_undoubled(arg) ==
    LET body == FoldLeft(EscapeUnit, [out |-> <<>>, backslashes |-> 0], arg) IN
    IF arg = <<>> \/ Holds(arg, {SPACE, QUOTE})
    THEN <<QUOTE>> \o body.out \o <<QUOTE>>
    ELSE body.out

\* Backslashes before the closing quote are doubled too.
quote_arg_into(arg) ==
    LET body == FoldLeft(EscapeUnit, [out |-> <<>>, backslashes |-> 0], arg) IN
    IF arg = <<>> \/ Holds(arg, {SPACE, QUOTE})
    THEN <<QUOTE>> \o body.out \o Repeat(BACKSLASH, body.backslashes) \o <<QUOTE>>
    ELSE body.out

DoubleQuote(acc, u) == acc \o (IF u = QUOTE THEN <<QUOTE, QUOTE>> ELSE <<u>>)

\* What cmd would expand or cannot hold is refused, everything else quoted.
quote_batch_arg_into(arg) ==
    IF Holds(arg, {NUL, PERCENT}) THEN Refused
    ELSE <<QUOTE>> \o FoldLeft(DoubleQuote, <<>>, arg) \o <<QUOTE>>

build_command_line_wide ==
    LET Quoted(a) == IF classify(program) = "Batch" THEN quote_batch_arg_into(a) ELSE quote_arg_into(a)
        AddArg(line, a) == IF line = Refused \/ Quoted(a) = Refused THEN Refused
                           ELSE line \o <<SPACE>> \o Quoted(a) IN
    IF program = <<>> \/ Holds(program, {NUL}) \/ \E i \in DOMAIN args : Holds(args[i], {NUL})
    THEN Refused
    ELSE FoldLeft(AddArg, quote_arg_into(program), args)

\* Some of the shell's metacharacters; the others are quoted in the same way.
Meta == {SPACE, APOSTROPHE, QUOTE, BACKSLASH}

CloseEscapeReopen(acc, u) ==
    acc \o (IF u = APOSTROPHE THEN <<APOSTROPHE, BACKSLASH, APOSTROPHE, APOSTROPHE>> ELSE <<u>>)

posix_quote_arg(arg) ==
    IF arg # <<>> /\ ~Holds(arg, Meta) THEN arg
    ELSE <<APOSTROPHE>> \o FoldLeft(CloseEscapeReopen, <<>>, arg) \o <<APOSTROPHE>>

-----------------------------------------------------------------------------
(* The parsers                                                              *)

\* CommandLineToArgvW: backslashes count only before a quote.
Flush(acc) == acc.word \o Repeat(BACKSLASH, acc.bs)
TakeUnit(acc, u) ==
    CASE u = BACKSLASH -> [acc EXCEPT !.bs = @ + 1, !.any = TRUE]
      [] u = QUOTE -> [acc EXCEPT !.bs = 0, !.any = TRUE,
                                  !.word = @ \o Repeat(BACKSLASH, acc.bs \div 2)
                                             \o (IF acc.bs % 2 = 1 THEN <<QUOTE>> ELSE <<>>),
                                  !.inside = IF acc.bs % 2 = 1 THEN @ ELSE ~@]
      [] u = SPACE /\ ~acc.inside ->
             [words |-> IF acc.any THEN Append(acc.words, Flush(acc)) ELSE acc.words,
              word |-> <<>>, any |-> FALSE, bs |-> 0, inside |-> FALSE]
      [] OTHER -> [acc EXCEPT !.word = Append(Flush(acc), u), !.bs = 0, !.any = TRUE]
CommandLineToArgvW(line) ==
    FoldLeft(TakeUnit, [words |-> <<>>, word |-> <<>>, any |-> FALSE, bs |-> 0, inside |-> FALSE],
             Append(line, SPACE)).words

\* cmd: a quote switches, and what stands outside of quotes separates or is
\* interpreted.
Switch(acc, u) ==
    CASE u = QUOTE -> [acc EXCEPT !.inside = ~@, !.word = Append(@, u)]
      [] u = SPACE /\ ~acc.inside -> [acc EXCEPT !.words = Append(@, acc.word), !.word = <<>>]
      [] OTHER -> [acc EXCEPT !.word = Append(@, u), !.bare = @ \/ ~acc.inside]
Split(line) ==
    FoldLeft(Switch, [words |-> <<>>, word |-> <<>>, inside |-> FALSE, bare |-> FALSE],
             Append(line, SPACE))

\* A POSIX shell: the word it makes of what is written, if it is one.
ShellUnit(acc, u) ==
    CASE acc.mode = "quoted" -> IF u = APOSTROPHE THEN [acc EXCEPT !.mode = "plain"]
                                ELSE [acc EXCEPT !.word = Append(@, u)]
      [] acc.mode = "escaped" -> [acc EXCEPT !.mode = "plain", !.word = Append(@, u)]
      [] acc.mode = "plain" /\ u = APOSTROPHE -> [acc EXCEPT !.mode = "quoted"]
      [] acc.mode = "plain" /\ u = BACKSLASH -> [acc EXCEPT !.mode = "escaped"]
      [] acc.mode = "plain" /\ u \in {SPACE, QUOTE} -> [acc EXCEPT !.mode = "bad"]
      [] OTHER -> [acc EXCEPT !.word = Append(@, u)]
ShellWord(s) == FoldLeft(ShellUnit, [mode |-> "plain", word |-> <<>>], s)

-----------------------------------------------------------------------------
ArgvInit == program \in Programs /\ args = <<>>

NewArg ==
    /\ Len(args) < MaxArgs
    /\ args' = Append(args, <<>>) /\ UNCHANGED program

Units == FoldLeft(LAMBDA n, a : n + Len(a), 0, args)

AddUnit(u) ==
    /\ args # <<>> /\ Units < MaxUnits
    /\ args' = [args EXCEPT ![Len(args)] = Append(@, u)] /\ UNCHANGED program

ArgvNext == NewArg \/ \E u \in Unit : AddUnit(u)

ArgvSpec == ArgvInit /\ [][ArgvNext]_wvars

-----------------------------------------------------------------------------
\* An executable gets the program and the arguments it was given, each one
\* whole, whatever quotes, spaces and backslashes they hold.
ArgvRoundTrip ==
    LET line == build_command_line_wide IN
    classify(program) = "Executable" /\ line # Refused =>
        CommandLineToArgvW(line) = <<program>> \o args

\* In the command line of a batch file no unit of an argument stands outside of
\* quotes, where cmd would interpret it, none is one that cmd expands inside of
\* them, and each argument is one of cmd's words.
BatchIsInert ==
    LET line == build_command_line_wide
        from == Len(quote_arg_into(program)) + 2
        split == Split(SubSeq(line, from, Len(line))) IN
    classify(program) = "Batch" /\ line # Refused /\ args # <<>> =>
        /\ ~split.bare /\ ~split.inside /\ Len(split.words) = Len(args)
        /\ ~Holds(SubSeq(line, from, Len(line)), {NUL, PERCENT})
        /\ \A i \in DOMAIN args :
              SelectSeq(split.words[i], LAMBDA u : u # QUOTE)
                  = SelectSeq(args[i], LAMBDA u : u # QUOTE)

\* A POSIX shell makes one word of what posix_quote_arg returns: the argument.
ShellRoundTrip ==
    \A i \in DOMAIN args :
        ~Holds(args[i], {NUL}) =>
            ShellWord(posix_quote_arg(args[i])) = [mode |-> "plain", word |-> args[i]]
=============================================================================
