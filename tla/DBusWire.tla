------------------------------ MODULE DBusWire ------------------------------
(***************************************************************************)
(* The D-Bus wire format as the client reads and writes it (sys/dbus:      *)
(* value.rs, wire.rs, message.rs): values of nested types with alignment,  *)
(* driven by their signatures, and messages of a header, an array of       *)
(* header fields and a body.  A buffer is a sequence of bytes; a message   *)
(* that has not arrived completely is a prefix of one.  A state is a       *)
(* message, and the steps reach every body up to a length.                 *)
(*                                                                         *)
(* A Value is a record: t is its type code, x what it holds (a number, the *)
(* bytes of a string, a sequence of Values), e an array's element type.    *)
(* Numbers are below 2^24, signed ones are not negative.  An Option, and a *)
(* Result, is a sequence that may be empty.                                *)
(***************************************************************************)
EXTENDS Integers, Sequences, SequencesExt

CONSTANTS
    Values,      \* the Values that bodies are made of
    Headers,     \* the messages without a body
    MaxBody      \* bound: values in a body

VARIABLE msg

Val(t, x) == [t |-> t, x |-> x, e |-> <<>>]
ArrayOf(e, items) == [t |-> "a", x |-> items, e |-> e]

-----------------------------------------------------------------------------
(* value.rs: the types                                                      *)

Numeric == [y |-> 1, n |-> 2, q |-> 2, b |-> 4, i |-> 4, u |-> 4, x |-> 8, t |-> 8, d |-> 8]

align_of(c) ==
    CASE c \in {"y", "g", "v"} -> 1
      [] c \in {"n", "q"} -> 2
      [] c \in {"b", "i", "u", "s", "o", "a"} -> 4
      [] c \in {"x", "t", "d", "(", "{"} -> 8
      [] OTHER -> 1

\* The place where the first bracket is closed, 0 if nowhere.
bracketed_len(sig, opening, closing) ==
    LET Count(c, i) == Len(SelectSeq(SubSeq(sig, 1, i), LAMBDA u : u = c))
        closed == {i \in DOMAIN sig : sig[i] = closing /\ Count(opening, i) = Count(closing, i)}
    IN IF closed = {} THEN 0 ELSE CHOOSE i \in closed : \A j \in closed : i <= j

\* How much of a signature its first complete type takes, 0 if there is none.
RECURSIVE type_len(_)
type_len(sig) ==
    IF sig = <<>> THEN 0
    ELSE CASE sig[1] = "a" -> LET n == type_len(Tail(sig)) IN IF n = 0 THEN 0 ELSE n + 1
           [] sig[1] = "(" -> bracketed_len(sig, "(", ")")
           [] sig[1] = "{" -> bracketed_len(sig, "{", "}")
           [] sig[1] \in DOMAIN Numeric \cup {"s", "o", "g", "v"} -> 1
           [] OTHER -> 0

split_one(sig) ==
    LET Cut(n) == IF n = 0 THEN <<>> ELSE <<SubSeq(sig, 1, n), SubSeq(sig, n + 1, Len(sig))>>
    IN Cut(type_len(sig))

\* The ? of Rust: nothing is made of nothing.
Then(r, F(_)) == IF r = <<>> THEN <<>> ELSE F(r)

RECURSIVE signature_of(_)
signature_of(v) ==
    CASE v.t = "a" -> <<"a">> \o v.e
      [] v.t = "(" -> <<"(">> \o FoldLeft(LAMBDA acc, f : acc \o signature_of(f), <<>>, v.x) \o <<")">>
      [] v.t = "{" -> <<"{">> \o signature_of(v.x[1]) \o signature_of(v.x[2]) \o <<"}">>
      [] OTHER -> <<v.t>>

-----------------------------------------------------------------------------
(* Bytes                                                                    *)

le_bytes(x, w) == [i \in 1..w |-> IF i <= 3 THEN (x \div 256 ^ (i - 1)) % 256 ELSE 0]

\* Whatever is larger counts as 2^24.
from_le_bytes(b) ==
    LET Byte(i) == IF i <= Len(b) THEN b[i] ELSE 0
    IN IF \E i \in 4..Len(b) : b[i] # 0 THEN 256 ^ 3
       ELSE Byte(1) + 256 * Byte(2) + 256 ^ 2 * Byte(3)

Ascii == [y |-> 121, n |-> 110, q |-> 113, b |-> 98, i |-> 105, u |-> 117, x |-> 120, t |-> 116,
          d |-> 100, s |-> 115, o |-> 111, g |-> 103, v |-> 118, a |-> 97]
         @@ ("(" :> 40) @@ (")" :> 41) @@ ("{" :> 123) @@ ("}" :> 125)
as_bytes(sig) == [i \in DOMAIN sig |-> Ascii[sig[i]]]
Char(b) == IF \E c \in DOMAIN Ascii : Ascii[c] = b THEN CHOOSE c \in DOMAIN Ascii : Ascii[c] = b ELSE "?"
\* The one byte here that no UTF-8 text holds.
from_utf8(b) == \A i \in DOMAIN b : b[i] # 255

Zeros(n) == [i \in 1..n |-> 0]
Padding(p, align) == (-p) % align

-----------------------------------------------------------------------------
(* wire.rs: marshalling.  A buffer, or nothing if a value does not fit its  *)
(* signature.                                                               *)

pad_to(buf, align) == buf \o Zeros(Padding(Len(buf), align))

\* The length covers the elements, not the padding before the first of them.
content_len(start, end) == Len(end) - Len(start)

RECURSIVE marshal(_, _, _), marshal_one(_, _, _)
marshal(sig, vs, buf) ==
    IF sig = <<>> THEN (IF vs = <<>> THEN <<buf>> ELSE <<>>)
    ELSE IF vs = <<>> THEN <<>>
    ELSE Then(split_one(sig), LAMBDA s :
            Then(marshal_one(s[1], vs[1], buf), LAMBDA r : marshal(s[2], Tail(vs), r[1])))

marshal_one(ty, v, buf) ==
    LET c == ty[1] IN
    IF v.t # c /\ {v.t, c} # {"s", "o"} THEN <<>>
    ELSE CASE c \in DOMAIN Numeric -> <<pad_to(buf, Numeric[c]) \o le_bytes(v.x, Numeric[c])>>
           [] c \in {"s", "o"} -> <<pad_to(buf, 4) \o le_bytes(Len(v.x), 4) \o v.x \o <<0>>>>
           [] c = "g" -> <<buf \o <<Len(v.x) % 256>> \o as_bytes(v.x) \o <<0>>>>
           [] c = "a" ->
                LET prefix == pad_to(buf, 4) \o Zeros(4)
                    Elements(start) ==
                        Then(FoldLeft(LAMBDA acc, item : Then(acc, LAMBDA r : marshal_one(v.e, item, r[1])),
                                      <<start>>, v.x), LAMBDA end :
                            <<pad_to(buf, 4) \o le_bytes(content_len(start, end[1]), 4)
                                  \o SubSeq(end[1], Len(prefix) + 1, Len(end[1]))>>)
                IN IF v.e # Tail(ty) THEN <<>> ELSE Elements(pad_to(prefix, align_of(v.e[1])))
           [] c = "(" -> marshal(SubSeq(ty, 2, Len(ty) - 1), v.x, pad_to(buf, 8))
           [] c = "v" ->
                LET Inner(sig) == marshal_one(sig, v.x[1], marshal_one(<<"g">>, Val("g", sig), buf)[1])
                IN Inner(signature_of(v.x[1]))
           [] c = "{" ->
                Then(marshal_one(SubSeq(ty, 2, 2), v.x[1], pad_to(buf, 8)), LAMBDA key :
                        marshal_one(SubSeq(ty, 3, Len(ty) - 1), v.x[2], key[1]))
           [] OTHER -> <<>>

-----------------------------------------------------------------------------
(* Unmarshalling.  What was read and the offset behind it, or nothing if    *)
(* the buffer ends too early or holds something else.                       *)

\* The offset is -1 once the buffer has ended.
align_read(buf, at, align) ==
    LET target == at + Padding(at, align) IN IF at < 0 \/ target > Len(buf) THEN -1 ELSE target
take(buf, at, n) == IF at < 0 \/ at + n > Len(buf) THEN <<>> ELSE <<SubSeq(buf, at + 1, at + n)>>

\* Bytes after a length of w bytes, and the NUL after them.
TakeText(buf, at, w) ==
    LET Text(n) == Then(take(buf, at + w, n + 1), LAMBDA b :
                      IF from_utf8(SubSeq(b[1], 1, n)) THEN <<SubSeq(b[1], 1, n), at + w + n + 1>> ELSE <<>>)
    IN Then(take(buf, at, w), LAMBDA len : Text(from_le_bytes(len[1])))

RECURSIVE unmarshal(_, _, _), unmarshal_one(_, _, _), Items(_, _, _, _)

\* What was read first, and what is read after it.
Before(one, rest) == Then(rest, LAMBDA r : <<<<one[1]>> \o r[1], r[2]>>)

unmarshal(sig, buf, at) ==
    IF sig = <<>> THEN <<<<>>, at>>
    ELSE Then(split_one(sig), LAMBDA s :
            Then(unmarshal_one(s[1], buf, at), LAMBDA one : Before(one, unmarshal(s[2], buf, one[2]))))

\* The elements up to the declared end, which must be one of theirs.
Items(elem, buf, at, end) ==
    IF at >= end THEN (IF at = end THEN <<<<>>, at>> ELSE <<>>)
    ELSE Then(unmarshal_one(elem, buf, at), LAMBDA one : Before(one, Items(elem, buf, one[2], end)))

unmarshal_one(ty, buf, at) ==
    LET c == ty[1]
        Aligned(align, F(_)) ==
            LET From(p) == IF p < 0 THEN <<>> ELSE F(p) IN From(align_read(buf, at, align))
    IN
    CASE c \in DOMAIN Numeric ->
           Aligned(Numeric[c], LAMBDA p :
               Then(take(buf, p, Numeric[c]), LAMBDA b :
                   LET Whole(n) == <<Val(c, IF c = "b" /\ n # 0 THEN 1 ELSE n), p + Numeric[c]>>
                   IN Whole(from_le_bytes(b[1]))))
      [] c \in {"s", "o"} ->
           Aligned(4, LAMBDA p : Then(TakeText(buf, p, 4), LAMBDA text : <<Val(c, text[1]), text[2]>>))
      [] c = "g" ->
           Then(TakeText(buf, at, 1), LAMBDA text :
               <<Val("g", [i \in DOMAIN text[1] |-> Char(text[1][i])]), text[2]>>)
      [] c = "a" ->
           LET Elements(start, end) ==
                   IF start < 0 \/ end > Len(buf) THEN <<>>
                   ELSE Then(Items(Tail(ty), buf, start, end), LAMBDA items :
                           <<ArrayOf(Tail(ty), items[1]), items[2]>>)
               Start(start, len) == Elements(start, start + from_le_bytes(len[1]))
           IN Aligned(4, LAMBDA p :
                  Then(take(buf, p, 4), LAMBDA len : Start(align_read(buf, p + 4, align_of(ty[2])), len)))
      [] c = "(" ->
           Aligned(8, LAMBDA p :
               Then(unmarshal(SubSeq(ty, 2, Len(ty) - 1), buf, p), LAMBDA fields :
                   <<Val("(", fields[1]), fields[2]>>))
      [] c = "v" ->
           Then(unmarshal_one(<<"g">>, buf, at), LAMBDA sig :
               IF sig[1].x = <<>> \/ type_len(sig[1].x) # Len(sig[1].x) THEN <<>>
               ELSE Then(unmarshal_one(sig[1].x, buf, sig[2]), LAMBDA inner :
                       <<Val("v", <<inner[1]>>), inner[2]>>))
      [] c = "{" ->
           Aligned(8, LAMBDA p :
               Then(split_one(SubSeq(ty, 2, Len(ty) - 1)), LAMBDA types :
                   Then(unmarshal_one(types[1], buf, p), LAMBDA key :
                       Then(unmarshal_one(types[2], buf, key[2]), LAMBDA value :
                           <<Val("{", <<key[1], value[1]>>), value[2]>>))))
      [] OTHER -> <<>>

-----------------------------------------------------------------------------
(* message.rs: messages                                                     *)

\* The types of the header fields PATH, INTERFACE, MEMBER, ERROR_NAME,
\* REPLY_SERIAL, DESTINATION and SENDER, in the order of their codes.
FieldType == <<"o", "s", "s", "s", "u", "s", "s">>
FIELD_SIGNATURE == 8
NoFields == [code \in 1..7 |-> <<>>]

Message(type, serial, fields) ==
    [message_type |-> type, flags |-> 0, serial |-> serial, fields |-> fields,
     signature |-> <<>>, body |-> <<>>]

field(code, v) == Val("(", <<Val("y", code), Val("v", <<v>>)>>)

encode(m) ==
    LET body == IF m.signature = <<>> THEN <<<<>>>> ELSE marshal(m.signature, m.body, <<>>)
        present == SelectSeq(<<1, 2, 3, 4, 5, 6, 7>>, LAMBDA code : m.fields[code] # <<>>)
        fields == [i \in DOMAIN present |->
                      field(present[i], Val(FieldType[present[i]], m.fields[present[i]][1]))]
                  \o (IF m.signature = <<>> THEN <<>> ELSE <<field(FIELD_SIGNATURE, Val("g", m.signature))>>)
        fixed == <<108, m.message_type, m.flags, 1>> \o le_bytes(Len(body[1]), 4) \o le_bytes(m.serial, 4)
        header == marshal(<<"a", "(", "y", "v", ")">>, <<ArrayOf(<<"(", "y", "v", ")">>, fields)>>, fixed)
    IN IF body = <<>> THEN <<>> ELSE <<pad_to(header[1], 8) \o body[1]>>

\* The fields of known code and type; others are passed over.
TakeFields(m, parts) ==
    FoldLeft(LAMBDA acc, f :
                LET code == f.x[1].x
                    v == f.x[2].x[1]
                IN IF code = FIELD_SIGNATURE /\ v.t = "g" THEN [acc EXCEPT !.signature = v.x]
                   ELSE IF code \in 1..7 /\ v.t = FieldType[code] THEN [acc EXCEPT !.fields[code] = <<v.x>>]
                   ELSE acc,
             m, parts)

More == [is |-> "WouldBlock"]
Error(kind) == [is |-> kind]

\* The first message of a buffer and its length.  A header that cannot be read
\* is taken for one that has not arrived.
decode(buf) ==
    LET Whole(m, end, body) ==
            IF body = <<>> THEN Error("InvalidInput")
            ELSE [is |-> "Ok", msg |-> [m EXCEPT !.flags = buf[3], !.body = body[1]], len |-> end]
        Body(m, start, len) ==
            IF Len(buf) < start + len THEN More
            ELSE Whole(m, start + len, unmarshal(m.signature, buf, start))
        Header(header) ==
            IF header = <<>> THEN More
            ELSE Body(TakeFields(Message(buf[2], from_le_bytes(SubSeq(buf, 9, 12)), NoFields), header[1][1].x),
                      header[2] + Padding(header[2], 8), from_le_bytes(SubSeq(buf, 5, 8)))
    IN IF Len(buf) < 16 THEN More
       ELSE IF buf[1] # 108 THEN Error("Unsupported")
       ELSE Header(unmarshal(<<"a", "(", "y", "v", ")">>, buf, 12))

-----------------------------------------------------------------------------
(* Messages with bodies of all kinds                                        *)

WireInit == msg \in Headers

WireNext ==
    /\ Len(msg.body) < MaxBody
    /\ \E v \in Values :
          msg' = [msg EXCEPT !.signature = @ \o signature_of(v), !.body = Append(@, v)]

-----------------------------------------------------------------------------
(* Reference: the layout of the D-Bus specification, where a value at a     *)
(* place is padding up to its type's alignment and then its content.        *)

Gap(p, align) == Zeros(CHOOSE n \in 0..(align - 1) : (p + n) % align = 0)

RECURSIVE Placed(_, _), PlacedAll(_, _)
PlacedAll(vs, p) ==
    IF vs = <<>> THEN <<>>
    ELSE LET first == Placed(vs[1], p) IN first \o PlacedAll(Tail(vs), p + Len(first))

Placed(v, p) ==
    LET gap == Gap(p, align_of(v.t))
        at == p + Len(gap)
    IN gap \o
       (CASE v.t \in DOMAIN Numeric -> le_bytes(v.x, Numeric[v.t])
          [] v.t \in {"s", "o"} -> le_bytes(Len(v.x), 4) \o v.x \o <<0>>
          [] v.t = "g" -> <<Len(v.x)>> \o as_bytes(v.x) \o <<0>>
          [] v.t = "a" ->
               LET lead == Gap(at + 4, align_of(v.e[1]))
                   items == PlacedAll(v.x, at + 4 + Len(lead))
               IN le_bytes(Len(items), 4) \o lead \o items
          [] v.t \in {"(", "{"} -> PlacedAll(v.x, at)
          [] v.t = "v" -> PlacedAll(<<Val("g", signature_of(v.x[1])), v.x[1]>>, at))

-----------------------------------------------------------------------------
(* Properties                                                               *)

\* A value is laid out as the specification says wherever it starts, and read
\* back from there as what it was; nothing is left over.
ValuesSurvive ==
    \A o \in 0..7 :
        LET bytes == marshal(msg.signature, msg.body, Zeros(o))
            back == unmarshal(msg.signature, bytes[1], o)
        IN bytes = <<Zeros(o) \o PlacedAll(msg.body, o)>> /\ back = <<msg.body, Len(bytes[1])>>

\* A message is read as what was sent, although its body was laid out apart
\* from its header, and takes nothing of what follows it.
MessagesSurvive ==
    LET bytes == encode(msg)[1]
    IN \A k \in {0, 1, Len(bytes)} :
          decode(bytes \o SubSeq(bytes, 1, k)) = [is |-> "Ok", msg |-> msg, len |-> Len(bytes)]

\* However little of a message is missing, it counts as incomplete and never as
\* a message or as an error.
PrefixIsIncomplete ==
    LET bytes == encode(msg)[1]
    IN \A n \in 0..(Len(bytes) - 1) : decode(SubSeq(bytes, 1, n)) = More
=============================================================================
