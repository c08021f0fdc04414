----------------------------- MODULE JsonScanner -----------------------------
(***************************************************************************)
(* The JSON values of the control protocol: how JsonScanner reads a        *)
(* string, a number and a Boolean, and how to_json writes them.            *)
(*                                                                         *)
(* A string value is its sequence of bytes.  The text of a string literal  *)
(* is what follows its opening quote, one number per character; the four   *)
(* digits of a \u escape are one element, Hex(unit).  The integer widths   *)
(* are parameters so that TLC can reach their ends.                        *)
(***************************************************************************)
EXTENDS Integers, Sequences, SequencesExt

CONSTANTS MaxUint32, MaxUint64, MaxInt64, NsPerMs

ASSUME Widths ==
  /\ {MaxUint32, MaxInt64, NsPerMs} \subseteq Nat \ {0}
  /\ MaxUint64 = 2 * MaxInt64 + 1

Read(v) == [error |-> "none", value |-> v]
Fail(e) == [error |-> e, value |-> <<>>]

Quote == 34
Backslash == 92
Hex(unit) == 1114112 + unit

\* The one-letter escapes: the letter after the backslash and the byte meant.
ShortEscapes ==
  {<<34, 34>>, <<92, 92>>, <<98, 8>>, <<102, 12>>, <<110, 10>>, <<114, 13>>, <<116, 9>>}

\* A writer that escapes the quotes and the control characters only.
json_character_BareBackslash(c) ==
  IF c = Quote THEN <<Backslash, c>> ELSE IF c < 32 THEN <<Backslash, 117, Hex(c)>> ELSE <<c>>

json_character(c) ==
  IF \E e \in ShortEscapes : e[2] = c
  THEN <<Backslash, (CHOOSE e \in ShortEscapes : e[2] = c)[1]>>
  ELSE IF c < 32 THEN <<Backslash, 117, Hex(c)>> ELSE <<c>>

json_string(s) ==
  Append(FoldLeft(LAMBDA text, c : text \o json_character(c), <<>>, s), Quote)

Continuation(p, place) == 128 + ((p \div place) % 64)

append_utf8(p) ==
  CASE p <= 127 -> <<p>>
    [] p \in 128 .. 2047 -> <<192 + (p \div 64), Continuation(p, 1)>>
    [] p \in 2048 .. 65535 -> <<224 + (p \div 4096), Continuation(p, 64), Continuation(p, 1)>>
    [] OTHER -> <<240 + (p \div 262144), Continuation(p, 4096),
                  Continuation(p, 64), Continuation(p, 1)>>

HighSurrogates == 55296 .. 56319
LowSurrogates == 56320 .. 57343

\* What one character or escape of a literal adds to the string, and how many
\* elements of the text it takes: none when it is malformed.
Piece(bytes, taken) == [bytes |-> bytes, taken |-> taken]
Malformed == Piece(<<>>, 0)

At(text, i) == IF i <= Len(text) THEN text[i] ELSE -1

\* The escape whose backslash is at i.
escape(text, i) ==
  LET letter == At(text, i + 1)
      unit == At(text, i + 2) - Hex(0)
      low == At(text, i + 5) - Hex(0)
  IN CASE letter = 47 -> Piece(<<47>>, 2)
       [] \E e \in ShortEscapes : e[1] = letter ->
            Piece(<<(CHOOSE e \in ShortEscapes : e[1] = letter)[2]>>, 2)
       [] letter = 117 /\ unit \in HighSurrogates ->
            IF At(text, i + 3) = Backslash /\ At(text, i + 4) = 117 /\ low \in LowSurrogates
            THEN Piece(append_utf8(65536 + (unit - 55296) * 1024 + (low - 56320)), 6)
            ELSE Malformed
       [] letter = 117 /\ unit \in 0 .. 65535 /\ unit \notin LowSurrogates ->
            Piece(append_utf8(unit), 3)
       [] OTHER -> Malformed

read_string(text) ==
  LET piece(i) == CASE text[i] = Backslash -> escape(text, i)
                    [] text[i] < 32 -> Malformed
                    [] OTHER -> Piece(<<text[i]>>, 1)
      from[i \in 1 .. Len(text) + 1] ==
        IF i > Len(text) THEN Fail("MalformedJson")
        ELSE IF text[i] = Quote THEN Read(<<>>)
        ELSE IF piece(i).taken = 0 THEN Fail("MalformedJson")
        ELSE LET rest == from[i + piece(i).taken]
             IN IF rest.error = "none" THEN Read(piece(i).bytes \o rest.value) ELSE rest
  IN from[1]

\* A reader that checks the width only after it has added the digit.
read_uint_LateCheck(digits, max) ==
  IF digits = <<>> THEN Fail("InvalidField")
  ELSE FoldLeft(LAMBDA r, d :
                  IF r.error # "none" THEN r
                  ELSE IF r.value > max \div 10 THEN Fail("InvalidField")
                  ELSE Read((r.value * 10 + d) % (max + 1)),
                Read(0), digits)

\* A number has as many digits as the text has: the width is tested before
\* every one of them.
read_uint(digits, max) ==
  IF digits = <<>> THEN Fail("InvalidField")
  ELSE FoldLeft(LAMBDA r, d :
                  IF r.error # "none" THEN r
                  ELSE IF r.value > (max - d) \div 10 THEN Fail("InvalidField")
                  ELSE Read(r.value * 10 + d),
                Read(0), digits)

\* std::chrono converts milliseconds to signed 64-bit nanoseconds with a
\* multiplication that wraps.
ToNanoseconds(ms) == ((ms * NsPerMs + MaxInt64 + 1) % (MaxUint64 + 1)) - (MaxInt64 + 1)

read_milliseconds(digits) ==
  LET ms == read_uint(digits, MaxUint64)
  IN IF ms.error # "none" THEN Fail("InvalidField")
     ELSE IF ms.value > MaxInt64 THEN Fail("InvalidField")
     ELSE Read(ToNanoseconds(ms.value))

Digits[n \in Nat] == IF n < 10 THEN <<n>> ELSE Append(Digits[n \div 10], n % 10)

\* Literals, as the scanner meets them.  Name is a string literal that spells
\* an enumerator; Nothing is a text no reader of this protocol accepts.
String(text) == [kind |-> "string", text |-> text]
Name(n) == [kind |-> "name", name |-> n]
Number(digits) == [kind |-> "number", digits |-> digits]
Boolean(b) == [kind |-> "boolean", b |-> b]
Object == [kind |-> "object"]
Nothing == [kind |-> "nothing"]

=============================================================================
