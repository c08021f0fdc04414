------------------------- MODULE MCControlProtocol --------------------------
(***************************************************************************)
(* A bounded instance of ControlProtocol: integers of a few bits, a few    *)
(* keys of every group, every string of at most two characters of an       *)
(* alphabet with one character of each kind json_string tells apart.       *)
(***************************************************************************)
EXTENDS ControlProtocol

Alphabet == {97, 34, 92, 47, 10, 1, 195}
Strings == {<<>>} \cup {<<c>> : c \in Alphabet} \cup {<<c, d>> : c \in Alphabet, d \in Alphabet}

MCBenchmarkRequired == {"scenario", "backend", "duration_seconds"}
MCBenchmarkOptional == {"packets"}
MCCommands == (Commands \ Queries) \cup {"stop_run"}
MCFaultKeys == {"latency_ms", "blackhole"}

\* Whole milliseconds, the widest duration, parts of a millisecond, and less
\* than nothing.
Durations == {NsPerMs * (MaxInt64 \div NsPerMs), MaxInt64, NsPerMs + 1, NsPerMs - 1,
              1 - NsPerMs, -NsPerMs, -MaxInt64 - 1}

\* The message of the given keys whose strings are s, whose durations are d and
\* whose other numbers are the width's n-th part.
Value(key, command, s, d, n, b) ==
  CASE Reader[key] = "string" -> s
    [] Reader[key] = "command" -> command
    [] Reader[key] = "backend" -> IF b THEN "cpu" ELSE "cuda"
    [] Reader[key] = "bool" -> b
    [] Reader[key] = "milliseconds" -> d
    [] key = "api_version" /\ b -> 1
    [] Reader[key] = "uint32" -> MaxUint32 \div n
    [] Reader[key] = "uint64" -> MaxUint64 \div n

Message(keys, command, s, d, n, b) == [key \in keys |-> Value(key, command, s, d, n, b)]

MCRequests ==
  {Message(RequiredKeys["request"] \cup Range(ParameterMembers(c)), c, s, d, n, b) :
     c \in Commands, s \in Strings, d \in Durations, n \in {1, 3}, b \in BOOLEAN}

MCReplies ==
  {Message(RequiredKeys["reply"] \cup {IF b THEN "operation_id" ELSE "error"}, "", s, 0, n, b) :
     s \in Strings, n \in {1, 3, 1000}, b \in BOOLEAN}

MCUnicode ==
  {<<u>> : u \in {65, 127, 128, 233, 2047, 2048, 8364, 65535, 55296, 57343}}
  \cup {<<h, l>> : h \in {55296, 56319, 65}, l \in {56320, 57343, 65, 55296}}

=============================================================================
