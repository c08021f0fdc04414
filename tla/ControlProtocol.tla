--------------------------- MODULE ControlProtocol ---------------------------
(***************************************************************************)
(* The JSON schema of the control channel: what to_json writes, and what   *)
(* ControlRequestParser and ControlReplyParser make of a document whose    *)
(* members arrive in any order, once, twice, ill-typed or cut short.       *)
(*                                                                         *)
(* A document is read one token at a time: a member (key and literal; the  *)
(* literal Object opens the nested parameters), the brace that closes an   *)
(* object, the end of the text, or anything else.  It is either the        *)
(* output of a writer (source, rest) or free: then every token is a choice.*)
(* The sets of parameter keys that the schema treats alike are parameters, *)
(* so that an instance may hold a few keys of each.                        *)
(***************************************************************************)
EXTENDS JsonScanner, FiniteSets, Functions, TLC

CONSTANTS
  BenchmarkRequired,   \* scenario, backend, batch_size, duration_seconds, seed
  BenchmarkOptional,   \* generator, packets, frame_size
  FaultKeys,           \* latency_ms ... isolated
  MaxBatchSize, MinFrameSize, MaxFrameSize,   \* is_valid_benchmark
  Requests, Replies,   \* the messages a writer may send
  Unicode,             \* sequences of UTF-16 units another writer escapes
  OfferedCommands,     \* the commands a free document may name
  NoSource

VARIABLES parser, source, rest, level, fields, verdict,
          written, count, syntax   \* history: the members so far, how many, was all JSON

vars == <<parser, source, rest, level, fields, verdict, written, count, syntax>>

Queries == {"get_switch_state", "get_active_faults", "get_supervision_state", "stop_run"}
Commands == Queries \cup {"load_topology", "start_benchmark", "set_port_fault",
                          "clear_port_fault", "set_link_fault", "clear_link_fault"}

\* How the value of each key is read.
Reader ==
  [api_version |-> "uint32", request_id |-> "string", command |-> "command",
   topology_revision |-> "uint64", parameters |-> "object",
   accepted |-> "bool", operation_id |-> "string", error |-> "string",
   topology_path |-> "string", port_id |-> "string",
   first_endpoint |-> "string", second_endpoint |-> "string",
   scenario |-> "string", backend |-> "backend", generator |-> "string",
   batch_size |-> "uint32", duration_seconds |-> "uint32", seed |-> "uint64",
   packets |-> "uint64", frame_size |-> "uint32",
   latency_ms |-> "milliseconds", jitter_ms |-> "milliseconds",
   loss_basis_points |-> "uint32", duplication_basis_points |-> "uint32",
   bandwidth_bits_per_second |-> "uint64", blackhole |-> "bool", isolated |-> "bool"]

Endpoints == {"first_endpoint", "second_endpoint"}
BenchmarkKeys == BenchmarkRequired \cup BenchmarkOptional
ParameterKeys == {"topology_path", "port_id"} \cup Endpoints \cup BenchmarkKeys \cup FaultKeys

ASSUME Keys ==
  /\ BenchmarkRequired \subseteq {"scenario", "backend", "batch_size", "duration_seconds", "seed"}
  /\ BenchmarkOptional \subseteq {"generator", "packets", "frame_size"}
  /\ FaultKeys \subseteq {"latency_ms", "jitter_ms", "loss_basis_points", "blackhole", "isolated",
                          "duplication_basis_points", "bandwidth_bits_per_second"}
  /\ BenchmarkRequired # {} /\ FaultKeys # {}

\* The members a request and a reply must have, and those they may have.
RequiredKeys ==
  [request |-> {"api_version", "request_id", "command", "topology_revision"},
   reply |-> {"api_version", "request_id", "accepted", "topology_revision"}]
TopKeys ==
  [request |-> RequiredKeys["request"] \cup {"parameters"},
   reply |-> RequiredKeys["reply"] \cup {"operation_id", "error"}]

read_name(literal, names) ==
  CASE literal.kind = "name" ->
         IF literal.name \in names THEN Read(literal.name) ELSE Fail("InvalidField")
    [] literal.kind = "string" ->
         IF read_string(literal.text).error = "none" THEN Fail("InvalidField") ELSE Fail("MalformedJson")
    [] OTHER -> Fail("MalformedJson")

read(key, literal) ==
  CASE Reader[key] = "string" ->
         IF literal.kind = "string" THEN read_string(literal.text) ELSE Fail("MalformedJson")
    [] Reader[key] = "command" -> read_name(literal, Commands)
    [] Reader[key] = "backend" -> read_name(literal, {"cpu", "cuda"})
    [] Reader[key] = "object" ->
         IF literal.kind = "object" THEN Read(TRUE) ELSE Fail("MalformedJson")
    [] Reader[key] = "bool" ->
         IF literal.kind = "boolean" THEN Read(literal.b) ELSE Fail("InvalidField")
    [] literal.kind # "number" -> Fail("InvalidField")
    [] Reader[key] = "milliseconds" -> read_milliseconds(literal.digits)
    [] Reader[key] = "uint32" -> read_uint(literal.digits, MaxUint32)
    [] Reader[key] = "uint64" -> read_uint(literal.digits, MaxUint64)

-----------------------------------------------------------------------------
(* Writing.                                                                 *)

\* duration_cast truncates towards zero.  What is left may be negative, and no
\* reader of this protocol takes the minus sign.
Milliseconds(ns) == IF ns < 0 THEN -((-ns) \div NsPerMs) ELSE ns \div NsPerMs

Write(key, v) ==
  CASE Reader[key] = "string" -> String(json_string(v))
    [] Reader[key] \in {"command", "backend"} -> Name(v)
    [] Reader[key] = "bool" -> Boolean(v)
    [] Reader[key] = "milliseconds" ->
         IF Milliseconds(v) < 0 THEN Nothing ELSE Number(Digits[Milliseconds(v)])
    [] OTHER -> Number(Digits[v])

Member(key, literal) == [token |-> "member", key |-> key, literal |-> literal]
Mark(token) == [token |-> token, key |-> "", literal |-> Nothing]
Members(keys, message) == [i \in DOMAIN keys |-> Member(keys[i], Write(keys[i], message[keys[i]]))]

FaultMembers == <<"latency_ms", "jitter_ms", "loss_basis_points", "duplication_basis_points",
                  "bandwidth_bits_per_second", "blackhole", "isolated">>

ParameterMembers(command) ==
  LET all == CASE command = "load_topology" -> <<"topology_path">>
               [] command = "start_benchmark" ->
                    <<"scenario", "backend", "generator", "batch_size",
                      "duration_seconds", "seed", "packets", "frame_size">>
               [] command = "set_port_fault" -> <<"port_id">> \o FaultMembers
               [] command = "set_link_fault" ->
                    <<"first_endpoint", "second_endpoint">> \o FaultMembers
               [] command = "clear_port_fault" -> <<"port_id">>
               [] command = "clear_link_fault" -> <<"first_endpoint", "second_endpoint">>
               [] OTHER -> <<>>
  IN SelectSeq(all, LAMBDA k : k \in ParameterKeys)

\* A request is the function of its keys to their values.
to_json_request(r) ==
  LET parameters == ParameterMembers(r["command"])
  IN Members(<<"api_version", "request_id", "command", "topology_revision">>, r)
     \o (IF parameters = <<>> THEN <<>>
         ELSE <<Member("parameters", Object)>> \o Members(parameters, r) \o <<Mark("close")>>)
     \o <<Mark("close"), Mark("end")>>

to_json_reply(r) ==
  Members(<<"api_version", "request_id", "accepted", "topology_revision",
            IF r["accepted"] THEN "operation_id" ELSE "error">>, r)
  \o <<Mark("close"), Mark("end")>>

\* The members of each event, in the order they are written.
EventMembers ==
  LET header == <<"api_version", "event_sequence", "topology_revision", "event">>
  IN [switch_metrics |-> header \o <<"metrics">>,
      fault_state_changed |-> header \o <<"active", "first_endpoint", "second_endpoint", "configuration">>,
      topology_loaded |-> header \o <<"name", "nodes", "links">>,
      anomaly_detected |-> header \o <<"anomaly">>,
      policy_action |-> header \o <<"rule_name", "action", "hit_count",
                                    "rate_limit_packets_per_second", "anomaly">>,
      supervision_state |-> header \o <<"analysed_frames", "blocked_frames", "bindings">>,
      benchmark_progress |-> header \o <<"operation_id", "completed_packets", "total_packets">>,
      benchmark_result |-> header \o <<"operation_id", "completed", "result">>]

EventLiteral(key) == IF key \in {"event", "name", "operation_id"}
                     THEN String(json_string(<<97>>)) ELSE Number(<<1>>)

to_json_event(event) ==
  [i \in DOMAIN EventMembers[event] |->
     Member(EventMembers[event][i], EventLiteral(EventMembers[event][i]))]
  \o <<Mark("close"), Mark("end")>>

\* A request whose writer escapes every character as JSON allows.
AsciiRequest(units) ==
  LET text == FoldLeft(LAMBDA t, u : t \o <<Backslash, 117, Hex(u)>>, <<>>, units)
      r == [api_version |-> 1, request_id |-> <<>>, command |-> "stop_run", topology_revision |-> 0]
  IN [to_json_request(r) EXCEPT ![2] = Member("request_id", String(Append(text, Quote)))]

Source(kind, message) == [kind |-> kind, message |-> message]

-----------------------------------------------------------------------------
(* Reading.                                                                 *)

\* A value of the schema.  A number may have leading zeros, which JSON does not
\* allow and read_uint takes.
Fits(key, literal) ==
  LET within(max) == /\ literal.kind = "number" /\ literal.digits # <<>>
                     /\ FoldLeft(LAMBDA n, d : 10 * n + d, 0, literal.digits) <= max
  IN CASE Reader[key] = "string" -> literal.kind = "string" /\ Last(literal.text) = Quote
       [] Reader[key] = "command" -> literal.kind = "name" /\ literal.name \in Commands
       [] Reader[key] = "backend" -> literal.kind = "name" /\ literal.name \in {"cpu", "cuda"}
       [] Reader[key] = "bool" -> literal.kind = "boolean"
       [] Reader[key] = "object" -> literal.kind = "object"
       [] Reader[key] = "milliseconds" -> within(MaxInt64)
       [] Reader[key] = "uint32" -> within(MaxUint32)
       [] Reader[key] = "uint64" -> within(MaxUint64)

\* What a free document may hold: for a key that is due its widest value, the
\* same with a zero before it, one that does not fit, or text that is not of its
\* type; for a key out of place or for the second time, a value that would do.
Padded(n) == {Number(zeros \o Digits[n]) : zeros \in {<<>>, <<0>>}}

Good(key) ==
  CASE Reader[key] = "string" -> {String(json_string(<<97>>))}
    [] Reader[key] = "command" -> {Name(c) : c \in OfferedCommands}
    [] Reader[key] = "backend" -> {Name("cuda")}
    [] Reader[key] = "bool" -> {Boolean(TRUE)}
    [] Reader[key] = "object" -> {Object}
    [] Reader[key] = "milliseconds" -> Padded(MaxInt64 \div NsPerMs)
    [] Reader[key] = "uint32" -> Padded(MaxUint32)
    [] OTHER -> Padded(MaxUint64)

Bad(key) ==
  CASE Reader[key] = "string" -> {String(<<97>>), Nothing}
    [] Reader[key] \in {"command", "backend"} -> {Name("reboot"), Nothing}
    [] Reader[key] = "milliseconds" -> Padded(MaxInt64 + 1)
    [] Reader[key] = "uint32" -> Padded(MaxUint32 + 1)
    [] Reader[key] = "uint64" -> Padded(MaxUint64 + 1)
    [] OTHER -> {Nothing}

KeysHere == IF level = "parameters" THEN ParameterKeys ELSE TopKeys[parser]

FreeTokens ==
  LET due == KeysHere \ DOMAIN fields
      others == IF level = "top" /\ parser = "request" THEN {"port_id"} ELSE {"api_version"}
  IN {Mark("close"), Mark("end"), Mark("junk"), Member("unknown", Nothing)}
     \cup UNION {{Member(k, l) : l \in Good(k) \cup Bad(k)} : k \in due}
     \cup UNION {{Member(k, l) : l \in Good(k)} : k \in (KeysHere \cap DOMAIN fields) \cup others}

Upcoming == IF source = NoSource THEN FreeTokens ELSE {Head(rest)}

Reject(error) == verdict' = error /\ UNCHANGED <<level, fields>>

\* What the history keeps of a member.
Record(t) ==
  [level |-> level, key |-> t.key,
   fits |-> t.key \in DOMAIN Reader /\ Fits(t.key, t.literal),
   command |-> IF t.literal.kind = "name" THEN t.literal.name ELSE ""]

\* One member of the object being read: a key that is unknown there, or that
\* has been read before, is an error.
ReadMember(t) ==
  LET r == read(t.key, t.literal)
  IN /\ t.token = "member" /\ level # "end"
     /\ written' = written \cup {Record(t)} /\ count' = count + 1
     /\ syntax' = syntax
     /\ IF t.key \notin KeysHere \ DOMAIN fields THEN Reject("InvalidField")
        ELSE IF r.error # "none" THEN Reject(r.error)
        ELSE /\ fields' = fields @@ (t.key :> r.value)
             /\ level' = IF Reader[t.key] = "object" THEN "parameters" ELSE level
             /\ verdict' = verdict

CloseObject(t) ==
  /\ t.token = "close" /\ level # "end"
  /\ IF level = "parameters" THEN level' = "top" /\ verdict' = verdict
     ELSE IF DOMAIN fields = {} THEN level' = level /\ verdict' = "MissingRequiredField"
     ELSE level' = "end" /\ verdict' = verdict
  /\ UNCHANGED <<fields, written, count, syntax>>

\* A missing comma, a key that is no string, text after the document.
ReadJunk(t) ==
  /\ t.token = "junk"
  /\ Reject("MalformedJson")
  /\ syntax' = FALSE
  /\ UNCHANGED <<written, count>>

Has(keys) == keys \subseteq DOMAIN fields
HasAny(keys) == keys \cap DOMAIN fields # {}

parameters_valid_for(command) ==
  CASE command = "load_topology" ->
         Has({"topology_path"}) /\ ~HasAny(BenchmarkKeys \cup {"port_id"} \cup Endpoints \cup FaultKeys)
    [] command = "start_benchmark" ->
         Has(BenchmarkRequired) /\ ~HasAny({"topology_path", "port_id"} \cup Endpoints \cup FaultKeys)
    [] command = "set_port_fault" ->
         Has({"port_id"} \cup FaultKeys) /\ ~HasAny({"topology_path"} \cup Endpoints \cup BenchmarkKeys)
    [] command = "clear_port_fault" ->
         Has({"port_id"}) /\ ~HasAny({"topology_path"} \cup Endpoints \cup BenchmarkKeys \cup FaultKeys)
    [] command = "set_link_fault" ->
         Has(Endpoints \cup FaultKeys) /\ ~HasAny({"topology_path", "port_id"} \cup BenchmarkKeys)
    [] command = "clear_link_fault" ->
         Has(Endpoints) /\ ~HasAny({"topology_path", "port_id"} \cup BenchmarkKeys \cup FaultKeys)
    [] OTHER -> FALSE

\* A report that blames every refused set of parameters on a missing one.
parameters_missing_required_for_Always(command) == command \notin Queries

parameters_missing_required_for(command) ==
  CASE command = "load_topology" -> ~HasAny(BenchmarkKeys \cup FaultKeys \cup {"port_id"} \cup Endpoints)
    [] command = "start_benchmark" -> ~HasAny({"topology_path", "port_id"} \cup Endpoints \cup FaultKeys)
    [] command = "set_port_fault" ->
         Has({"port_id"}) /\ ~HasAny({"topology_path"} \cup Endpoints \cup BenchmarkKeys)
    [] command = "clear_port_fault" ->
         ~HasAny({"topology_path"} \cup BenchmarkKeys \cup FaultKeys \cup Endpoints)
    [] command = "set_link_fault" -> ~HasAny({"topology_path", "port_id"} \cup BenchmarkKeys)
    [] command = "clear_link_fault" ->
         ~HasAny({"topology_path", "port_id"} \cup BenchmarkKeys \cup FaultKeys)
    [] OTHER -> FALSE

requires_parameters(command) == command \notin Queries

\* The checks that follow the last byte.
Conclude ==
  IF ~Has(RequiredKeys[parser]) THEN "MissingRequiredField"
  ELSE IF parser = "reply" THEN "Parsed"
  ELSE LET command == fields["command"]
       IN IF ~Has({"parameters"})
          THEN IF requires_parameters(command) THEN "MissingRequiredField" ELSE "Parsed"
          ELSE IF parameters_valid_for(command) THEN "Parsed"
          ELSE IF parameters_missing_required_for(command) THEN "MissingRequiredField"
          ELSE "InvalidField"

EndOfText(t) ==
  /\ t.token = "end"
  /\ verdict' = IF level = "end" THEN Conclude ELSE "MalformedJson"
  /\ syntax' = (syntax /\ level = "end")
  /\ UNCHANGED <<level, fields, written, count>>

parse ==
  /\ verdict = "Reading"
  /\ \E t \in Upcoming : ReadMember(t) \/ CloseObject(t) \/ ReadJunk(t) \/ EndOfText(t)
  /\ rest' = IF source = NoSource THEN rest ELSE Tail(rest)
  /\ UNCHANGED <<parser, source>>

\* The members of a ControlRequest that a document left out.
Defaults == [generator |-> <<99>>, packets |-> 0, frame_size |-> 64, batch_size |-> 1,
             duration_seconds |-> 0, seed |-> 1, scenario |-> <<>>, backend |-> "cpu"]
Field(key) == IF Has({key}) THEN fields[key] ELSE Defaults[key]

is_valid_benchmark ==
  /\ Field("scenario") # <<>>
  /\ Field("batch_size") \in 1 .. MaxBatchSize
  /\ Field("duration_seconds") > 0
  /\ Field("packets") > 0
  /\ Field("frame_size") \in MinFrameSize .. MaxFrameSize

\* validate, which dispatch runs on a request that has been parsed.
validate ==
  /\ parser = "request" /\ verdict = "Parsed"
  /\ verdict' = CASE fields["api_version"] # 1 -> "UnsupportedApiVersion"
                  [] fields["request_id"] = <<>> -> "MissingRequestId"
                  [] fields["command"] = "start_benchmark" /\ ~is_valid_benchmark ->
                       "InvalidBenchmarkConfiguration"
                  [] OTHER -> "Valid"
  /\ UNCHANGED <<parser, source, rest, level, fields, written, count, syntax>>

Init ==
  /\ \/ source = NoSource /\ rest = <<>> /\ parser \in {"request", "reply"}
     \/ \E r \in Requests : source = Source("request", r) /\ parser = "request" /\ rest = to_json_request(r)
     \/ \E r \in Replies : source = Source("reply", r) /\ parser = "reply" /\ rest = to_json_reply(r)
     \/ \E e \in DOMAIN EventMembers :
          source = Source("event", e) /\ parser = "reply" /\ rest = to_json_event(e)
     \/ \E u \in Unicode : source = Source("ascii", u) /\ parser = "request" /\ rest = AsciiRequest(u)
  /\ level = "top" /\ fields = <<>> /\ verdict = "Reading"
  /\ written = {} /\ count = 0 /\ syntax = TRUE

Next == parse \/ validate

Spec == Init /\ [][Next]_vars

-----------------------------------------------------------------------------
(* Properties.                                                              *)

\* The schema, as a table: the parameters each command needs and allows.
Needs(command) ==
  CASE command = "load_topology" -> {"topology_path"}
    [] command = "start_benchmark" -> BenchmarkRequired
    [] command = "set_port_fault" -> {"port_id"} \cup FaultKeys
    [] command = "clear_port_fault" -> {"port_id"}
    [] command = "set_link_fault" -> Endpoints \cup FaultKeys
    [] command = "clear_link_fault" -> Endpoints
    [] OTHER -> {}
Allows(command) == Needs(command) \cup (IF command = "start_benchmark" THEN BenchmarkOptional ELSE {})

KeysAt(where) == {m.key : m \in {w \in written : w.level = where}}

MeetsSchema ==
  LET top == KeysAt("top")
      command == (CHOOSE m \in written : m.key = "command").command
  IN /\ count = Cardinality({m.key : m \in written})
     /\ \A m \in written :
          m.fits /\ m.key \in IF m.level = "top" THEN TopKeys[parser] ELSE ParameterKeys
     /\ RequiredKeys[parser] \subseteq top
     /\ parser = "request" =>
          /\ ("parameters" \in top) = (Needs(command) # {})
          /\ Needs(command) \subseteq KeysAt("parameters")
          /\ KeysAt("parameters") \subseteq Allows(command)

Accepted == verdict \notin {"Reading", "MalformedJson", "InvalidField", "MissingRequiredField"}

\* A free document is accepted exactly when it is JSON, but for zeros before a
\* number, and its members, in whatever order, are those of the schema: none
\* twice, none unknown, none of the wrong type or width, and the parameters those
\* of its command.  (The parsers walk the members once, with a flag per member.)
AcceptsTheSchema ==
  source = NoSource /\ verdict # "Reading" => (Accepted <=> syntax /\ MeetsSchema)

\* The code point that a UTF-8 sequence stands for.
CodePoint(b) ==
  CASE Len(b) = 1 -> b[1]
    [] Len(b) = 2 -> (b[1] - 192) * 64 + b[2] - 128
    [] Len(b) = 3 -> (b[1] - 224) * 4096 + (b[2] - 128) * 64 + b[3] - 128
    [] Len(b) = 4 -> (b[1] - 240) * 262144 + (b[2] - 128) * 4096 + (b[3] - 128) * 64 + b[4] - 128

\* What is left of a value on the wire.
OnTheWire(key, v) == IF Reader[key] = "milliseconds" THEN NsPerMs * Milliseconds(v) ELSE v

\* A reply that this code wrote is read back as it was.  So is a request, but for
\* the part of a duration below a millisecond, which to_json cuts off, and unless
\* a duration is a millisecond or more below zero, which is refused.  An event is
\* not taken for a reply, which is how a client tells them apart; and a character
\* another writer escaped as one or two UTF-16 units is its UTF-8 sequence, while
\* half a surrogate pair is refused.
ReadsWhatWasWritten ==
  source # NoSource /\ verdict # "Reading" =>
    CASE source.kind \in {"request", "reply"} ->
           IF \E key \in DOMAIN source.message :
                Reader[key] = "milliseconds" /\ Milliseconds(source.message[key]) < 0
           THEN verdict = "InvalidField"
           ELSE /\ Accepted
                /\ \A key \in DOMAIN source.message :
                     fields[key] = OnTheWire(key, source.message[key])
                /\ DOMAIN fields \subseteq DOMAIN source.message \cup {"parameters"}
      [] source.kind = "event" -> ~Accepted
      [] source.kind = "ascii" ->
           LET u == source.message
           IN IF \E i \in DOMAIN u : u[i] \in HighSurrogates \cup LowSurrogates
              THEN IF Len(u) = 2 /\ u[1] \in HighSurrogates /\ u[2] \in LowSurrogates
                   THEN Accepted /\ CodePoint(fields["request_id"])
                                      = 65536 + (u[1] % 1024) * 1024 + (u[2] % 1024)
                   ELSE ~Accepted
              ELSE Accepted /\ (Len(u) = 1 => CodePoint(fields["request_id"]) = u[1])

\* When a complete set of members is refused with "missing required field",
\* adding parameters can make it acceptable: the error never sends a client
\* looking for a member when one it sent is what is wrong.
MissingIsCompletable ==
  /\ verdict = "MissingRequiredField" /\ parser = "request"
  /\ Has(RequiredKeys["request"])
  => KeysAt("parameters") \subseteq Allows(fields["command"])

=============================================================================
