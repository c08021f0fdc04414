---------------------------- MODULE MCPcapReplay -----------------------------
(* Captures of up to three frames between two stations, in every format the     *)
(* reader knows, with times that jump back; and files it must refuse.           *)
EXTENDS PcapReplay

Ipv4(protocol, header, total, transport) ==
  [version |-> 4, header |-> header, total |-> total, fragment |-> FALSE, protocol |-> protocol,
   source |-> "i1", destination |-> "i2", port |-> transport, transport |-> transport]
Frame(src, dst, ethertype, ip) == [src |-> src, dst |-> dst, ethertype |-> ethertype, ip |-> ip]
NoIp == Ipv4("none", 0, 0, 0)

MCFrames ==
  ("flood" :> Frame("m1", "broadcast", "ipv4", Ipv4("udp", 20, 28, 8)))
  @@ ("reply" :> Frame("m2", "m1", "other", NoIp))
  @@ ("broken" :> Frame("m1", "m2", "ipv4", Ipv4("tcp", 20, 40, 12)))
  @@ ("stub" :> Frame("m1", "m2", "other", NoIp))
  @@ ("empty" :> Frame("none", "none", "other", NoIp))

SizeOf == ("flood" :> 44) @@ ("reply" :> 16) @@ ("broken" :> 56) @@ ("stub" :> 8) @@ ("empty" :> 0)

Rec(frame, ns) ==
  Record(ns, [i \in 1 .. SizeOf[frame] \div 4 |-> Word(frame, i, "raw")], SizeOf[frame], SizeOf[frame])

\* The files other programs write.
Num(n, order) == Word("number", n, order)
Classic(magic, order, records) ==
  <<Word(magic, 0, order), Num(0, order), Num(0, order), Num(0, order), Num(64, order), Word("ethernet", 0, order)>>
  \o FoldLeft(LAMBDA f, r :
       f \o <<Num(r.ns \div NanosPerSecond, order),
              Num((r.ns % NanosPerSecond) \div (IF magic = "nanoseconds" THEN 1 ELSE 10), order),
              Num(r.captured, order), Num(r.original, order)>> \o r.data, <<>>, records)

Block(type, order, body) ==
  <<Word(type, 0, order), Num(4 * (Len(body) + 3), order)>> \o body \o <<Num(4 * (Len(body) + 3), order)>>
Ng(order, opts, Ticks(_), records) ==
  Block("section", order, <<Word("order", 0, order), Num(1, order), Num(15, order), Num(15, order)>>)
  \o Block("names", order, <<Num(0, order)>>)
  \o Block("interface", order, <<Word("ethernet", 0, order), Num(64, order)>> \o opts)
  \o FoldLeft(LAMBDA f, r :
       f \o Block("enhanced", order,
              <<Num(0, order), Num(Ticks(r.ns) \div WordSize, order), Num(Ticks(r.ns) % WordSize, order),
                Num(r.captured, order), Num(r.original, order)>> \o r.data), <<>>, records)
Resolution(n, order) ==
  <<Word("name", 4, order), Word("text", 1, order), Word("tsresol", 1, order), Word("byte", n, order)>>

\* How another program counts a time in a resolution; a resolution finer than a
\* nanosecond has more digits than the reader keeps.
TicksOf(resolution, ns) ==
  CASE resolution >= 128 -> (ns * 2 ^ (resolution - 128)) \div NanosPerSecond
    [] resolution <= NanoDigits -> ns \div 10 ^ (NanoDigits - resolution)
    [] OTHER -> ns * 10 ^ (resolution - NanoDigits) + 3
InTicks(order, resolution, records) ==
  Ng(order, Resolution(resolution, order), LAMBDA ns : TicksOf(resolution, ns), records)
InDefault(order, records) == Ng(order, <<>>, LAMBDA ns : TicksOf(DefaultResolution, ns), records)

Simple(records) ==
  InDefault("le", <<>>)
  \o FoldLeft(LAMBDA f, r : f \o Block("simple", "le", <<Num(r.original, "le")>> \o r.data), <<>>, records)

Capture(file, records) == [file |-> file, records |-> records]

\* Contents: three frames, the second of them late or early.
Contents(times) ==
  {[i \in 1 .. 3 |-> Rec(names[i], times[i])] : names \in [1 .. 3 -> {"flood", "reply", "broken", "stub"}]}
Forward == <<10, 70, 250>>
Backward == <<60, 10, 60>>
Untimed == {[i \in 1 .. 2 |-> Rec(names[i], 0)] : names \in [1 .. 2 -> {"flood", "reply", "empty"}]}
Sample(times) == <<Rec("flood", times[1]), Rec("reply", times[2]), Rec("flood", times[3])>>

\* Times in resolutions coarser and finer than a nanosecond, and in halves,
\* quarters and powers too small for a word.  The ticks of the binary ones fit
\* ticks_to_nanoseconds.
TimesIn ==
  (0 :> <<100, 200, 0>>) @@ (NanoDigits + 1 :> <<20, 5, 24>>)
  @@ (129 :> <<50, 100, 0>>) @@ (130 :> <<25, 50, 0>>) @@ (136 :> <<0, 0, 0>>)

Good ==
  {Capture(InTicks("le", NanoDigits, c), c) : c \in Contents(Forward) \cup Contents(Backward)}
  \cup {Capture(Classic(magic, order, Sample(t)), Sample(t)) :
          magic \in {"microseconds", "nanoseconds"}, order \in {"le", "be"}, t \in {Forward, Backward}}
  \cup {Capture(InDefault(order, Sample(t)), Sample(t)) : order \in {"le", "be"}, t \in {Forward, Backward}}
  \cup {Capture(InTicks(order, r, Sample(TimesIn[r])), Sample(TimesIn[r])) :
          order \in {"le", "be"}, r \in DOMAIN TimesIn}
  \cup {Capture(InTicks("be", NanoDigits, <<Rec("flood", 7)>>) \o InDefault("le", <<Rec("reply", 20)>>),
                <<Rec("flood", 7), Rec("reply", 20)>>)}
  \cup {Capture(Simple(c), c) : c \in Untimed}

Refused ==
  {Capture(f, <<>>) :
     f \in {<<PartialWord>>, <<Word("text", 0, "le")>>, Classic("microseconds", "le", <<>>) \o <<Num(0, "le")>>,
            [Classic("nanoseconds", "be", <<>>) EXCEPT ![6] = Word("wifi", 0, "be")],
            SubSeq(InDefault("be", Sample(Forward)), 1, 30),
            Classic("microseconds", "le", <<Record(0, <<>>, 68, 68)>>)}}

MCCaptures == Good \cup Refused

\* Halves of a second that go on: the product of the third tick does not fit.
BinaryCaptures == {Capture(InTicks("le", 129, c), c) : c \in Contents(<<50, 100, 150>>)}

MCRuleFor == {"BroadcastStorm", "UdpFlood", "PortScan", "MalformedFrame"}
MCThreshold == [type \in AnomalyType |-> IF type = "HotTalker" THEN 0 ELSE 1]
=============================================================================
