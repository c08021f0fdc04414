-------------------------------- MODULE Pcap ---------------------------------
(***************************************************************************)
(* Capture files: the reader of classic pcap and of pcapng, and the writer *)
(* of pcapng.                                                              *)
(*                                                                         *)
(* A file is a sequence of four-byte words.  A word says what it holds     *)
(* (tag), the number in it (n) and the byte order it was written in; the   *)
(* words of a frame carry the frame's name.  Lengths are in bytes, so a    *)
(* frame of n bytes takes (n + 3) \div 4 words; frames of classic captures *)
(* are taken to be a whole number of words long.                           *)
(*                                                                         *)
(* Numbers are scaled down: a word holds numbers below WordSize (2^32), a  *)
(* second has 10^NanoDigits (10^9) nanoseconds, and if_tsresol defaults to *)
(* DefaultResolution (6) digits.                                           *)
(***************************************************************************)
EXTENDS Integers, Sequences, FiniteSetsExt, SequencesExt

CONSTANTS WordSize, NanoDigits, DefaultResolution, MaxSnaplen

ASSUME PcapAssumption ==
  /\ WordSize \in Nat \ {0} /\ MaxSnaplen \in Nat /\ NanoDigits \in Nat
  /\ DefaultResolution \in 0 .. NanoDigits

Word(tag, n, order) == [tag |-> tag, n |-> n, order |-> order]

\* What is left of a word when the file was cut inside it.
PartialWord == Word("partial", 0, "le")

Words(bytes) == (bytes + 3) \div 4

\* A number read in the wrong byte order is no plausible length.
read_u32(word, swapped) ==
  IF (word.order = "be") = swapped THEN word.n ELSE IF word.n = 0 THEN 0 ELSE WordSize * WordSize

\* A block's type.  A section header's reads the same in both orders.
BlockType(word, swapped) ==
  IF word.tag = "section" \/ (word.order = "be") = swapped THEN word.tag ELSE "unknown"

NanosPerSecond == 10 ^ NanoDigits

\* 64-bit arithmetic: the product wraps.  A resolution of 128 and above is a
\* power of two, which has to fit a word of 64 bits too.
ticks_to_nanoseconds(ticks, resolution) ==
  CASE resolution >= 128 /\ 2 ^ (resolution - 128) >= WordSize * WordSize -> 0
    [] resolution >= 128 /\ 2 ^ (resolution - 128) < WordSize * WordSize ->
         ((ticks * NanosPerSecond) % (WordSize * WordSize)) \div (2 ^ (resolution - 128))
    [] resolution <= NanoDigits -> (ticks * 10 ^ (NanoDigits - resolution)) % (WordSize * WordSize)
    [] OTHER -> ticks \div (10 ^ (resolution - NanoDigits))

Record(ns, data, captured, original) ==
  [ns |-> ns, data |-> data, captured |-> captured, original |-> original]

Fail(reader, error) == [reader EXCEPT !.error = error]

-----------------------------------------------------------------------------
(* pcapng.                                                                  *)

RECURSIVE read_timestamp_resolution(_, _)
read_timestamp_resolution(options, swapped) ==
  IF options = <<>> \/ options[1].tag = "end" THEN DefaultResolution
  ELSE LET length == read_u32(options[1], swapped)
           next == 2 + Words(length)
       IN IF options[1].tag = "tsresol" /\ length >= 1 /\ next - 1 <= Len(options) THEN options[2].n
          ELSE IF next > Len(options) THEN DefaultResolution
          ELSE read_timestamp_resolution(SubSeq(options, next, Len(options)), swapped)

InterfaceDescription(r, body) ==
  IF Len(body) < 2 THEN Fail(r, "TruncatedHeader")
  ELSE IF body[1].tag # "ethernet" THEN Fail(r, "UnsupportedLinkType")
  ELSE [r EXCEPT
         !.snaplen = Max({@, read_u32(body[2], r.swapped)}),
         !.resolutions = Append(@, read_timestamp_resolution(SubSeq(body, 3, Len(body)), r.swapped))]

EnhancedPacket(r, body) ==
  IF Len(body) < 5 THEN Fail(r, "TruncatedHeader")
  ELSE LET interface == read_u32(body[1], r.swapped)
           ticks == read_u32(body[2], r.swapped) * WordSize + read_u32(body[3], r.swapped)
           captured == read_u32(body[4], r.swapped)
       IN IF captured > MaxSnaplen THEN Fail(r, "OversizePacket")
          ELSE IF 4 * (Len(body) - 5) < captured \/ interface >= Len(r.resolutions) THEN Fail(r, "TruncatedPacket")
          ELSE [r EXCEPT !.packets = Append(@,
                 Record(ticks_to_nanoseconds(ticks, r.resolutions[interface + 1]),
                        SubSeq(body, 6, 5 + Words(captured)), captured, read_u32(body[5], r.swapped)))]

\* The length is cut to the largest snaplen of any interface so far.
SimplePacket(r, body) ==
  IF body = <<>> \/ r.resolutions = <<>> THEN Fail(r, "TruncatedPacket")
  ELSE LET original == read_u32(body[1], r.swapped)
           captured == IF r.snaplen = 0 THEN original ELSE Min({original, r.snaplen})
       IN IF captured > MaxSnaplen THEN Fail(r, "OversizePacket")
          ELSE IF 4 * (Len(body) - 1) < captured THEN Fail(r, "TruncatedPacket")
          ELSE [r EXCEPT !.packets = Append(@,
                 Record(0, SubSeq(body, 2, 1 + Words(captured)), captured, original))]

\* Blocks of other types are skipped.
Body(r, type, body) ==
  CASE type = "interface" -> InterfaceDescription(r, body)
    [] type = "enhanced" -> EnhancedPacket(r, body)
    [] type = "simple" -> SimplePacket(r, body)
    [] OTHER -> r

\* One turn of the loop of from_pcapng_bytes.
ReadBlock(file, reader) ==
  LET left == Len(file) - reader.offset
      At(i) == file[reader.offset + i]
      type == BlockType(At(1), reader.swapped)
      r == IF type = "section" THEN [reader EXCEPT !.swapped = At(3).order = "be", !.resolutions = <<>>]
           ELSE reader
      length == read_u32(At(2), r.swapped)
      body == SubSeq(file, r.offset + 3, r.offset + (length \div 4) - 1)
      read == Body(r, type, body)
  IN IF left < 3 THEN Fail(reader, "TruncatedPacket")
     ELSE IF type = "section" /\ left < 4 THEN Fail(reader, "TruncatedHeader")
     ELSE IF type = "section" /\ At(3).tag # "order" THEN Fail(reader, "UnknownMagic")
     ELSE IF length < 12 \/ length % 4 # 0 \/ length > 4 * left THEN Fail(reader, "TruncatedPacket")
     ELSE IF read.error # "none" THEN read
     ELSE IF read_u32(At(length \div 4), r.swapped) # length THEN Fail(reader, "TruncatedPacket")
     ELSE [read EXCEPT !.offset = @ + (length \div 4)]

\* A loop that ends when no whole block can follow.
AtEnd_Lenient(file, reader) == Len(file) - reader.offset < 3

AtEnd(file, reader) == reader.offset >= Len(file)

RECURSIVE ReadBlocks(_, _)
ReadBlocks(file, reader) ==
  IF reader.error # "none" \/ AtEnd(file, reader) THEN reader
  ELSE ReadBlocks(file, ReadBlock(file, reader))

from_pcapng_bytes(file) ==
  ReadBlocks(file, [offset |-> 0, swapped |-> FALSE, resolutions |-> <<>>, snaplen |-> 0,
                    packets |-> <<>>, error |-> "none"])

-----------------------------------------------------------------------------
(* Classic pcap, and the choice between the two.                            *)

\* A bug to catch: every fraction of a second taken for nanoseconds.
Fraction_AsNanos(ticks, nanos) == ticks

\* The fraction of a second, which counts microseconds unless the magic says
\* nanoseconds.
Fraction(ticks, nanos) == IF nanos THEN ticks ELSE ticks * 10 ^ (NanoDigits - DefaultResolution)

\* One record.
ReadRecord(file, reader, nanos) ==
  LET left == Len(file) - reader.offset
      At(i) == read_u32(file[reader.offset + i], reader.swapped)
      start == reader.offset + 5
  IN IF left < 4 THEN Fail(reader, "TruncatedPacket")
     ELSE IF At(3) > MaxSnaplen THEN Fail(reader, "OversizePacket")
     ELSE IF 4 * (left - 4) < At(3) THEN Fail(reader, "TruncatedPacket")
     ELSE [reader EXCEPT
            !.offset = @ + 4 + Words(At(3)),
            !.packets = Append(@, Record(At(1) * NanosPerSecond + Fraction(At(2), nanos),
                                         SubSeq(file, start, start + Words(At(3)) - 1), At(3), At(4)))]

RECURSIVE ReadRecords(_, _, _)
ReadRecords(file, reader, nanos) ==
  IF reader.error # "none" \/ reader.offset >= Len(file) THEN reader
  ELSE ReadRecords(file, ReadRecord(file, reader, nanos), nanos)

\* PcapCapture::from_bytes.
from_bytes(file) ==
  LET fresh == [offset |-> 6, swapped |-> file[1].order = "be", packets |-> <<>>, error |-> "none"]
  IN IF file = <<>> \/ file[1].tag = "partial" THEN [packets |-> <<>>, error |-> "TruncatedHeader"]
     ELSE IF file[1].tag = "section" THEN from_pcapng_bytes(file)
     ELSE IF Len(file) < 6 THEN Fail(fresh, "TruncatedHeader")
     ELSE IF file[1].tag \notin {"microseconds", "nanoseconds"} THEN Fail(fresh, "UnknownMagic")
     ELSE IF file[6].tag # "ethernet" THEN Fail(fresh, "UnsupportedLinkType")
     ELSE ReadRecords(file, fresh, file[1].tag = "nanoseconds")

-----------------------------------------------------------------------------
(* PcapNgWriter, which writes little endian.                                 *)

Number(n) == Word("number", n, "le")

close_block(type, body) ==
  LET length == Number(4 * (Len(body) + 3))
  IN <<Word(type, 0, "le"), length>> \o body \o <<length>>

append_option(code, bytes, words) == <<Word(code, bytes, "le")>> \o words
OptionEnd == <<Word("end", 0, "le")>>

Text(words) == [i \in 1 .. words |-> Word("text", i, "le")]

SectionHeader ==
  close_block("section",
    <<Word("order", 0, "le"), Word("version", 1, "le"), Number(WordSize - 1), Number(WordSize - 1)>>
    \o append_option("application", 7, Text(2)) \o OptionEnd)

\* What create writes.
FileHeader(snaplen) ==
  SectionHeader
  \o close_block("interface",
       <<Word("ethernet", 0, "le"), Number(snaplen)>>
       \o append_option("name", 7, Text(2))
       \o append_option("tsresol", 1, <<Word("byte", NanoDigits, "le")>>) \o OptionEnd)

\* What write appends for a record, with a comment of so many words.
PacketBlock(record, comment) ==
  close_block("enhanced",
    <<Number(0), Number(record.ns \div WordSize), Number(record.ns % WordSize), Number(record.captured),
      Number(Max({record.original, record.captured}))>>
    \o record.data \o append_option("comment", 4 * comment, Text(comment))
    \o OptionEnd)

=============================================================================
