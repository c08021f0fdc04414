----------------------------- MODULE PcapReplay ------------------------------
(***************************************************************************)
(* wirelab_pcap: a capture is read, analysed batch by batch, judged by the *)
(* detector on the clock of the capture, and written again as pcapng with  *)
(* the verdict on every packet.  It composes the reader and the writer     *)
(* (Pcap), the analyzer (PacketAnalyzer) and the sliding window            *)
(* (AnomalyDetector).                                                      *)
(*                                                                         *)
(* The output is an ofstream: until it is flushed, any part of what was    *)
(* written may have reached the disk when the program dies or the disk is  *)
(* full.                                                                   *)
(***************************************************************************)
EXTENDS AnomalyDetector, PacketAnalyzer, Pcap

CONSTANTS
  Frames,        \* the header fields of each frame, by the name its words carry
  Captures,      \* captures a user may have: the file, and the records put in it
  BatchSizes,    \* --batch
  RuleFor        \* the anomaly types for which there is a default rule

ASSUME ReplayAssumption == BatchSizes \subseteq Nat \ {0}

VARIABLES
  capture, options,     \* the command line
  pc,                   \* where the program is
  packets,              \* what was read: PcapCapture::packets
  start, index,         \* the batch, the packet of it to export next
  learned,              \* learned_macs_
  batch,                \* the analysis of the current batch
  verdicts, totals,     \* every packet's analysis so far; the totals printed
  stream, disk,         \* what was given to the output file, and what is on disk
  exported, ends        \* history: the records written, where blocks end

rvars == <<capture, options, pc, packets, start, index, learned, batch, verdicts, totals,
           stream, disk, exported, ends>>
vars == <<rvars, dvars>>

-----------------------------------------------------------------------------

NoTotals == [received |-> 0, bytes |-> 0, malformed |-> 0, broadcast |-> 0, unknown |-> 0,
             known |-> 0, anomalies |-> 0, decisions |-> 0]

\* The analysis the analyzer makes of one record of the capture.
view(record) ==
  parse_packet(IF record.data = <<>> THEN Frames["empty"] ELSE Frames[record.data[1].tag], record.captured)

Views(records) == [i \in DOMAIN records |-> view(records[i])]

\* policies.evaluate: the anomalies for which there is a rule.
Decisions(anomalies) == {a \in anomalies : a.type \in RuleFor}

\* Which of the batch's anomalies indict a packet.
Matched(packet) ==
  {a \in events :
     \/ a.source # "none" /\ a.source \in {packet.mac, packet.ip}
     \/ a.type = "MalformedFrame" /\ packet.classification = "Malformed"}

HeaderEnds == {Len(SectionHeader), Len(FileHeader(MaxSnaplen))}

Init ==
  /\ DInit
  /\ capture \in Captures
  /\ options \in [batch: BatchSizes, output: BOOLEAN, only_flagged: BOOLEAN]
  /\ pc = "read" /\ packets = <<>> /\ start = 0 /\ index = 1
  /\ learned = {} /\ batch = <<>> /\ verdicts = <<>> /\ totals = NoTotals
  /\ stream = <<>> /\ disk = <<>> /\ exported = <<>> /\ ends = {}

\* PcapCapture::from_file.  A file that cannot be read ends the program.
Read ==
  /\ pc = "read"
  /\ LET reader == from_bytes(capture.file)
     IN /\ packets' = IF reader.error = "none" THEN reader.packets ELSE <<>>
        /\ pc' = IF reader.error # "none" THEN "failed" ELSE IF options.output THEN "create" ELSE "batch"
  /\ UNCHANGED <<capture, options, start, index, learned, batch, verdicts, totals,
                 stream, disk, exported, ends, dvars>>

\* PcapNgWriter::create, which may not be able to open the file.
Create ==
  /\ pc = "create"
  /\ \/ pc' = "failed" /\ UNCHANGED <<stream, ends>>
     \/ pc' = "batch" /\ stream' = FileHeader(MaxSnaplen) /\ ends' = HeaderEnds
  /\ UNCHANGED <<capture, options, packets, start, index, learned, batch, verdicts, totals,
                 disk, exported, dvars>>

\* One turn of the loop: analyse a batch and evaluate the pipeline at the time
\* of its last packet.
Analyze ==
  /\ pc = "batch" /\ start < Len(packets)
  /\ LET count == Min({options.batch, Len(packets) - start})
         records == SubSeq(packets, start + 1, start + count)
         analysis == aggregate(Views(records), learned)
     IN /\ Evaluate(analysis.packets, Last(records).ns)
        /\ batch' = analysis.packets /\ learned' = analysis.learned
        /\ verdicts' = verdicts \o analysis.packets
        /\ totals' =
             [received |-> totals.received + analysis.received,
              bytes |-> totals.bytes + analysis.bytes,
              malformed |-> totals.malformed + analysis.malformed,
              broadcast |-> totals.broadcast + analysis.broadcast,
              unknown |-> totals.unknown + analysis.unknown,
              known |-> totals.known + analysis.known,
              anomalies |-> totals.anomalies + Cardinality(events'),
              decisions |-> totals.decisions + Cardinality(Decisions(events'))]
        /\ IF options.output THEN pc' = "export" /\ UNCHANGED start
           ELSE start' = start + count /\ UNCHANGED pc
  /\ index' = 1
  /\ UNCHANGED <<capture, options, packets, stream, disk, exported, ends>>

\* One packet of the batch: skipped, or written with its comment, a line for the
\* packet and one for each verdict.
Export ==
  /\ pc = "export" /\ index <= Len(batch)
  /\ LET record == packets[start + index]
         matched == Matched(batch[index])
     IN IF matched = {} /\ options.only_flagged THEN UNCHANGED <<stream, exported, ends>>
        ELSE /\ stream' = stream \o PacketBlock(record, 1 + Cardinality(matched))
             /\ exported' = Append(exported, record)
             /\ ends' = ends \cup {Len(stream')}
  /\ index' = index + 1
  /\ UNCHANGED <<capture, options, pc, packets, start, learned, batch, verdicts, totals, disk, dvars>>

NextBatch ==
  /\ pc = "export" /\ index > Len(batch)
  /\ pc' = "batch" /\ start' = start + Len(batch)
  /\ UNCHANGED <<capture, options, packets, index, learned, batch, verdicts, totals,
                 stream, disk, exported, ends, dvars>>

\* The end of the loop, and flush.
Flush ==
  /\ pc = "batch" /\ start >= Len(packets)
  /\ pc' = "done" /\ disk' = stream
  /\ UNCHANGED <<capture, options, packets, start, index, learned, batch, verdicts, totals,
                 stream, exported, ends, dvars>>

\* The program is killed, or a write fails and it gives up: the file holds some
\* part of the stream, down to the byte.
CutShort ==
  /\ pc \in {"batch", "export"} /\ options.output
  /\ pc' = "cut"
  /\ \E n \in 0 .. Len(stream), partial \in BOOLEAN :
       /\ partial => n < Len(stream)
       /\ disk' = SubSeq(stream, 1, n) \o IF partial THEN <<PartialWord>> ELSE <<>>
  /\ UNCHANGED <<capture, options, packets, start, index, learned, batch, verdicts, totals,
                 stream, exported, ends, dvars>>

Next == Read \/ Create \/ Analyze \/ Export \/ NextBatch \/ Flush \/ CutShort

Spec == Init /\ [][Next]_vars

-----------------------------------------------------------------------------

\* How a capture is cut into batches is invisible in what is learned of it: the
\* classification of every packet and the totals are those of one batch holding
\* them all, because the learned addresses survive a batch.  (The anomalies are
\* not: a batch is judged at the time of its last packet.)
SplitIsInvisible ==
  LET whole == aggregate(Views(SubSeq(packets, 1, Len(verdicts))), {})
  IN /\ verdicts = whole.packets
     /\ learned = whole.learned
     /\ \A field \in {"received", "bytes", "malformed", "broadcast", "unknown", "known"} :
          totals[field] = whole[field]

\* The wire length never reads back below the captured length.
AsExported(record) == [record EXCEPT !.original = Max({record.original, record.captured})]

\* A file that is cut short never passes for a whole one, and never yields a
\* record that was not exported: between two blocks it reads as the records
\* before, anywhere else, down to the byte, it is refused.
CutIsNoticed ==
  pc = "cut" =>
    LET reread == from_bytes(disk)
        whole == Cardinality({e \in ends \ HeaderEnds : e <= Len(disk)})
    IN IF disk # <<>> /\ Last(disk) # PartialWord /\ Len(disk) \in ends
       THEN /\ reread.error = "none"
            /\ reread.packets = [i \in 1 .. whole |-> AsExported(exported[i])]
       ELSE reread.error # "none"

\* What was exported reads back, and it is what the capture was made of: every
\* record, whatever format and byte order it came in, with its time in whole
\* nanoseconds, its bytes and its lengths (only the flagged ones, in order, on
\* request).  The time holds for every decimal resolution, and for a binary one
\* as long as its ticks times 10^9 fit 64 bits.
ExportRereads ==
  (pc = "done" /\ options.output) =>
    LET reread == from_bytes(disk)
    IN /\ reread.error = "none"
       /\ reread.packets = [i \in DOMAIN exported |-> AsExported(exported[i])]
       /\ IF options.only_flagged THEN ToSet(exported) \subseteq ToSet(capture.records)
          ELSE exported = capture.records

\* The time of a packet is that of its record "normalised to nanoseconds"
\* (pcap.hpp), whatever the resolution.  With a binary resolution the product in
\* ticks_to_nanoseconds wraps.
TimesAreNanoseconds ==
  pc = "batch" => \A i \in DOMAIN packets : packets[i].ns = capture.records[i].ns

=============================================================================
