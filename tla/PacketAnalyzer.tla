--------------------------- MODULE PacketAnalyzer ----------------------------
(***************************************************************************)
(* CpuPacketAnalyzer: frames are parsed one by one, then aggregated in     *)
(* order by an aggregator that learns the source addresses it has seen and *)
(* keeps them from one batch to the next.                                  *)
(*                                                                         *)
(* A frame is a record of the header fields the parser looks at, lengths   *)
(* in bytes; ip.transport is the length the UDP header states, or the size *)
(* of the TCP header.  "none" stands for an address or a protocol of zero. *)
(* Of the two ports only the destination's is kept.  The order of the      *)
(* rankings is left out: tallies are functions.                            *)
(***************************************************************************)
EXTENDS Naturals, Sequences, FiniteSets, FiniteSetsExt, SequencesExt

EthernetHeader == 14
IPv4Header == 20
UdpHeader == 8
TcpHeader == 20
IcmpHeader == 4

\* PacketAnalysis as it is constructed: what a frame without a whole Ethernet
\* header is reported as.
NoAnalysis(size) ==
  [mac |-> "none", dst |-> "none", ip |-> "none", dst_ip |-> "none", port |-> 0, ingress |-> 0,
   ethertype |-> "none", protocol |-> "none", size |-> size,
   classification |-> "Malformed", valid |-> FALSE, validity |-> "MalformedEthernet"]

HeaderFits(ip, payload) ==
  /\ payload >= IPv4Header
  /\ ip.version = 4
  /\ ip.header \in IPv4Header .. payload
  /\ ip.total \in ip.header .. payload

TransportFits(ip) ==
  LET size == ip.total - ip.header
  IN CASE ip.protocol = "udp" -> size >= UdpHeader /\ ip.transport \in UdpHeader .. size
       [] ip.protocol = "tcp" -> size >= TcpHeader /\ ip.transport \in TcpHeader .. size
       [] ip.protocol = "icmp" -> size >= IcmpHeader
       [] OTHER -> TRUE

\* The addresses and the protocol survive a transport header that is malformed.
\* A fragment other than the first has none.
parse_ipv4(analysis, ip, payload) ==
  LET addressed == [analysis EXCEPT !.ip = ip.source, !.dst_ip = ip.destination, !.protocol = ip.protocol]
  IN IF ~HeaderFits(ip, payload) THEN [analysis EXCEPT !.validity = "MalformedIpv4"]
     ELSE IF ip.fragment THEN [addressed EXCEPT !.validity = "Valid"]
     ELSE IF ~TransportFits(ip) THEN [addressed EXCEPT !.validity = "MalformedTransport"]
     ELSE [addressed EXCEPT !.validity = "Valid",
             !.port = IF ip.protocol \in {"udp", "tcp"} THEN ip.port ELSE 0]

\* size is what was captured of the frame.
parse_packet(frame, size) ==
  IF size < EthernetHeader THEN NoAnalysis(size)
  ELSE LET framed == [NoAnalysis(size) EXCEPT !.mac = frame.src, !.dst = frame.dst,
                                              !.ethertype = frame.ethertype]
           parsed == IF frame.ethertype = "ipv4"
                     THEN parse_ipv4(framed, frame.ip, size - EthernetHeader)
                     ELSE [framed EXCEPT !.validity = "Valid"]
       IN [parsed EXCEPT !.valid = parsed.validity = "Valid"]

-----------------------------------------------------------------------------

Framed(packet) == packet.validity # "MalformedEthernet"
ValidIPv4(packet) == packet.ethertype = "ipv4" /\ packet.valid

\* aggregate_histogram, aggregate_mac_traffic, aggregate_traffic_matrix and the
\* flows: how many packets and bytes there were of each key.  keys gives the key
\* of the packets that have one.
Tally(packets, keys) ==
  LET Of(k) == {i \in DOMAIN keys : keys[i] = k}
  IN [k \in {keys[i] : i \in DOMAIN keys} |->
        [packets |-> Cardinality(Of(k)), bytes |-> MapThenSumSet(LAMBDA i : packets[i].size, Of(k))]]

\* The bucket of the frame size histogram, by its least size.
Bucket(size) == Max({m \in {0, 64, 128, 256, 512, 1024, 1519} : m <= size})

flow_key(packet) == <<packet.ip, packet.dst_ip, packet.port, packet.protocol>>

\* A batch that starts with nothing learned.
Known_PerBatch(packets, learned, i) == {packets[j].mac : j \in {k \in 1 .. i - 1 : Framed(packets[k])}}

\* The addresses learned by the time packet i is classified: its own source is
\* learned afterwards.
Known(packets, learned, i) ==
  learned \cup {packets[j].mac : j \in {k \in 1 .. i - 1 : Framed(packets[k])}}

classify(packets, learned, i) ==
  IF ~Framed(packets[i]) THEN "Malformed"
  ELSE IF packets[i].dst = "broadcast" THEN "Broadcast"
  ELSE IF packets[i].dst \in Known(packets, learned, i) THEN "KnownUnicast"
  ELSE "UnknownUnicast"

\* PacketAnalysisAggregator::aggregate: the batch, and what is learned after it.
aggregate(packets, learned) ==
  LET all == DOMAIN packets
      framed == {i \in all : Framed(packets[i])}
      ipv4 == {i \in all : ValidIPv4(packets[i])}
      class == [i \in all |-> classify(packets, learned, i)]
      Count(c) == Cardinality({i \in all : class[i] = c})
  IN [packets |-> [i \in all |-> [packets[i] EXCEPT !.classification = class[i]]],
      received |-> Len(packets),
      bytes |-> MapThenSumSet(LAMBDA i : packets[i].size, all),
      malformed |-> Cardinality({i \in all : ~packets[i].valid}),
      broadcast |-> Count("Broadcast"),
      known |-> Count("KnownUnicast"),
      unknown |-> Count("UnknownUnicast"),
      ethertypes |-> Tally(packets, [i \in framed |-> packets[i].ethertype]),
      protocols |-> Tally(packets, [i \in ipv4 |-> packets[i].protocol]),
      ports |-> Tally(packets, [i \in {j \in ipv4 : packets[j].protocol \in {"udp", "tcp"}} |-> packets[i].port]),
      sizes |-> Tally(packets, [i \in all |-> Bucket(packets[i].size)]),
      sources |-> Tally(packets, [i \in framed |-> packets[i].mac]),
      destinations |-> Tally(packets, [i \in framed |-> packets[i].dst]),
      matrix |-> Tally(packets, [i \in framed |-> <<packets[i].mac, packets[i].dst>>]),
      flows |-> Tally(packets, [i \in ipv4 |-> flow_key(packets[i])]),
      learned |-> learned \cup {packets[i].mac : i \in framed}]

=============================================================================
