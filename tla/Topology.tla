------------------------------- MODULE Topology -------------------------------
(***************************************************************************)
(* Topology::create: the first thing that is wrong with a configuration,   *)
(* or "none".  A configuration is a sequence of nodes and a sequence of    *)
(* links, in the order in which they were written.                         *)
(***************************************************************************)
EXTENDS Integers, Sequences, SequencesExt, Selection

Node(id, type) == [id |-> id, type |-> type]
Link(from, to, latency) == [from |-> from, to |-> to, latency |-> latency]
Configuration(name, nodes, links) == [name |-> name, nodes |-> nodes, links |-> links]

Joins(link, a, b) == {link.from, link.to} = {a, b}

Hosts(c) == LET hosts == Select(c.nodes, [id: STRING, type: {"host"}])
            IN [i \in DOMAIN hosts |-> hosts[i].id]
SwitchIds(c) == {n.id : n \in {m \in ToSet(c.nodes) : m.type = "switch"}}
NodeIds(c) == {n.id : n \in ToSet(c.nodes)}

NodeError(c, i) ==
  IF c.nodes[i].id = "" THEN "MissingNodeId"
  ELSE IF \E j \in 1 .. i - 1 : c.nodes[j].id = c.nodes[i].id THEN "DuplicateNodeId"
  ELSE "none"

LinkError(c, i) ==
  LET link == c.links[i]
  IN IF link.from = link.to THEN "SelfLink"
     ELSE IF {link.from, link.to} \ NodeIds(c) # {} THEN "UnknownLinkEndpoint"
     ELSE IF \E j \in 1 .. i - 1 : Joins(c.links[j], link.from, link.to) THEN "DuplicateLink"
     ELSE IF link.latency < 0 THEN "NegativeLatency"
     ELSE IF (link.from \in SwitchIds(c)) = (link.to \in SwitchIds(c)) THEN "InvalidLinkShape"
     ELSE "none"

ValidationError(c) ==
  LET switches == Len(SelectSeq(c.nodes, LAMBDA n : n.type = "switch"))
      checks == <<IF c.name = "" THEN "MissingName" ELSE "none",
                  IF c.nodes = <<>> THEN "MissingNodes" ELSE "none">>
                \o [i \in DOMAIN c.nodes |-> NodeError(c, i)]
                \o <<IF switches = 0 THEN "MissingSwitch"
                     ELSE IF switches > 1 THEN "MultipleSwitches" ELSE "none">>
                \o [i \in DOMAIN c.links |-> LinkError(c, i)]
      errors == SelectSeq(checks, LAMBDA e : e # "none")
  IN IF errors = <<>> THEN "none" ELSE Head(errors)

=============================================================================
