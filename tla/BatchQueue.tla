----------------------------- MODULE BatchQueue ------------------------------
(***************************************************************************)
(* What MetalStreamParser promises its caller: a FIFO of packet batches.   *)
(* "Results are always returned in submission order, because the host      *)
(* aggregator downstream learns MAC addresses in order"                    *)
(* (metal_packet_parser.hpp:77-79).  A batch gets the next sequence number *)
(* when it is accepted, and each result is returned once, oldest first.    *)
(***************************************************************************)
EXTENDS Naturals, Sequences

CONSTANT Payloads     \* what distinguishes one batch from another

VARIABLES
  queue,        \* accepted batches whose results were not returned yet
  accepted,     \* how many batches were accepted
  delivered     \* results returned to the caller, in the order returned

absvars == <<queue, accepted, delivered>>

Batch == [sequence: Nat, payload: Payloads]

QInit ==
  /\ queue = <<>>
  /\ accepted = 0
  /\ delivered = <<>>

Accept(payload) ==
  /\ queue' = Append(queue, [sequence |-> accepted, payload |-> payload])
  /\ accepted' = accepted + 1
  /\ UNCHANGED delivered

ReturnOne ==
  /\ queue # <<>>
  /\ delivered' = Append(delivered, Head(queue))
  /\ queue' = Tail(queue)
  /\ UNCHANGED accepted

ReturnAll ==
  /\ delivered' = delivered \o queue
  /\ queue' = <<>>
  /\ UNCHANGED accepted

QNext ==
  \/ \E payload \in Payloads : Accept(payload)
  \/ ReturnOne
  \/ ReturnAll

QSpec == QInit /\ [][QNext]_absvars

\* Every accepted batch is either still queued or was returned, once, and the
\* sequence numbers run on from the first result returned to the last batch
\* queued: this is what "in submission order" means.
InSubmissionOrder ==
  /\ Len(delivered) + Len(queue) = accepted
  /\ \A n \in 1..Len(delivered) : delivered[n].sequence = n - 1
  /\ \A n \in 1..Len(queue) : queue[n].sequence = Len(delivered) + n - 1

QTypeOK ==
  /\ queue \in Seq(Batch)
  /\ accepted \in Nat
  /\ delivered \in Seq(Batch)
=============================================================================
