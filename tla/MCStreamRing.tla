---------------------------- MODULE MCStreamRing -----------------------------
(***************************************************************************)
(* Bounded instances of StreamRing: three slots, as                        *)
(* DEFAULT_PIPELINE_DEPTH, and enough batches for both cursors to wrap.    *)
(***************************************************************************)
EXTENDS StreamRing

CONSTANTS a, none

MCPayloads == {a, none}
=============================================================================
