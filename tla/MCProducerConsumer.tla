------------------------- MODULE MCProducerConsumer -------------------------
(***************************************************************************)
(* Producer/consumer for TLC: threads are model values.                    *)
(***************************************************************************)
EXTENDS ProducerConsumer
=============================================================================
