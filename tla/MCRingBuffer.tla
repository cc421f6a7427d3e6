---------------------------- MODULE MCRingBuffer ----------------------------
(* RingBuffer with two producers that also help, one consumer, two slots,  *)
(* and three pushes, so that a producer laps the consumer.                 *)
EXTENDS RingBuffer, TLC

CONSTANTS p1, p2, c1

MCProducers == {p1, p2}
MCHelpers   == {p1, p2}
MCConsumers == {c1}
MCMaxPushes == p1 :> 2 @@ p2 :> 1

=============================================================================
