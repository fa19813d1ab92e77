-------------------------- MODULE MCConsumerGroup ---------------------------
(* ConsumerGroup with the model values of group.cfg and group_evicted.cfg. *)
EXTENDS ConsumerGroup
=============================================================================
