------------------------ MODULE MCInstanceAggregate ------------------------
(* One instance, from pending through every phase and beyond.              *)
EXTENDS InstanceAggregate
============================================================================
