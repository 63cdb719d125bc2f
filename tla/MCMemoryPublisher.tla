-------------------------- MODULE MCMemoryPublisher --------------------------
(* A small instance of MemoryPublisher for TLC: two subscribers of one event *)
(* and one of another, so that ids have gaps within an event.               *)
EXTENDS MemoryPublisher

CONSTANTS e1, e2, s1, s2, s3

MCEvents == {e1, e2}
MCSubs == {s1, s2, s3}
MCTopic == [s \in MCSubs |-> IF s = s3 THEN e2 ELSE e1]
=============================================================================
