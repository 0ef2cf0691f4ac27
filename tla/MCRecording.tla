---------------------------- MODULE MCRecording ----------------------------
(* Instances of Recording for TLC. *)
EXTENDS Recording, TLC

CONSTANTS s1, s2, t1, t2, metrics, journal

\* One producer and its restart, or two of its processes at once.
SameProducer == [s \in Sessions |-> metrics]

\* A metrics producer and a journal producer, both expected.
TwoProducers == [s \in Sessions |-> IF s = s1 THEN metrics ELSE journal]

SessionSymmetry == Permutations(Sessions)
=============================================================================
