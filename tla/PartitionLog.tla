----------------------------- MODULE PartitionLog -----------------------------
(***************************************************************************)
(* What a consumer group promises about one partition of a Kafka topic:    *)
(* at-least-once handling, in order. The log only grows; a message is      *)
(* finished when the messages before it are; and the committed offset      *)
(* never stands on an unfinished message, so that a consumer that starts   *)
(* from it again loses nothing.                                            *)
(***************************************************************************)
EXTENDS Naturals, Sequences

CONSTANT Events

VARIABLES log,       \* the messages of the partition
          finished,  \* the offsets whose handling is over
          committed  \* the offset a new consumer starts after

partition == <<log, finished, committed>>

Init == log = << >> /\ finished = {} /\ committed = 0

Produce(e) == log' = Append(log, e) /\ UNCHANGED <<finished, committed>>
Finish(i)  == /\ 1 .. i - 1 \subseteq finished
              /\ finished' = finished \cup {i} /\ UNCHANGED <<log, committed>>
Commit(i)  == /\ 1 .. i \subseteq finished
              /\ committed' = i /\ UNCHANGED <<log, finished>>

Next == \/ \E e \in Events : Produce(e)
        \/ \E i \in 1 .. Len(log) : Finish(i) \/ Commit(i)

Spec == Init /\ [][Next]_partition
=============================================================================
