---------------------------- MODULE IngestConsumer ----------------------------
(***************************************************************************)
(* The way of a device message from EMQX to business-api, on one Kafka     *)
(* partition: the webhook of mqtt-kafka-bridge writes it to the log, and   *)
(* the consumers of device-communication handle it and commit its offset.  *)
(*                                                                         *)
(* Two loops are modelled. "ordered" (runOrderedKafkaConsumer, the alert   *)
(* consumer) tries a message until it is handled. "bounded" and "dlq"      *)
(* (runOrderedKafkaConsumerWithRetry, without and with a dead letter       *)
(* queue; the protocol parser has none) give up after MaxRetries retries.  *)
(* The workers of a consumer are goroutines that share one reader.         *)
(*                                                                         *)
(* A handler reports success when business-api took the message, or when   *)
(* the message can never be taken and was put into device_ingest_errors.   *)
(* An attempt that fails may have had its effect, and what the failure was *)
(* does not matter: a permanent one is isolated by the handler itself.     *)
(***************************************************************************)
EXTENDS Naturals, Sequences

CONSTANTS
    Events,      \* what devices publish
    Poison,      \* events that business-api can never take
    Workers,     \* goroutines on the reader (worker_count)
    Loops,       \* the loops to consider
    MaxRetries,  \* retries of the bounded loop (DefaultMaxRetries is 5)
    MaxLog       \* bound on the length of the log

ASSUME IngestAssumption ==
    /\ Poison \subseteq Events
    /\ Loops \subseteq {"ordered", "bounded", "dlq"}
    /\ MaxRetries \in Nat /\ MaxLog \in Nat

VARIABLES
    loop,       \* the loop the workers run
    log,        \* the messages of the partition
    acked,      \* events whose webhook was answered with 204
    committed,  \* offset committed for the consumer group
    next,       \* offset that FetchMessage returns next
    pc,         \* pc[w]: "fetch", "handle" or "commit"
    held,       \* held[w]: offset of the message worker w has fetched
    tries,      \* tries[w]: attempts made at it
    applied,    \* offsets that had their effect in business-api
    settled,    \* offsets whose handler returned no error
    dead,       \* offsets in the dead letter queue
    dropped     \* offsets that were given up and stored nowhere

fates == <<applied, settled, dead, dropped>>
vars == <<loop, log, acked, committed, next, pc, held, tries, applied, settled, dead, dropped>>

Offsets  == 1 .. MaxLog
Finished == settled \cup dead \cup dropped

Init ==
    /\ loop \in Loops
    /\ log = << >> /\ acked = {}
    /\ committed = 0 /\ next = 1
    /\ pc = [w \in Workers |-> "fetch"]
    /\ held = [w \in Workers |-> 0]
    /\ tries = [w \in Workers |-> 0]
    /\ applied = {} /\ settled = {} /\ dead = {} /\ dropped = {}

(* The bridge. *)

\* handleWebhook: the event is written to Kafka and answered with 204, or the
\* answer is 502 although it was written; EMQX posts an unanswered event again.
Webhook(e) ==
    /\ e \notin acked /\ Len(log) < MaxLog
    /\ log' = Append(log, e)
    /\ acked' \in {acked, acked \cup {e}}
    /\ UNCHANGED <<loop, committed, next, pc, held, tries, fates>>

(* A worker. *)

\* An attempt may have its effect in business-api, unless it is refused there.
MayTakeEffect(w) == applied' \in IF log[held[w]] \in Poison THEN {applied}
                                ELSE {applied, applied \cup {held[w]}}

\* (With ReadMessage, the offset would be committed here.)
FetchCommitting(w) ==
    /\ pc[w] = "fetch" /\ next <= Len(log)
    /\ pc' = [pc EXCEPT ![w] = "handle"]
    /\ held' = [held EXCEPT ![w] = next]
    /\ tries' = [tries EXCEPT ![w] = 0]
    /\ next' = next + 1 /\ committed' = next
    /\ UNCHANGED <<loop, log, acked, fates>>

Fetch(w) ==
    /\ pc[w] = "fetch" /\ next <= Len(log)
    /\ pc' = [pc EXCEPT ![w] = "handle"]
    /\ held' = [held EXCEPT ![w] = next]
    /\ tries' = [tries EXCEPT ![w] = 0]
    /\ next' = next + 1
    /\ UNCHANGED <<loop, log, acked, committed, fates>>

\* The handler succeeds: business-api took the message, or it was isolated.
Succeed(w) ==
    /\ pc[w] = "handle"
    /\ MayTakeEffect(w)
    /\ settled' = settled \cup {held[w]}
    /\ pc' = [pc EXCEPT ![w] = "commit"]
    /\ UNCHANGED <<loop, log, acked, committed, next, held, tries, dead, dropped>>

\* The last attempt of a bounded loop.
ExhaustedLate(w) == loop # "ordered" /\ tries[w] > MaxRetries
Exhausted(w) == loop # "ordered" /\ tries[w] >= MaxRetries

\* The handler fails: the message is tried again ...
Fail(w) ==
    /\ pc[w] = "handle" /\ ~Exhausted(w)
    /\ MayTakeEffect(w)
    /\ tries' = [tries EXCEPT ![w] = IF loop = "ordered" THEN 0 ELSE tries[w] + 1]
    /\ UNCHANGED <<loop, log, acked, committed, next, pc, held, settled, dead, dropped>>

\* (The message is dropped without committing its offset.)
GiveUpUncommitted(w) ==
    /\ pc[w] = "handle" /\ Exhausted(w)
    /\ dropped' = dropped \cup {held[w]}
    /\ pc' = [pc EXCEPT ![w] = "fetch"]
    /\ UNCHANGED <<loop, log, acked, committed, next, held, tries, applied, settled, dead>>

\* ... or, after the last attempt, put into the dead letter queue (sendToDLQ);
\* without a queue, or if it cannot be reached, the message is dropped.
GiveUp(w) ==
    /\ pc[w] = "handle" /\ Exhausted(w)
    /\ \/ loop = "dlq" /\ dead' = dead \cup {held[w]} /\ UNCHANGED dropped
       \/ dropped' = dropped \cup {held[w]} /\ UNCHANGED dead
    /\ MayTakeEffect(w)
    /\ pc' = [pc EXCEPT ![w] = "commit"]
    /\ UNCHANGED <<loop, log, acked, committed, next, held, tries, settled>>

\* CommitMessages sets the offset of the group, wherever it stood; an error may
\* come after the offset was stored, and then the worker commits again.
Commit(w) ==
    /\ pc[w] = "commit"
    /\ committed' = held[w]
    /\ pc' = [pc EXCEPT ![w] = "fetch"]
    /\ UNCHANGED <<loop, log, acked, next, held, tries, fates>>

CommitUnanswered(w) ==
    /\ pc[w] = "commit" /\ committed # held[w]
    /\ committed' = held[w]
    /\ UNCHANGED <<loop, log, acked, next, pc, held, tries, fates>>

(* Failures. *)

\* Where a reader starts.
Position == committed + 1

\* The group is rebalanced: the reader goes back, the workers go on.
Rebalance ==
    /\ next # Position
    /\ next' = Position
    /\ UNCHANGED <<loop, log, acked, committed, pc, held, tries, fates>>

\* device-communication restarts.
Restart ==
    /\ \E w \in Workers : pc[w] # "fetch"
    /\ next' = Position
    /\ pc' = [w \in Workers |-> "fetch"]
    /\ held' = [w \in Workers |-> 0]
    /\ tries' = [w \in Workers |-> 0]
    /\ UNCHANGED <<loop, log, acked, committed, fates>>

Next == \/ \E e \in Events : Webhook(e)
        \/ \E w \in Workers : \/ Fetch(w) \/ Succeed(w) \/ Fail(w) \/ GiveUp(w)
                              \/ Commit(w) \/ CommitUnanswered(w)
        \/ Rebalance \/ Restart

Spec == Init /\ [][Next]_vars

\* A worker never stops, its handler returns (the HTTP client times out after five
\* seconds), and the broker answers a commit at last.
Fairness == \A w \in Workers : /\ WF_vars(Fetch(w))
                               /\ WF_vars(Succeed(w) \/ Fail(w) \/ GiveUp(w))
                               /\ WF_vars(Commit(w))

LiveSpec == Spec /\ Fairness

-----------------------------------------------------------------------------
TypeOK ==
    /\ loop \in Loops
    /\ log \in Seq(Events) /\ Len(log) <= MaxLog
    /\ acked \in SUBSET Events
    /\ committed \in 0 .. MaxLog
    /\ next \in 1 .. MaxLog + 1
    /\ pc \in [Workers -> {"fetch", "handle", "commit"}]
    /\ held \in [Workers -> 0 .. MaxLog]
    /\ tries \in [Workers -> 0 .. MaxRetries]
    /\ applied \in SUBSET Offsets /\ settled \in SUBSET Offsets
    /\ dead \in SUBSET Offsets /\ dropped \in SUBSET Offsets

\* Effects come in the order of the partition: a message has its effect only when
\* every message before it is finished, whatever was retried, rebalanced or
\* restarted in between.
InOrder == \A i \in applied : 1 .. i - 1 \subseteq Finished

\* No event that the bridge acknowledged is lost: its message is never dropped
\* (runOrderedKafkaConsumerWithRetry without a dead letter queue).
NothingDropped == dropped = {}

\* One worker implements the partition: messages are finished in order, and the
\* committed offset stands only on finished ones, whatever restarts and rebalances
\* fall between an effect, its retry and the commit (runOrderedKafkaConsumer,
\* runOrderedKafkaConsumerWithRetry).
Log == INSTANCE PartitionLog WITH finished <- Finished
LogSpec == Log!Spec

\* When restarts and rebalances end, each message is passed: by a bounded loop even
\* if business-api is never back, by the ordered loop if its handler can succeed.
Drains ==
    /\ <>[][~Restart /\ ~Rebalance]_vars
    /\ loop = "ordered" => \A w \in Workers : SF_vars(Succeed(w))
    => \A i \in Offsets : Len(log) >= i ~> committed >= i
=============================================================================
