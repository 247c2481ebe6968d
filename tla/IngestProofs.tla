----------------------------- MODULE IngestProofs -----------------------------
(***************************************************************************)
(* The proofs of IngestConsumer: with one worker, the consumer implements  *)
(* PartitionLog, and effects come in the order of the partition. With a    *)
(* second worker both are false (run ingest_order).                        *)
(*                                                                         *)
(* The invariant says where the worker stands: the message it holds is the *)
(* one at, or just after, the committed offset, and the reader is at this  *)
(* message or at the next.                                                 *)
(***************************************************************************)
EXTENDS IngestConsumer, TLAPS

\* A worker that is not fetching holds an offset of the log.
Holding == \A w \in Workers : pc[w] # "fetch" => held[w] \in 1 .. Len(log)

Standing(w) ==
    /\ 1 .. committed \subseteq Finished /\ committed <= Len(log)
    /\ pc[w] = "fetch" => next \in {committed, committed + 1}
    /\ pc[w] # "fetch" => /\ committed \in {held[w] - 1, held[w]}
                          /\ next \in {held[w], held[w] + 1}
    /\ pc[w] = "commit" => held[w] \in Finished

IInv(w) == Standing(w) /\ InOrder

-----------------------------------------------------------------------------
(* Type correctness, for any number of workers. *)

Typed == TypeOK /\ Holding

\* The initial states are well typed.
LEMMA TypeInit == Init => Typed
  <1>. SUFFICES ASSUME Init PROVE Typed
    OBVIOUS
  <1>1. log \in Seq(Events) /\ Len(log) = 0
    BY DEF Init
  <1>2. TypeOK
    BY <1>1, IngestAssumption DEF Init, TypeOK, IngestAssumption, Offsets
  <1>. QED BY <1>2 DEF Init, Typed, Holding

\* A message is appended to the log.
LEMMA TypeWebhook == ASSUME Typed, NEW e \in Events, Webhook(e) PROVE Typed'
  <1>1. /\ log' \in Seq(Events) /\ Len(log') = Len(log) + 1
    BY DEF Typed, TypeOK, Webhook
  <1>2. acked' \in SUBSET Events
    BY DEF Typed, TypeOK, Webhook
  <1>3. TypeOK'
    BY <1>1, <1>2, IngestAssumption DEF Typed, TypeOK, Webhook, fates, Offsets, IngestAssumption
  <1>4. Holding'
    BY <1>1 DEF Typed, TypeOK, Holding, Webhook
  <1>. QED BY <1>3, <1>4 DEF Typed

\* An attempt of worker w has at most the effect of the message it holds.
LEMMA EffectOfHeld ==
    ASSUME Typed, NEW w \in Workers, pc[w] = "handle", MayTakeEffect(w)
    PROVE  /\ held[w] \in Offsets
           /\ applied' \in {applied, applied \cup {held[w]}}
           /\ applied' \in SUBSET Offsets
  <1>1. held[w] \in Offsets
    BY IngestAssumption DEF Typed, TypeOK, Holding, Offsets, IngestAssumption
  <1>2. applied' \in {applied, applied \cup {held[w]}}
    BY DEF MayTakeEffect
  <1>. QED BY <1>1, <1>2 DEF Typed, TypeOK

\* The steps of a worker keep the types.
LEMMA TypeWorker ==
    ASSUME Typed, NEW w \in Workers,
           \/ Fetch(w) \/ Succeed(w) \/ Fail(w) \/ GiveUp(w) \/ Commit(w) \/ CommitUnanswered(w)
    PROVE  Typed'
  <1>. USE IngestAssumption DEF Typed, IngestAssumption
  <1>1. CASE Fetch(w)
    <2>1. next \in 1 .. Len(log) /\ Len(log) <= MaxLog /\ next \in 0 .. MaxLog
      BY <1>1 DEF Fetch, TypeOK
    <2>2. TypeOK'
      BY <1>1, <2>1 DEF Fetch, TypeOK, fates, Offsets
    <2>3. Holding'
      BY <1>1, <2>1 DEF Fetch, TypeOK, Holding
    <2>. QED BY <2>2, <2>3
  <1>2. CASE Succeed(w)
    <2>1. held[w] \in Offsets /\ applied' \in SUBSET Offsets
      BY <1>2, EffectOfHeld DEF Succeed
    <2>2. TypeOK'
      BY <1>2, <2>1 DEF Succeed, TypeOK
    <2>3. Holding'
      BY <1>2 DEF Succeed, TypeOK, Holding
    <2>. QED BY <2>2, <2>3
  <1>3. CASE Fail(w)
    <2>1. applied' \in SUBSET Offsets
      BY <1>3, EffectOfHeld DEF Fail
    <2>2. tries' \in [Workers -> 0 .. MaxRetries]
      BY <1>3 DEF Fail, Exhausted, TypeOK
    <2>3. TypeOK'
      BY <1>3, <2>1, <2>2 DEF Fail, TypeOK
    <2>4. Holding'
      BY <1>3 DEF Fail, TypeOK, Holding
    <2>. QED BY <2>3, <2>4
  <1>4. CASE GiveUp(w)
    <2>1. held[w] \in Offsets /\ applied' \in SUBSET Offsets
      BY <1>4, EffectOfHeld DEF GiveUp
    <2>2. TypeOK'
      BY <1>4, <2>1 DEF GiveUp, TypeOK
    <2>3. Holding'
      BY <1>4 DEF GiveUp, TypeOK, Holding
    <2>. QED BY <2>2, <2>3
  <1>5. CASE Commit(w) \/ CommitUnanswered(w)
    <2>1. committed' \in 0 .. MaxLog
      BY <1>5 DEF Commit, CommitUnanswered, TypeOK
    <2>2. TypeOK'
      BY <1>5, <2>1 DEF Commit, CommitUnanswered, TypeOK, fates, Offsets
    <2>3. Holding'
      BY <1>5 DEF Commit, CommitUnanswered, TypeOK, Holding
    <2>. QED BY <2>2, <2>3
  <1>. QED BY <1>1, <1>2, <1>3, <1>4, <1>5

\* A rebalance and a restart keep the types.
LEMMA TypeFailures == ASSUME Typed, Rebalance \/ Restart PROVE Typed'
  <1>. USE IngestAssumption DEF Typed, IngestAssumption
  <1>1. Position \in 1 .. MaxLog + 1
    BY DEF Position, TypeOK
  <1>2. CASE Rebalance
    BY <1>1, <1>2 DEF Rebalance, TypeOK, Holding, fates, Offsets
  <1>3. CASE Restart
    BY <1>1, <1>3 DEF Restart, TypeOK, Holding, fates, Offsets
  <1>. QED BY <1>2, <1>3

\* Every step keeps the types.
LEMMA TypeStep == Typed /\ [Next]_vars => Typed'
  <1>. SUFFICES ASSUME Typed, [Next]_vars PROVE Typed'
    OBVIOUS
  <1>1. CASE UNCHANGED vars
    BY <1>1 DEF vars, Typed, TypeOK, Holding, Offsets
  <1>. QED BY <1>1, TypeWebhook, TypeWorker, TypeFailures DEF Next

\* In every behaviour, with any number of workers, every variable keeps its type:
\* no message is tried more often than the loop allows.
THEOREM TypeCorrect == Spec => []TypeOK
  <1>1. Typed => TypeOK
    BY DEF Typed
  <1>. QED BY <1>1, TypeInit, TypeStep, PTL DEF Spec
-----------------------------------------------------------------------------
(* One worker. *)

\* The initial states satisfy the invariant.
LEMMA InvInit == ASSUME NEW w, Workers = {w} PROVE Init => IInv(w)
  BY DEF Init, IInv, Standing, InOrder, Finished

\* What an attempt does to what was finished and to what had an effect: it finishes
\* the message in hand, whose predecessors are finished, or it leaves that open.
LEMMA AttemptStep ==
    ASSUME NEW w, Workers = {w}, Typed, IInv(w), pc[w] = "handle", MayTakeEffect(w),
           pc' \in {pc, [pc EXCEPT ![w] = "commit"]}, UNCHANGED <<committed, next, held, log>>,
           \/ UNCHANGED <<settled, dead, dropped>> /\ UNCHANGED pc
           \/ Finished' = Finished \cup {held[w]} /\ pc'[w] = "commit"
    PROVE  IInv(w)'
  <1>1. /\ w \in Workers /\ held[w] \in 1 .. Len(log) /\ Len(log) \in Nat
        /\ committed \in Nat /\ next \in Nat
    BY DEF Typed, TypeOK, Holding
  <1>2. 1 .. held[w] - 1 \subseteq Finished
    BY <1>1 DEF IInv, Standing
  <1>3. Finished' \in {Finished, Finished \cup {held[w]}}
    BY DEF Finished
  <1>4. Standing(w)'
    BY <1>1, <1>3 DEF IInv, Standing, Typed, TypeOK
  <1>5. InOrder'
    <2>1. applied' \in {applied, applied \cup {held[w]}}
      BY DEF MayTakeEffect
    <2>. QED BY <1>2, <1>3, <2>1 DEF IInv, InOrder
  <1>. QED BY <1>4, <1>5 DEF IInv

\* Every step preserves where the worker stands, and the order.
LEMMA InvStep ==
    ASSUME NEW w, Workers = {w}, Typed, IInv(w), [Next]_vars
    PROVE  IInv(w)'
  <1>0. /\ w \in Workers /\ Len(log) \in Nat /\ committed \in Nat /\ next \in Nat
        /\ pc[w] \in {"fetch", "handle", "commit"} /\ held[w] \in Nat
        /\ pc[w] # "fetch" => held[w] \in 1 .. Len(log)
    BY DEF Typed, TypeOK, Holding
  <1>1. ASSUME NEW e \in Events, Webhook(e) PROVE IInv(w)'
    <2>1. Len(log') = Len(log) + 1
      BY <1>1 DEF Webhook, Typed, TypeOK
    <2>. QED BY <1>0, <1>1, <2>1
         DEF Webhook, fates, IInv, Standing, InOrder, Finished
  <1>2. CASE Fetch(w)
    BY <1>0, <1>2 DEF Fetch, fates, IInv, Standing, InOrder, Finished, Typed, TypeOK
  <1>3. CASE Succeed(w)
    BY <1>0, <1>3, AttemptStep DEF Succeed, Finished, Typed, TypeOK
  <1>4. CASE Fail(w)
    BY <1>0, <1>4, AttemptStep DEF Fail
  <1>5. CASE GiveUp(w)
    BY <1>0, <1>5, AttemptStep DEF GiveUp, Finished, Typed, TypeOK
  <1>6. CASE Commit(w)
    <2>1. 1 .. held[w] \subseteq Finished
      BY <1>0, <1>6 DEF Commit, IInv, Standing
    <2>. QED BY <1>0, <1>6, <2>1
         DEF Commit, fates, IInv, Standing, InOrder, Finished, Typed, TypeOK
  <1>7. CASE CommitUnanswered(w)
    <2>1. 1 .. held[w] \subseteq Finished
      BY <1>0, <1>7 DEF CommitUnanswered, IInv, Standing
    <2>. QED BY <1>0, <1>7, <2>1
         DEF CommitUnanswered, fates, IInv, Standing, InOrder, Finished
  <1>8. CASE Rebalance
    BY <1>0, <1>8 DEF Rebalance, Position, fates, IInv, Standing, InOrder, Finished
  <1>9. CASE Restart
    BY <1>0, <1>9 DEF Restart, Position, fates, IInv, Standing, InOrder, Finished
  <1>10. CASE UNCHANGED vars
    BY <1>10 DEF vars, IInv, Standing, InOrder, Finished
  <1>. QED BY <1>1, <1>2, <1>3, <1>4, <1>5, <1>6, <1>7, <1>8, <1>9, <1>10 DEF Next

\* With one worker, effects come in the order of the partition, through retries,
\* messages given up, rebalances, restarts and repeated commits.
THEOREM EffectsInOrder == ASSUME NEW w, Workers = {w} PROVE Spec => []InOrder
  <1>1. Init => Typed /\ IInv(w)
    BY TypeInit, InvInit
  <1>2. Typed /\ IInv(w) /\ [Next]_vars => (Typed /\ IInv(w))'
    BY TypeStep, InvStep
  <1>3. Typed /\ IInv(w) => InOrder
    BY DEF IInv
  <1>. QED BY <1>1, <1>2, <1>3, PTL DEF Spec

\* A step of the one worker is a step of the partition, or none.
LEMMA LogStep ==
    ASSUME NEW w, Workers = {w}, Typed, IInv(w), [Next]_vars
    PROVE  [Log!Next]_(Log!partition)
  <1>. USE DEF Log!partition
  <1>0. /\ w \in Workers /\ committed \in Nat
        /\ pc[w] # "fetch" => held[w] \in 1 .. Len(log) /\ 1 .. held[w] - 1 \subseteq Finished
        /\ pc[w] = "commit" => 1 .. held[w] \subseteq Finished
    BY DEF Typed, TypeOK, Holding, IInv, Standing
  <1>1. ASSUME NEW e \in Events, Webhook(e) PROVE Log!Next
    BY <1>1 DEF Webhook, fates, Finished, Log!Next, Log!Produce
  <1>2. CASE Succeed(w) \/ GiveUp(w)
    <2>1. Log!Finish(held[w])
      BY <1>0, <1>2 DEF Succeed, GiveUp, Finished, Log!Finish
    <2>. QED BY <1>0, <1>2, <2>1 DEF Succeed, GiveUp, Log!Next
  <1>3. CASE Commit(w) \/ CommitUnanswered(w)
    <2>1. Log!Commit(held[w])
      BY <1>0, <1>3 DEF Commit, CommitUnanswered, fates, Finished, Log!Commit
    <2>. QED BY <1>0, <1>3, <2>1 DEF Commit, CommitUnanswered, Log!Next
  <1>4. CASE Fetch(w) \/ Fail(w) \/ Rebalance \/ Restart
    BY <1>0, <1>4 DEF Fetch, Fail, Rebalance, Restart, fates, Finished
  <1>5. CASE UNCHANGED vars
    BY <1>5 DEF vars, Finished
  <1>. QED BY <1>1, <1>2, <1>3, <1>4, <1>5 DEF Next

\* With one worker, the consumer implements the partition: messages are finished in
\* order, and no message is behind the committed offset before it is finished.
THEOREM Implementation == ASSUME NEW w, Workers = {w} PROVE Spec => LogSpec
  <1>1. Init => Typed /\ IInv(w) /\ Log!Init
    BY TypeInit, InvInit DEF Init, Finished, Log!Init
  <1>2. Typed /\ IInv(w) /\ [Next]_vars => (Typed /\ IInv(w))' /\ [Log!Next]_(Log!partition)
    BY TypeStep, InvStep, LogStep
  <1>. QED BY <1>1, <1>2, PTL DEF Spec, LogSpec, Log!Spec
=============================================================================
