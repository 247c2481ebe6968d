--------------------------- MODULE HardwareProofs ---------------------------
(***************************************************************************)
(* Proofs about the records of hardware: that the audit tells how each     *)
(* record came to be what it is, with the administrators, the reports and  *)
(* the import of a file all writing; that a compatibility window never     *)
(* permits a firmware for a board it is not made for; and that a row of a  *)
(* file makes a record once at most.                                       *)
(*                                                                         *)
(* What a change does to one record is proved of its history alone, a      *)
(* sequence; the change of several records in one transaction, and from    *)
(* it every action that changes a record, follow.                          *)
(***************************************************************************)
EXTENDS MCHardware, FiniteSetTheorems, TLAPS

States == {"unverified", "verified", "conflict"}
RecordRows ==
    [state : States, revision : 0 .. MaxChanges, frozen : BOOLEAN, board : Boards \cup {"none"}]

\* Rows whose revision may be beyond the bound.
AnyRecordRows ==
    [state : States, revision : Nat, frozen : BOOLEAN, board : Boards \cup {"none"}]

Actions == {"verify", "correction", "service_change", "freeze", "import",
            "observation_conflict", "session_identity_conflict"}
AuditEntries == [action : Actions, seen : Nat, after : RecordRows]

\* The change from the row old to the row new is one that the action may make.
Lawful(old, new, action) ==
    (/\ old.state # "unverified"
     /\ (old.board # new.board \/ (old.state = "conflict" /\ new.state = "verified")))
    => \/ action = "correction"
       \/ (action = "service_change" /\ old.frozen)

\* The row before entry i of the history h.
Prior(h, i) == IF i = 1 THEN Fresh ELSE h[i - 1].after

\* The history h tells how its record came to be the row r.
Tells(h, r) ==
    /\ r = Prior(h, Len(h) + 1)
    /\ \A i \in DOMAIN h :
          /\ h[i].after.revision = i /\ h[i].seen = i - 1
          /\ Lawful(Prior(h, i), h[i].after, h[i].action)

\* The history h has verified the board b.
HasVerified(h, b) == \E i \in DOMAIN h : h[i].after.state = "verified" /\ h[i].after.board = b

-----------------------------------------------------------------------------
(* One record and its history.                                             *)

\* The invariant of the model is one of each history.
LEMMA AuditIsTold == RecordIsAudited <=> \A d \in Serials : Tells(history[d], registry[d])
  BY DEF RecordIsAudited, Tells, Before, Prior, Lawful

\* A record has as many revisions as its history has entries.
LEMMA RevisionIsLength ==
    ASSUME NEW h \in Seq(AuditEntries), NEW r \in RecordRows, Tells(h, r)
    PROVE  r.revision = Len(h)
<1>1. CASE Len(h) = 0
  BY <1>1 DEF Tells, Prior, Fresh
<1>2. CASE Len(h) # 0
  <2>1. Len(h) \in DOMAIN h /\ Len(h) + 1 # 1
    BY <1>2
  <2> QED
    BY <2>1 DEF Tells, Prior
<1> QED
  BY <1>1, <1>2

\* A change made to the revision of the record, to the next one, is told.
LEMMA AppendIsTold ==
    ASSUME NEW h \in Seq(AuditEntries), NEW r \in RecordRows, Tells(h, r),
           NEW e \in AuditEntries, e.seen = Len(h), e.after.revision = Len(h) + 1,
           Lawful(r, e.after, e.action)
    PROVE  Tells(Append(h, e), e.after)
<1> DEFINE g == Append(h, e)
<1>1. /\ g \in Seq(AuditEntries) /\ Len(g) = Len(h) + 1
      /\ g[Len(h) + 1] = e /\ DOMAIN g = 1 .. Len(h) + 1
  OBVIOUS
<1>2. \A i \in DOMAIN h : g[i] = h[i]
  OBVIOUS
<1>3. DOMAIN h = 1 .. Len(h) /\ Len(h) \in Nat
  OBVIOUS
<1> HIDE DEF g
<1>4. Prior(g, Len(g) + 1) = e.after
  BY <1>1, <1>3 DEF Prior
<1>5. ASSUME NEW i \in DOMAIN h
      PROVE  Prior(g, i) = Prior(h, i)
  BY <1>2, <1>3 DEF Prior
<1>6. Prior(g, Len(h) + 1) = r
  <2>1. r = Prior(h, Len(h) + 1)
    BY DEF Tells
  <2> QED
    BY <2>1, <1>2, <1>3 DEF Prior
<1>7. ASSUME NEW i \in DOMAIN g
      PROVE  /\ g[i].after.revision = i /\ g[i].seen = i - 1
             /\ Lawful(Prior(g, i), g[i].after, g[i].action)
  <2>1. CASE i \in DOMAIN h
    <3>1. g[i] = h[i] /\ Prior(g, i) = Prior(h, i)
      BY <2>1, <1>2, <1>5
    <3>2. /\ h[i].after.revision = i /\ h[i].seen = i - 1
          /\ Lawful(Prior(h, i), h[i].after, h[i].action)
      BY <2>1 DEF Tells
    <3> QED
      BY <3>1, <3>2
  <2>2. CASE i = Len(h) + 1
    <3>1. g[i] = e /\ Prior(g, i) = r
      BY <2>2, <1>1, <1>6
    <3> QED
      BY <3>1, <2>2, <1>3
  <2> QED
    BY <2>1, <2>2, <1>1, <1>3
<1> QED
  BY <1>4, <1>7 DEF Tells, g

-----------------------------------------------------------------------------
(* The bound of the changes.                                               *)

\* As many pairs of one device as it has entries.
LEMMA PairsAreCounted ==
    ASSUME NEW d, NEW n \in Nat
    PROVE  IsFiniteSet({d} \X (1 .. n)) /\ Cardinality({d} \X (1 .. n)) = n
<1> DEFINE Nth == [i \in 1 .. n |-> <<d, i>>]
<1>1. IsFiniteSet(1 .. n) /\ Cardinality(1 .. n) = n
  BY FS_Interval
<1>2. \A p \in {d} \X (1 .. n) : \E i \in 1 .. n : Nth[i] = p
  OBVIOUS
<1>3. Nth \in Bijection(1 .. n, {d} \X (1 .. n))
  <2>1. Nth \in [1 .. n -> {d} \X (1 .. n)]
    OBVIOUS
  <2>2. \A i, j \in 1 .. n : Nth[i] = Nth[j] => i = j
    OBVIOUS
  <2> HIDE DEF Nth
  <2> QED
    BY <1>2, <2>1, <2>2 DEF Bijection, Injection, Surjection, IsInjective
<1>4. ExistsBijection(1 .. n, {d} \X (1 .. n))
  BY <1>3 DEF ExistsBijection
<1> QED
  BY <1>1, <1>4, FS_Bijection

\* There are finitely many changes, and those of one device are some of them.
LEMMA ChangesAreCounted ==
    ASSUME history \in [Serials -> Seq(AuditEntries)]
    PROVE  /\ IsFiniteSet(Changes) /\ Cardinality(Changes) \in Nat
           /\ \A d \in Serials : Len(history[d]) <= Cardinality(Changes)
<1> DEFINE Of(d) == {d} \X DOMAIN history[d]
           Per == [d \in Serials |-> Of(d)]
<1>1. ASSUME NEW d \in Serials
      PROVE  IsFiniteSet(Of(d)) /\ Cardinality(Of(d)) = Len(history[d])
  <2>1. PICK n \in Nat : n = Len(history[d]) /\ DOMAIN history[d] = 1 .. n
    OBVIOUS
  <2> QED
    BY <2>1, PairsAreCounted
<1>2. Per \in Surjection(Serials, {Of(d) : d \in Serials})
  BY DEF Surjection
<1>3. IsFiniteSet({Of(d) : d \in Serials})
  <2>1. IsFiniteSet(Serials)
    BY HardwareAssumption
  <2> HIDE DEF Per, Of
  <2> QED
    BY <2>1, <1>2, FS_Surjection
<1>4. IsFiniteSet(UNION {Of(d) : d \in Serials})
  <2> HIDE DEF Of
  <2>1. \A s \in {Of(d) : d \in Serials} : IsFiniteSet(s)
    BY <1>1
  <2> QED
    BY <2>1, <1>3, FS_UNION
<1>5. IsFiniteSet(Changes)
  BY <1>4 DEF Changes
<1>6. ASSUME NEW d \in Serials
      PROVE  Len(history[d]) <= Cardinality(Changes)
  <2>1. Of(d) \subseteq Changes
    BY DEF Changes
  <2>2. PICK C, O : C = Changes /\ O = Of(d)
    OBVIOUS
  <2> HIDE DEF Of
  <2>3. Cardinality(O) <= Cardinality(C)
    BY <2>1, <2>2, <1>5, FS_Subset
  <2> QED
    BY <2>2, <2>3, <1>1
<1> QED
  BY <1>5, <1>6, FS_CardinalityType

-----------------------------------------------------------------------------
(* Changes of records, as all actions make them.                           *)

\* The history h tells how its record came to be the row r, and has verified its board.
Vouches(h, r) == Tells(h, r) /\ (r.board # "none" => HasVerified(h, r.board))

RecordInv ==
    /\ registry \in [Serials -> RecordRows]
    /\ history \in [Serials -> Seq(AuditEntries)]
    /\ \A d \in Serials : Vouches(history[d], registry[d])

\* The action may make the row n of the row r: one revision further, with a board that
\* it verifies or keeps, and lawfully.
MayBecome(r, n, action) ==
    /\ n \in AnyRecordRows /\ n.revision = r.revision + 1
    /\ n.state = "verified" \/ n.board = r.board
    /\ Lawful(r, n, action)

\* The history h with the entry of the change to n.
Extended(h, action, seen, n) ==
    Append(h, [action |-> action, seen |-> seen, after |-> n])

\* An entry more says nothing else of the boards that were verified.
LEMMA StillVerified ==
    ASSUME NEW h \in Seq(AuditEntries), NEW e \in AuditEntries, NEW b, HasVerified(h, b)
    PROVE  HasVerified(Append(h, e), b)
<1>1. PICK i \in DOMAIN h : h[i].after.state = "verified" /\ h[i].after.board = b
  BY DEF HasVerified
<1>2. i \in DOMAIN Append(h, e) /\ Append(h, e)[i] = h[i]
  OBVIOUS
<1> QED
  BY <1>1, <1>2 DEF HasVerified

\* The change of one record keeps what its history tells, and counts it up.
LEMMA ChangeIsTold ==
    ASSUME NEW h \in Seq(AuditEntries), NEW r \in RecordRows, Vouches(h, r),
           NEW action \in Actions, NEW n, MayBecome(r, n, action), n.revision <= MaxChanges
    PROVE  /\ n \in RecordRows /\ n.revision > r.revision
           /\ Extended(h, action, r.revision, n) \in Seq(AuditEntries)
           /\ Vouches(Extended(h, action, r.revision, n), n)
<1> PICK seen : seen = r.revision
  OBVIOUS
<1> DEFINE g == Extended(h, action, seen, n)
<1>0. n \in AnyRecordRows /\ n.revision = r.revision + 1 /\ Lawful(r, n, action) /\ Tells(h, r)
  BY DEF MayBecome, Vouches
<1> PICK e : e = [action |-> action, seen |-> seen, after |-> n]
  OBVIOUS
<1>1. r.revision = Len(h) /\ Len(h) \in Nat
  BY <1>0, RevisionIsLength
<1>2. n \in RecordRows
  BY <1>0, HardwareAssumption DEF RecordRows, AnyRecordRows
<1>3. e \in AuditEntries /\ e.seen = Len(h) /\ e.after = n /\ e.action = action
  BY <1>1, <1>2 DEF AuditEntries
<1>4. g = Append(h, e) /\ g \in Seq(AuditEntries)
  BY <1>3 DEF Extended
<1> HIDE DEF g
<1>5. Tells(g, n)
  <2>1. e.after.revision = Len(h) + 1 /\ Lawful(r, e.after, e.action)
    BY <1>0, <1>1, <1>3
  <2>2. Tells(Append(h, e), e.after)
    BY <1>0, <1>3, <2>1, AppendIsTold
  <2> QED
    BY <2>2, <1>3, <1>4
<1>6. ASSUME n.board # "none"
      PROVE  HasVerified(g, n.board)
  <2>1. CASE n.state = "verified"
    <3>1. Len(h) + 1 \in DOMAIN g /\ g[Len(h) + 1] = e
      BY <1>3, <1>4
    <3> QED
      BY <3>1, <2>1, <1>3 DEF HasVerified
  <2>2. CASE n.board = r.board
    <3>1. HasVerified(h, n.board)
      BY <2>2, <1>6 DEF Vouches
    <3> QED
      BY <3>1, <1>3, <1>4, StillVerified
  <2> QED
    BY <2>1, <2>2 DEF MayBecome
<1>7. n.revision > r.revision
  BY <1>0, <1>1
<1> QED
  BY <1>2, <1>4, <1>5, <1>6, <1>7 DEF Vouches, g

\* What a transaction may ask: new rows for some devices, each one revision further and
\* a lawful change.
MayWrite(action, seen, new) ==
    \A d \in DOMAIN new :
        /\ d \in Serials
        /\ seen[d] = registry[d].revision
        /\ MayBecome(registry[d], new[d], action)

\* Records that change, change to a later revision.
RecordsAdvance ==
    \A d \in Serials :
        registry'[d] = registry[d] \/ registry'[d].revision > registry[d].revision

\* A transaction that may write keeps every record told, however many it changes.
LEMMA AuditedIsTold ==
    ASSUME RecordInv, NEW action \in Actions, NEW seen, NEW new,
           MayWrite(action, seen, new), Audited(action, seen, new)
    PROVE  RecordInv' /\ RecordsAdvance
<1> DEFINE D == DOMAIN new
<1>1. D \subseteq Serials /\ IsFiniteSet(D) /\ Cardinality(D) \in Nat
  <2>1. D \subseteq Serials
    BY DEF MayWrite
  <2> QED
    BY <2>1, HardwareAssumption, FS_Subset, FS_CardinalityType
<1>2. Cardinality(Changes) + Cardinality(D) <= MaxChanges
  BY DEF Audited
<1>3. ASSUME NEW d \in D
      PROVE  registry[d].revision + 1 <= MaxChanges
  <2>1. d \in Serials /\ history[d] \in Seq(AuditEntries) /\ registry[d] \in RecordRows
        /\ Tells(history[d], registry[d])
    BY <1>1 DEF RecordInv, Vouches
  <2>2. registry[d].revision = Len(history[d]) /\ Len(history[d]) \in Nat
    BY <2>1, RevisionIsLength
  <2>3. Cardinality(Changes) \in Nat /\ Len(history[d]) <= Cardinality(Changes)
    BY <2>1, ChangesAreCounted DEF RecordInv
  <2>4. Cardinality(D) >= 1
    <3>1. Cardinality({d}) <= Cardinality(D) /\ Cardinality({d}) = 1
      BY <1>1, FS_Subset, FS_Singleton
    <3> QED
      BY <3>1
  <2> QED
    BY <2>2, <2>3, <2>4, <1>1, <1>2, HardwareAssumption
<1>4. /\ registry' = [d \in Serials |-> IF d \in D THEN new[d] ELSE registry[d]]
      /\ history' = [d \in Serials |->
                        IF d \in D
                        THEN Extended(history[d], action, seen[d], new[d])
                        ELSE history[d]]
  BY DEF Audited, Extended
<1> HIDE DEF D
<1>5. ASSUME NEW d \in Serials
      PROVE  /\ registry'[d] \in RecordRows /\ history'[d] \in Seq(AuditEntries)
             /\ Vouches(history'[d], registry'[d])
             /\ registry'[d] = registry[d] \/ registry'[d].revision > registry[d].revision
  <2>1. /\ history[d] \in Seq(AuditEntries) /\ registry[d] \in RecordRows
        /\ Vouches(history[d], registry[d])
    BY DEF RecordInv
  <2>2. CASE d \notin D
    <3>1. registry'[d] = registry[d] /\ history'[d] = history[d]
      BY <2>2, <1>4
    <3> QED
      BY <3>1, <2>1
  <2>3. CASE d \in D
    <3>1. PICK h, r, n : h = history[d] /\ r = registry[d] /\ n = new[d]
      OBVIOUS
    <3>2. registry'[d] = n /\ history'[d] = Extended(h, action, r.revision, n)
      BY <3>1, <2>3, <1>4 DEF MayWrite, D
    <3>3. MayBecome(r, n, action) /\ n.revision = r.revision + 1
      BY <3>1, <2>3 DEF MayWrite, MayBecome, D
    <3>4. n.revision <= MaxChanges
      BY <3>1, <3>3, <2>3, <1>3
    <3>5. /\ n \in RecordRows /\ n.revision > r.revision
          /\ Extended(h, action, r.revision, n) \in Seq(AuditEntries)
          /\ Vouches(Extended(h, action, r.revision, n), n)
      BY <2>1, <3>1, <3>3, <3>4, ChangeIsTold
    <3> QED
      BY <3>1, <3>2, <3>5
  <2> QED
    BY <2>2, <2>3
<1>6. registry' \in [Serials -> RecordRows]
  <2>1. registry' = [d \in Serials |-> registry'[d]]
    BY <1>4
  <2> QED
    BY <2>1, <1>5
<1>7. history' \in [Serials -> Seq(AuditEntries)]
  <2>1. history' = [d \in Serials |-> history'[d]]
    BY <1>4
  <2> QED
    BY <2>1, <1>5
<1> QED
  BY <1>5, <1>6, <1>7 DEF RecordInv, RecordsAdvance

\* What verifying, freezing and disputing make of a row.
LEMMA RowsOfChanges ==
    ASSUME NEW d \in Serials, registry[d] \in RecordRows
    PROVE  /\ \A b \in Boards : /\ Verified(d, b) \in AnyRecordRows
                                /\ Verified(d, b).state = "verified" /\ Verified(d, b).board = b
                                /\ Verified(d, b).revision = registry[d].revision + 1
           /\ /\ Conflicted(d) \in AnyRecordRows
              /\ Conflicted(d).state = "conflict" /\ Conflicted(d).board = registry[d].board
              /\ Conflicted(d).revision = registry[d].revision + 1
<1>1. registry[d].revision \in Nat /\ registry[d].revision + 1 \in Nat
  BY HardwareAssumption DEF RecordRows
<1>2. ASSUME NEW b \in Boards
      PROVE  Verified(d, b) \in AnyRecordRows
  BY <1>1 DEF Verified, AnyRecordRows, RecordRows, States
<1>3. Conflicted(d) \in AnyRecordRows
  BY <1>1 DEF Conflicted, AnyRecordRows, RecordRows, States
<1>4. ASSUME NEW b \in Boards
      PROVE  /\ Verified(d, b).state = "verified" /\ Verified(d, b).board = b
             /\ Verified(d, b).revision = registry[d].revision + 1
  BY DEF Verified, RecordRows
<1>5. /\ Conflicted(d).state = "conflict" /\ Conflicted(d).board = registry[d].board
      /\ Conflicted(d).revision = registry[d].revision + 1
  BY DEF Conflicted, RecordRows
<1> QED
  BY <1>2, <1>3, <1>4, <1>5

-----------------------------------------------------------------------------
(* The changes of one record.                                              *)

\* A transaction of one device writes what it may.
LEMMA OneIsTold ==
    ASSUME RecordInv, NEW d \in Serials, NEW action \in Actions, NEW seen, NEW new,
           seen[d] = registry[d].revision, DOMAIN new = {d},
           MayBecome(registry[d], new[d], action), Audited(action, seen, new)
    PROVE  RecordInv' /\ RecordsAdvance
<1>1. MayWrite(action, seen, new)
  BY DEF MayWrite
<1> QED
  BY <1>1, AuditedIsTold

\* Verifying, correcting and servicing.
LEMMA IdentityIsTold ==
    ASSUME RecordInv, NEW d \in Serials, NEW b \in Boards, NEW seen,
           NEW action \in {"verify", "correction", "service_change"},
           SetIdentity(d, action, seen, b)
    PROVE  RecordInv' /\ RecordsAdvance
<1>1. PICK s, n : s = [x \in {d} |-> seen] /\ n = [x \in {d} |-> Verified(x, b)]
  OBVIOUS
<1>2. Audited(action, s, n)
  BY <1>1 DEF SetIdentity
<1>3. s[d] = registry[d].revision /\ DOMAIN n = {d} /\ n[d] = Verified(d, b)
  BY <1>1 DEF SetIdentity, Expected
<1>4. registry[d] \in RecordRows
  BY DEF RecordInv
<1>5. /\ Verified(d, b) \in AnyRecordRows /\ Verified(d, b).state = "verified"
      /\ Verified(d, b).revision = registry[d].revision + 1
  BY <1>4, RowsOfChanges
<1>6. Lawful(registry[d], Verified(d, b), action)
  <2>1. Eligible(action, d)
    BY DEF SetIdentity
  <2>2. CASE action = "verify"
    BY <2>1, <2>2 DEF Eligible, Lawful
  <2>3. CASE action = "correction"
    BY <2>3 DEF Lawful
  <2>4. CASE action = "service_change"
    <3>1. registry[d].frozen
      BY <2>1, <2>4 DEF Eligible
    <3> QED
      BY <3>1, <2>4 DEF Lawful
  <2> QED
    BY <2>2, <2>3, <2>4
<1>7. MayBecome(registry[d], n[d], action)
  BY <1>3, <1>5, <1>6 DEF MayBecome
<1>8. action \in Actions
  BY DEF Actions
<1> QED
  BY <1>2, <1>3, <1>7, <1>8, OneIsTold

\* Freezing a record and taking it back.
LEMMA FreezeIsTold ==
    ASSUME RecordInv, NEW d \in Serials, NEW seen, NEW frozen \in BOOLEAN,
           Freeze(d, seen, frozen)
    PROVE  RecordInv' /\ RecordsAdvance
<1>1. PICK r : r = [registry[d] EXCEPT !.frozen = frozen, !.revision = @ + 1]
  OBVIOUS
<1>2. PICK s, n :
         /\ s = [x \in {d} |-> seen]
         /\ n = [x \in {d} |-> [registry[x] EXCEPT !.frozen = frozen, !.revision = @ + 1]]
  OBVIOUS
<1>3. Audited("freeze", s, n)
  BY <1>2 DEF Freeze
<1>4. s[d] = registry[d].revision /\ DOMAIN n = {d} /\ n[d] = r
  BY <1>1, <1>2 DEF Freeze, Expected
<1>5. registry[d] \in RecordRows
  BY DEF RecordInv
<1>6. r \in AnyRecordRows
  <2>1. registry[d].revision + 1 \in Nat
    BY <1>5, HardwareAssumption DEF RecordRows
  <2> QED
    BY <2>1, <1>1, <1>5 DEF RecordRows, AnyRecordRows
<1>7. /\ r.state = registry[d].state /\ r.board = registry[d].board
      /\ r.revision = registry[d].revision + 1
  BY <1>1, <1>5 DEF RecordRows
<1>8. MayBecome(registry[d], n[d], "freeze")
  <2>1. Lawful(registry[d], r, "freeze")
    BY <1>7 DEF Lawful
  <2> QED
    BY <2>1, <1>4, <1>6, <1>7 DEF MayBecome
<1>9. "freeze" \in Actions
  BY DEF Actions
<1> QED
  BY <1>3, <1>4, <1>8, <1>9, OneIsTold

\* A conflict that a report or a session makes.
LEMMA ConflictIsTold ==
    ASSUME RecordInv, NEW d \in Serials, NEW action \in Actions,
           Audited(action, Revisions, [x \in {d} |-> Conflicted(x)])
    PROVE  RecordInv' /\ RecordsAdvance
<1>1. PICK s, n : s = Revisions /\ n = [x \in {d} |-> Conflicted(x)]
  OBVIOUS
<1>2. Audited(action, s, n)
  BY <1>1
<1>3. s[d] = registry[d].revision /\ DOMAIN n = {d} /\ n[d] = Conflicted(d)
  BY <1>1 DEF Revisions
<1>4. registry[d] \in RecordRows
  BY DEF RecordInv
<1>5. /\ Conflicted(d) \in AnyRecordRows /\ Conflicted(d).state = "conflict"
      /\ Conflicted(d).board = registry[d].board
      /\ Conflicted(d).revision = registry[d].revision + 1
  BY <1>4, RowsOfChanges
<1>6. MayBecome(registry[d], n[d], action)
  <2>1. Lawful(registry[d], Conflicted(d), action)
    BY <1>5 DEF Lawful
  <2> QED
    BY <2>1, <1>3, <1>5 DEF MayBecome
<1> QED
  BY <1>2, <1>3, <1>6, OneIsTold

\* Records that do not change stay told.
LEMMA SameIsTold ==
    ASSUME RecordInv, UNCHANGED <<registry, history>>
    PROVE  RecordInv' /\ RecordsAdvance
BY DEF RecordInv, RecordsAdvance

\* What administrators and sessions do to records.
LEMMA RecordNextIsTold ==
    ASSUME RecordInv, boardTypes \subseteq Boards, RecordNext
    PROVE  /\ RecordInv' /\ RecordsAdvance
           /\ boardTypes' \subseteq Boards /\ UNCHANGED <<latest, firmware, windows>>
<1>1. CASE \E b \in Boards : CreateBoardType(b)
  BY <1>1, SameIsTold DEF CreateBoardType
<1>2. ASSUME NEW d \in Serials, NEW seen, NEW b \in Boards,
             NEW action \in {"verify", "correction", "service_change"},
             SetIdentity(d, action, seen, b)
      PROVE  /\ RecordInv' /\ RecordsAdvance
             /\ boardTypes' \subseteq Boards /\ UNCHANGED <<latest, firmware, windows>>
  BY <1>2, IdentityIsTold DEF SetIdentity
<1>3. ASSUME NEW d \in Serials, NEW seen, NEW frozen \in BOOLEAN, Freeze(d, seen, frozen)
      PROVE  /\ RecordInv' /\ RecordsAdvance
             /\ boardTypes' \subseteq Boards /\ UNCHANGED <<latest, firmware, windows>>
  BY <1>3, FreezeIsTold DEF Freeze
<1>4. ASSUME NEW d \in Serials, SessionConflict(d)
      PROVE  /\ RecordInv' /\ RecordsAdvance
             /\ boardTypes' \subseteq Boards /\ UNCHANGED <<latest, firmware, windows>>
  <2>1. "session_identity_conflict" \in Actions
    BY DEF Actions
  <2>2. Audited("session_identity_conflict", Revisions, [x \in {d} |-> Conflicted(x)])
    BY <1>4 DEF SessionConflict
  <2>3. RecordInv' /\ RecordsAdvance
    BY <2>1, <2>2, ConflictIsTold
  <2> QED
    BY <2>3, <1>4 DEF SessionConflict
<1> QED
  BY <1>1, <1>2, <1>3, <1>4 DEF RecordNext

-----------------------------------------------------------------------------
(* Windows.                                                                *)

\* The boards, the reports, the firmware and the windows have the values they can take.
OthersOK ==
    /\ boardTypes \subseteq Boards
    /\ latest \in [Serials -> 0 .. MaxReport]
    /\ firmware \in [status : {"draft", "published", "disabled"}, scope : SUBSET Boards]
    /\ windows \subseteq [sn : Serials, revision : 0 .. MaxChanges]

\* No window is made for a revision to come, and none before the boards of the firmware
\* are settled.
WindowsAreSettled ==
    /\ \A w \in windows : w.revision <= registry[w.sn].revision
    /\ windows # {} => firmware.status # "draft" /\ firmware.scope # {}

HardwareInv == RecordInv /\ OthersOK /\ WindowsAreSettled /\ WindowIsLawful

\* The invariant says what the runs check.
LEMMA HardwareInvSuffices ==
    ASSUME RecordInv, OthersOK
    PROVE  HardwareTypeOK /\ RecordIsAudited
<1>1. RecordIsAudited
  BY AuditIsTold DEF RecordInv, Vouches
<1>2. \A d \in Serials : \A i \in DOMAIN history[d] : history[d][i].after \in RecordRows
  <2>1. \A d \in Serials : history[d] \in Seq(AuditEntries)
    BY DEF RecordInv
  <2>2. \A d \in Serials : \A i \in DOMAIN history[d] : history[d][i] \in AuditEntries
    BY <2>1
  <2> QED
    BY <2>2 DEF AuditEntries
<1> QED
  BY <1>1, <1>2 DEF HardwareTypeOK, RecordInv, OthersOK, RecordRows, States

\* All records begin without a history.
LEMMA HardwareBegins == HardwareInit => HardwareInv
<1> SUFFICES ASSUME HardwareInit
             PROVE  HardwareInv
  OBVIOUS
<1>1. RecordInv
  <2>1. Fresh \in RecordRows
    BY HardwareAssumption DEF Fresh, RecordRows, States
  <2>2. registry \in [Serials -> RecordRows]
    BY <2>1 DEF HardwareInit
  <2>3. history \in [Serials -> Seq(AuditEntries)]
    BY DEF HardwareInit
  <2>4. ASSUME NEW d \in Serials
        PROVE  Vouches(history[d], registry[d])
    <3>1. history[d] = <<>> /\ registry[d] = Fresh
      BY DEF HardwareInit
    <3>2. Tells(<<>>, Fresh)
      BY DEF Tells, Prior
    <3> QED
      BY <3>1, <3>2 DEF Vouches, Fresh
  <2> QED
    BY <2>2, <2>3, <2>4 DEF RecordInv
<1>2. OthersOK
  BY HardwareAssumption DEF HardwareInit, OthersOK
<1>3. WindowsAreSettled /\ WindowIsLawful
  BY DEF HardwareInit, WindowsAreSettled, WindowIsLawful
<1> QED
  BY <1>1, <1>2, <1>3 DEF HardwareInv

\* Windows stay right as records advance: a record at another revision is no concern of
\* a window, and the others are what they were.
LEMMA WindowsStayLawful ==
    ASSUME RecordInv, OthersOK, WindowsAreSettled, WindowIsLawful,
           RecordInv', RecordsAdvance, UNCHANGED <<firmware, windows>>
    PROVE  WindowsAreSettled' /\ WindowIsLawful'
<1>1. ASSUME NEW w \in windows
      PROVE  /\ w.revision <= registry'[w.sn].revision
             /\ registry'[w.sn].revision = w.revision => registry'[w.sn] = registry[w.sn]
  <2>1. w.sn \in Serials /\ w.revision \in Nat
    BY HardwareAssumption DEF OthersOK
  <2>2. registry[w.sn].revision \in Nat /\ registry'[w.sn].revision \in Nat
    <3>1. registry[w.sn] \in RecordRows /\ registry'[w.sn] \in RecordRows
      BY <2>1 DEF RecordInv
    <3>2. \A r \in RecordRows : r.revision \in Nat
      BY HardwareAssumption DEF RecordRows
    <3> QED
      BY <3>1, <3>2
  <2>3. w.revision <= registry[w.sn].revision
    BY DEF WindowsAreSettled
  <2> QED
    BY <2>1, <2>2, <2>3 DEF RecordsAdvance
<1>2. WindowsAreSettled'
  BY <1>1 DEF WindowsAreSettled
<1>3. WindowIsLawful'
  BY <1>1 DEF WindowIsLawful
<1> QED
  BY <1>2, <1>3

\* A report, with or without a conflict.
LEMMA ReportIsTold ==
    ASSUME RecordInv, NEW d \in Serials, NEW b, NEW time \in 1 .. MaxReport, Observe(d, b, time)
    PROVE  RecordInv' /\ RecordsAdvance
<1>1. CASE Audited("observation_conflict", Revisions, [x \in {d} |-> Conflicted(x)])
  <2>1. "observation_conflict" \in Actions
    BY DEF Actions
  <2> QED
    BY <2>1, <1>1, ConflictIsTold
<1>2. CASE UNCHANGED <<registry, history>>
  BY <1>2, SameIsTold
<1> QED
  BY <1>1, <1>2 DEF Observe

\* Every step keeps the invariant.
LEMMA HardwareSteps == HardwareInv /\ [HardwareNext]_hardwareVars => HardwareInv'
<1> SUFFICES ASSUME HardwareInv, [HardwareNext]_hardwareVars
             PROVE  HardwareInv'
  OBVIOUS
<1> USE DEF HardwareInv
<1>1. CASE RecordNext
  <2>1. /\ RecordInv' /\ RecordsAdvance
        /\ boardTypes' \subseteq Boards /\ UNCHANGED <<latest, firmware, windows>>
    BY <1>1, RecordNextIsTold DEF OthersOK
  <2>2. OthersOK'
    BY <2>1 DEF OthersOK
  <2> QED
    BY <2>1, <2>2, WindowsStayLawful
<1>2. ASSUME NEW d \in Serials, NEW b \in Boards \cup {"none"}, NEW time \in 1 .. MaxReport,
             Observe(d, b, time)
      PROVE  HardwareInv'
  <2>1. RecordInv' /\ RecordsAdvance
    BY <1>2, ReportIsTold
  <2>2. UNCHANGED <<boardTypes, firmware, windows>>
    BY <1>2 DEF Observe
  <2>3. latest' \in [Serials -> 0 .. MaxReport]
    <3>1. latest \in [Serials -> 0 .. MaxReport] /\ time \in 0 .. MaxReport
      BY HardwareAssumption DEF OthersOK
    <3>2. latest' = [latest EXCEPT ![d] = IF time > @ THEN time ELSE @]
      BY <1>2 DEF Observe
    <3> QED
      BY <3>1, <3>2
  <2>4. OthersOK'
    BY <2>2, <2>3 DEF OthersOK
  <2> QED
    BY <2>1, <2>2, <2>4, WindowsStayLawful
<1>3. ASSUME NEW codes \in SUBSET Boards, SetFirmwareBoards(codes)
      PROVE  HardwareInv'
  <2>1. windows = {} /\ windows' = {}
    <3>1. windows = {} \/ (firmware.status # "draft" /\ firmware.scope # {})
      BY DEF WindowsAreSettled
    <3>2. firmware.status = "draft" \/ firmware.scope = {}
      BY <1>3 DEF SetFirmwareBoards
    <3>3. windows' = windows
      BY <1>3 DEF SetFirmwareBoards
    <3> QED
      BY <3>1, <3>2, <3>3
  <2>2. UNCHANGED <<registry, history, boardTypes, latest>>
    BY <1>3 DEF SetFirmwareBoards, registryVars
  <2>3. firmware' \in [status : {"draft", "published", "disabled"}, scope : SUBSET Boards]
    BY <1>3 DEF SetFirmwareBoards, OthersOK
  <2>4. RecordInv'
    BY <2>2, SameIsTold
  <2>5. OthersOK'
    BY <2>1, <2>2, <2>3 DEF OthersOK
  <2> QED
    BY <2>1, <2>4, <2>5 DEF WindowsAreSettled, WindowIsLawful
<1>4. ASSUME NEW status \in {"published", "disabled"}, Release(status)
      PROVE  HardwareInv'
  <2>1. UNCHANGED <<registry, history, boardTypes, latest, windows>>
    BY <1>4 DEF Release, registryVars
  <2>2. firmware' \in [status : {"draft", "published", "disabled"}, scope : SUBSET Boards]
        /\ firmware'.status # "draft" /\ firmware'.scope = firmware.scope
    BY <1>4 DEF Release, OthersOK
  <2>3. RecordInv'
    BY <2>1, SameIsTold
  <2>4. OthersOK'
    BY <2>1, <2>2 DEF OthersOK
  <2> QED
    BY <2>1, <2>2, <2>3, <2>4 DEF WindowsAreSettled, WindowIsLawful
<1>5. ASSUME NEW d \in Serials, NEW seen \in 0 .. registry[d].revision, CreateWindow(d, seen)
      PROVE  HardwareInv'
  <2>1. UNCHANGED <<registry, history, boardTypes, latest, firmware>>
    BY <1>5 DEF CreateWindow, registryVars
  <2>2. /\ registry[d] \in RecordRows /\ seen = registry[d].revision
        /\ registry[d].state = "verified" /\ ~registry[d].frozen
        /\ firmware.status = "published" /\ registry[d].board \in firmware.scope
        /\ windows' = windows \cup {[sn |-> d, revision |-> seen]}
    BY <1>5 DEF CreateWindow, Expected, RecordInv
  <2>3. RecordInv'
    BY <2>1, SameIsTold
  <2>4. OthersOK'
    <3>1. [sn |-> d, revision |-> seen] \in [sn : Serials, revision : 0 .. MaxChanges]
      BY <2>2 DEF RecordRows
    <3> QED
      BY <3>1, <2>1, <2>2 DEF OthersOK
  <2>5. seen \in Nat
    BY <2>2, HardwareAssumption DEF RecordRows
  <2>6. WindowsAreSettled'
    BY <2>1, <2>2, <2>5 DEF WindowsAreSettled
  <2>7. WindowIsLawful'
    BY <2>1, <2>2 DEF WindowIsLawful
  <2> QED
    BY <2>3, <2>4, <2>6, <2>7
<1>6. CASE UNCHANGED hardwareVars
  <2>1. UNCHANGED <<registry, history, boardTypes, latest, firmware, windows>>
    BY <1>6 DEF hardwareVars, registryVars
  <2> QED
    BY <2>1, SameIsTold DEF OthersOK, WindowsAreSettled, WindowIsLawful
<1> QED
  BY <1>1, <1>2, <1>3, <1>4, <1>5, <1>6 DEF HardwareNext

\* While administrators, reports and sessions write, the state has the values it can
\* take, and the audit tells how each record came to be what it is.
THEOREM RecordsAreAudited == HardwareSpec => [](HardwareTypeOK /\ RecordIsAudited)
<1>1. HardwareInv => HardwareTypeOK /\ RecordIsAudited
  BY HardwareInvSuffices DEF HardwareInv
<1> QED
  BY <1>1, HardwareBegins, HardwareSteps, PTL DEF HardwareSpec

\* While the record of a device has the revision its compatibility window was made for,
\* the window permits a firmware for the verified board of that record, and only if it
\* is made for that board.
THEOREM WindowsAreLawful == HardwareSpec => []WindowIsLawful
<1>1. HardwareInv => WindowIsLawful
  BY DEF HardwareInv
<1> QED
  BY <1>1, HardwareBegins, HardwareSteps, PTL DEF HardwareSpec

-----------------------------------------------------------------------------
(* The import of a file.                                                   *)

\* Histories are only added to.
HistoriesGrow ==
    \A d \in Serials : \A i \in DOMAIN history[d] :
        i \in DOMAIN history'[d] /\ history'[d][i] = history[d][i]

\* The entries of imports were there before.
NoneImported ==
    \A d \in Serials : \A i \in DOMAIN history'[d] :
        history'[d][i].action = "import" =>
            i \in DOMAIN history[d] /\ history'[d][i] = history[d][i]

\* An entry more is the last one and leaves the others.
LEMMA AppendGrows ==
    ASSUME NEW S, NEW h \in Seq(S), NEW e
    PROVE  /\ DOMAIN Append(h, e) = DOMAIN h \cup {Len(h) + 1}
           /\ Append(h, e)[Len(h) + 1] = e /\ Len(h) + 1 \notin DOMAIN h
           /\ \A i \in DOMAIN h : Append(h, e)[i] = h[i]
<1>1. h \in Seq(S \cup {e})
  OBVIOUS
<1>2. /\ Len(Append(h, e)) = Len(h) + 1 /\ Append(h, e) \in Seq(S \cup {e})
      /\ Append(h, e)[Len(h) + 1] = e
      /\ \A i \in 1 .. Len(h) : Append(h, e)[i] = h[i]
  BY <1>1
<1>3. DOMAIN h = 1 .. Len(h) /\ DOMAIN Append(h, e) = 1 .. Len(h) + 1 /\ Len(h) \in Nat
  BY <1>2
<1> QED
  BY <1>2, <1>3

\* A transaction adds to the histories of the devices it is about.
LEMMA AuditedGrows ==
    ASSUME history \in [Serials -> Seq(AuditEntries)], NEW action, NEW seen, NEW new,
           Audited(action, seen, new)
    PROVE  HistoriesGrow /\ (action # "import" => NoneImported)
<1>1. ASSUME NEW d \in Serials
      PROVE  /\ \A i \in DOMAIN history[d] :
                   i \in DOMAIN history'[d] /\ history'[d][i] = history[d][i]
             /\ \A i \in DOMAIN history'[d] :
                   i \in DOMAIN history[d] \/ history'[d][i].action = action
  <2>1. CASE history'[d] = history[d]
    BY <2>1
  <2>2. CASE history'[d] # history[d]
    <3>1. PICK e : e = [action |-> action, seen |-> seen[d], after |-> new[d]]
      OBVIOUS
    <3>2. history'[d] = Append(history[d], e) /\ history[d] \in Seq(AuditEntries)
      BY <2>2, <3>1 DEF Audited
    <3>3. e.action = action
      BY <3>1
    <3>4. /\ DOMAIN history'[d] = DOMAIN history[d] \cup {Len(history[d]) + 1}
          /\ history'[d][Len(history[d]) + 1] = e
          /\ \A i \in DOMAIN history[d] : history'[d][i] = history[d][i]
      <4>1. PICK h : h = history[d]
        OBVIOUS
      <4> QED
        BY <3>2, <4>1, AppendGrows
    <3> QED
      BY <3>3, <3>4
  <2> QED
    BY <2>1, <2>2
<1> QED
  BY <1>1 DEF HistoriesGrow, NoneImported

\* Administrators and sessions add no import.
LEMMA RecordNextGrows ==
    ASSUME RecordInv, RecordNext
    PROVE  HistoriesGrow /\ NoneImported
<1>0. history \in [Serials -> Seq(AuditEntries)]
  BY DEF RecordInv
<1>1. CASE \E b \in Boards : CreateBoardType(b)
  BY <1>1 DEF CreateBoardType, HistoriesGrow, NoneImported
<1>2. ASSUME NEW d \in Serials, NEW seen, NEW b \in Boards,
             NEW action \in {"verify", "correction", "service_change"},
             SetIdentity(d, action, seen, b)
      PROVE  HistoriesGrow /\ NoneImported
  <2>1. PICK s, n : s = [x \in {d} |-> seen] /\ n = [x \in {d} |-> Verified(x, b)]
    OBVIOUS
  <2>2. Audited(action, s, n) /\ action # "import"
    BY <1>2, <2>1 DEF SetIdentity
  <2> QED
    BY <2>2, <1>0, AuditedGrows
<1>3. ASSUME NEW d \in Serials, NEW seen, NEW frozen \in BOOLEAN, Freeze(d, seen, frozen)
      PROVE  HistoriesGrow /\ NoneImported
  <2>1. PICK s, n :
           /\ s = [x \in {d} |-> seen]
           /\ n = [x \in {d} |-> [registry[x] EXCEPT !.frozen = frozen, !.revision = @ + 1]]
    OBVIOUS
  <2>2. Audited("freeze", s, n)
    BY <1>3, <2>1 DEF Freeze
  <2> QED
    BY <2>2, <1>0, AuditedGrows
<1>4. ASSUME NEW d \in Serials, SessionConflict(d)
      PROVE  HistoriesGrow /\ NoneImported
  <2>1. PICK s, n : s = Revisions /\ n = [x \in {d} |-> Conflicted(x)]
    OBVIOUS
  <2>2. Audited("session_identity_conflict", s, n)
    BY <1>4, <2>1 DEF SessionConflict
  <2> QED
    BY <2>2, <1>0, AuditedGrows
<1> QED
  BY <1>1, <1>2, <1>3, <1>4 DEF RecordNext

Committable == {"new", "same", "committed"}

FilesOK ==
    /\ file \in [Serials -> Boards \cup {"none"}]
    /\ staged \in [Serials -> {"none", "new", "same", "conflict", "invalid", "committed"}]
    /\ saved \in [Keys -> SUBSET Serials]
    /\ todo \in [Importers -> SUBSET Serials]

\* What is committed is in the file, and what a commit has left could be committed.
CommitsAreStaged ==
    /\ \A d \in Serials : staged[d] \in Committable => file[d] \in Boards
    /\ \A c \in Importers : \A d \in todo[c] : staged[d] \in Committable

\* Of device d: a committed row was verified, an import committed it, and there is one.
Settled(d) ==
    /\ staged[d] = "committed" => HasVerified(history[d], file[d])
    /\ \A i \in DOMAIN history[d] : history[d][i].action = "import" => staged[d] = "committed"
    /\ \A i, j \in DOMAIN history[d] :
          history[d][i].action = "import" /\ history[d][j].action = "import" => i = j

ImportInv ==
    /\ RecordInv /\ OthersOK /\ FilesOK /\ CommitsAreStaged
    /\ \A d \in Serials : Settled(d)

\* The invariant says what the runs check.
LEMMA ImportInvSuffices ==
    ImportInv => ImportTypeOK /\ RecordIsAudited /\ ImportIsSettled
<1> SUFFICES ASSUME ImportInv
             PROVE  ImportTypeOK /\ RecordIsAudited /\ ImportIsSettled
  OBVIOUS
<1>1. HardwareTypeOK /\ RecordIsAudited
  BY HardwareInvSuffices DEF ImportInv
<1>2. ImportTypeOK
  <2>1. todo \in [Importers -> SUBSET InFile]
    BY HardwareAssumption DEF ImportInv, FilesOK, CommitsAreStaged, InFile
  <2> QED
    BY <1>1, <2>1 DEF ImportInv, FilesOK, ImportTypeOK
<1>3. ASSUME NEW d \in Serials, NEW I, I = {i \in DOMAIN history[d] : history[d][i].action = "import"}
      PROVE  /\ staged[d] = "committed" =>
                    \E i \in DOMAIN history[d] :
                        history[d][i].after.state = "verified" /\ history[d][i].after.board = file[d]
             /\ I # {} => staged[d] = "committed"
             /\ Cardinality(I) <= 1
  <2>1. Settled(d)
    BY DEF ImportInv
  <2>2. CASE I = {}
    BY <2>1, <2>2, FS_EmptySet DEF Settled, HasVerified
  <2>3. CASE I # {}
    <3>1. PICK i : I = {i}
      BY <2>1, <2>3, <1>3 DEF Settled
    <3>2. Cardinality(I) = 1
      BY <3>1, FS_Singleton
    <3> QED
      BY <2>1, <1>3, <3>2 DEF Settled, HasVerified
  <2> QED
    BY <2>2, <2>3
<1>4. ImportIsSettled
  BY <1>3 DEF ImportIsSettled
<1> QED
  BY <1>1, <1>2, <1>4

\* No row is staged at first.
LEMMA ImportBegins == ImportInit => ImportInv
<1> SUFFICES ASSUME ImportInit
             PROVE  ImportInv
  OBVIOUS
<1>1. HardwareInv /\ history = [d \in Serials |-> <<>>]
  BY HardwareBegins DEF ImportInit, HardwareInit
<1>2. FilesOK
  BY DEF ImportInit, FilesOK
<1>3. CommitsAreStaged
  BY DEF ImportInit, CommitsAreStaged, Committable
<1>4. \A d \in Serials : Settled(d)
  BY <1>1 DEF ImportInit, Settled
<1> QED
  BY <1>1, <1>2, <1>3, <1>4 DEF HardwareInv, ImportInv

\* What is written to records without an import leaves the import settled.
LEMMA GrowthKeepsSettled ==
    ASSUME ImportInv, RecordInv', OthersOK', HistoriesGrow, NoneImported,
           UNCHANGED importVars
    PROVE  ImportInv'
<1>1. UNCHANGED <<file, staged, saved, todo>>
  BY DEF importVars
<1>2. FilesOK' /\ CommitsAreStaged'
  BY <1>1 DEF ImportInv, FilesOK, CommitsAreStaged
<1>3. ASSUME NEW d \in Serials
      PROVE  Settled(d)'
  <2>1. Settled(d)
    BY DEF ImportInv
  <2>2. staged'[d] = "committed" => HasVerified(history'[d], file'[d])
    BY <2>1, <1>1 DEF Settled, HasVerified, HistoriesGrow
  <2> QED
    BY <2>1, <2>2, <1>1 DEF Settled, NoneImported
<1> QED
  BY <1>2, <1>3 DEF ImportInv

\* What administrators do to records leaves the import settled.
LEMMA RecordsKeepSettled ==
    ASSUME ImportInv, RecordNext, UNCHANGED importVars
    PROVE  ImportInv'
<1>1. /\ RecordInv' /\ boardTypes' \subseteq Boards /\ UNCHANGED <<latest, firmware, windows>>
  BY RecordNextIsTold DEF ImportInv, OthersOK
<1>2. OthersOK'
  BY <1>1 DEF ImportInv, OthersOK
<1>3. HistoriesGrow /\ NoneImported
  BY RecordNextGrows DEF ImportInv
<1> QED
  BY <1>1, <1>2, <1>3, GrowthKeepsSettled

\* A file is staged once, before anything is committed.
LEMMA StagingKeepsSettled ==
    ASSUME ImportInv, NEW boards \in [Serials -> Boards \cup {"none"}], StageImport(boards)
    PROVE  ImportInv'
<1>1. UNCHANGED <<boardTypes, registry, history, latest, firmware, windows, saved, todo>>
  BY DEF StageImport, hardwareVars, registryVars
<1>2. RecordInv' /\ OthersOK'
  BY <1>1, SameIsTold DEF ImportInv, OthersOK
<1>3. ASSUME NEW d \in Serials
      PROVE  staged[d] \notin Committable
  <2>1. file[d] = "none"
    BY DEF StageImport, InFile
  <2> QED
    BY <2>1, HardwareAssumption DEF ImportInv, CommitsAreStaged
<1>4. \A c \in Importers : todo[c] = {}
  BY <1>3 DEF ImportInv, CommitsAreStaged, FilesOK
<1>5. ASSUME NEW d \in Serials
      PROVE  /\ Preview(d, boards) \in {"none", "new", "same", "conflict", "invalid"}
             /\ Preview(d, boards) \in Committable => boards[d] \in Boards
  BY DEF Preview, Committable
<1>6. file' = boards /\ staged' = [d \in Serials |-> Preview(d, boards)]
  BY DEF StageImport
<1>7. FilesOK'
  BY <1>1, <1>5, <1>6 DEF ImportInv, FilesOK
<1>8. CommitsAreStaged'
  BY <1>1, <1>4, <1>5, <1>6 DEF CommitsAreStaged
<1>9. ASSUME NEW d \in Serials
      PROVE  Settled(d)'
  <2>1. staged'[d] # "committed"
    BY <1>5, <1>6
  <2>2. \A i \in DOMAIN history[d] : history[d][i].action # "import"
    BY <1>3 DEF ImportInv, Settled, Committable
  <2> QED
    BY <2>1, <2>2, <1>1 DEF Settled
<1> QED
  BY <1>2, <1>7, <1>8, <1>9 DEF ImportInv

\* What a chunk writes, it may write: records not verified yet, with boards of the file.
LEMMA ChunkMayWrite ==
    ASSUME ImportInv, NEW c \in Importers, NEW D, NEW new,
           D = {d \in Uncommitted(c) : registry[d].state = "unverified"},
           new = [d \in D |-> Verified(d, file[d])]
    PROVE  MayWrite("import", Revisions, new)
<1>1. ASSUME NEW d \in D
      PROVE  /\ d \in Serials /\ Revisions[d] = registry[d].revision
             /\ MayBecome(registry[d], new[d], "import")
  <2>1. d \in todo[c] /\ d \in Serials /\ registry[d].state = "unverified"
    BY DEF Uncommitted, Chunk, ImportInv, FilesOK
  <2>2. PICK b \in Boards : b = file[d]
    BY <2>1 DEF ImportInv, CommitsAreStaged
  <2>3. registry[d] \in RecordRows
    BY <2>1 DEF ImportInv, RecordInv
  <2>4. /\ Verified(d, b) \in AnyRecordRows /\ Verified(d, b).state = "verified"
        /\ Verified(d, b).revision = registry[d].revision + 1
    BY <2>1, <2>3, RowsOfChanges
  <2>5. new[d] = Verified(d, b)
    BY <2>2
  <2>6. Lawful(registry[d], new[d], "import")
    BY <2>1 DEF Lawful
  <2> QED
    BY <2>1, <2>4, <2>5, <2>6 DEF MayBecome, Revisions
<1>2. DOMAIN new = D
  OBVIOUS
<1> QED
  BY <1>1, <1>2 DEF MayWrite

\* A chunk settles its rows: each is imported, or its record was verified to be that.
LEMMA ChunkKeepsSettled ==
    ASSUME ImportInv, NEW c \in Importers, CommitChunk(c)
    PROVE  ImportInv'
<1>1. PICK D : D = {d \in Uncommitted(c) : registry[d].state = "unverified"}
  OBVIOUS
<1>2. PICK s, new : s = Revisions /\ new = [d \in D |-> Verified(d, file[d])]
  OBVIOUS
<1>3. Audited("import", s, new)
  BY <1>1, <1>2 DEF CommitChunk
<1>4. MayWrite("import", s, new)
  BY <1>1, <1>2, ChunkMayWrite
<1>5. RecordInv'
  <2>1. "import" \in Actions
    BY DEF Actions
  <2> QED
    BY <2>1, <1>3, <1>4, AuditedIsTold DEF ImportInv
<1>6. HistoriesGrow
  BY <1>3, AuditedGrows DEF ImportInv, RecordInv
<1>7. /\ UNCHANGED <<boardTypes, latest, firmware, windows, file, saved>>
      /\ staged' = [d \in Serials |-> IF d \in Chunk(c) THEN "committed" ELSE staged[d]]
      /\ todo' = [todo EXCEPT ![c] = @ \ Chunk(c)]
  BY DEF CommitChunk
<1>8. Chunk(c) \subseteq todo[c] /\ todo[c] \subseteq Serials
  BY DEF Chunk, ImportInv, FilesOK
<1>9. OthersOK'
  BY <1>7 DEF ImportInv, OthersOK
<1>10. FilesOK'
  BY <1>7, <1>8 DEF ImportInv, FilesOK
<1>11. CommitsAreStaged'
  <2>1. \A d \in Serials : staged'[d] \in Committable => staged[d] \in Committable
    BY <1>7, <1>8 DEF ImportInv, CommitsAreStaged
  <2>2. \A d \in Serials : staged[d] \in Committable => staged'[d] \in Committable
    BY <1>7 DEF Committable
  <2>3. \A e \in Importers : todo'[e] \subseteq todo[e] /\ todo[e] \subseteq Serials
    BY <1>7 DEF ImportInv, FilesOK
  <2> QED
    BY <2>1, <2>2, <2>3, <1>7 DEF ImportInv, CommitsAreStaged
<1>12. ASSUME NEW d \in Serials
       PROVE  Settled(d)'
  <2>1. Settled(d) /\ Vouches(history[d], registry[d]) /\ history[d] \in Seq(AuditEntries)
    BY DEF ImportInv, RecordInv
  <2>2. CASE d \in D
    <3>1. d \in Uncommitted(c) /\ d \in Chunk(c) /\ staged[d] # "committed"
      BY <2>2, <1>1 DEF Uncommitted
    <3>2. staged'[d] = "committed"
      BY <3>1, <1>7
    <3>3. PICK h, e : h = history[d] /\ e = [action |-> "import", seen |-> s[d], after |-> new[d]]
      OBVIOUS
    <3>4. history'[d] = Append(h, e)
      BY <2>2, <3>3, <1>2, <1>3 DEF Audited
    <3>5. /\ DOMAIN history'[d] = DOMAIN h \cup {Len(h) + 1}
          /\ history'[d][Len(h) + 1] = e
          /\ \A i \in DOMAIN h : history'[d][i] = h[i]
      BY <2>1, <3>3, <3>4, AppendGrows
    <3>6. e.after.state = "verified" /\ e.after.board = file'[d]
      <4>1. e.after = Verified(d, file[d]) /\ registry[d] \in RecordRows
        BY <2>2, <3>3, <1>2 DEF ImportInv, RecordInv
      <4>2. file[d] \in Boards
        BY <3>1, <1>8 DEF ImportInv, CommitsAreStaged
      <4> QED
        BY <4>1, <4>2, <1>7, RowsOfChanges
    <3>7. \A i \in DOMAIN h : h[i].action # "import"
      BY <2>1, <3>1, <3>3 DEF Settled
    <3>8. HasVerified(history'[d], file'[d])
      BY <3>5, <3>6 DEF HasVerified
    <3> QED
      BY <3>2, <3>5, <3>7, <3>8 DEF Settled
  <2>3. CASE d \notin D
    <3>1. history'[d] = history[d]
      BY <2>3, <1>2, <1>3 DEF Audited
    <3>2. CASE d \in Uncommitted(c)
      <4>1. d \in Chunk(c) /\ staged[d] # "committed" /\ registry[d].state # "unverified"
        BY <3>2, <2>3, <1>1 DEF Uncommitted
      <4>2. registry[d].board = file[d]
        BY <3>2, <4>1 DEF CommitChunk, Refused, Same
      <4>3. file[d] # "none"
        BY <4>1, <1>8, HardwareAssumption DEF ImportInv, CommitsAreStaged
      <4>4. HasVerified(history[d], file[d])
        BY <2>1, <4>2, <4>3 DEF Vouches
      <4>5. staged'[d] = "committed"
        BY <4>1, <1>7
      <4> QED
        BY <2>1, <3>1, <4>4, <4>5, <1>7 DEF Settled
    <3>3. CASE d \notin Uncommitted(c)
      <4>1. staged'[d] = staged[d]
        BY <3>3, <1>7 DEF Uncommitted
      <4> QED
        BY <2>1, <3>1, <4>1, <1>7 DEF Settled
    <3> QED
      BY <3>2, <3>3
  <2> QED
    BY <2>2, <2>3
<1> QED
  BY <1>5, <1>9, <1>10, <1>11, <1>12 DEF ImportInv

\* A commit that begins or stops changes what is left to do.
LEMMA TodoKeepsSettled ==
    ASSUME ImportInv,
           UNCHANGED <<boardTypes, registry, history, latest, firmware, windows, file, staged>>,
           saved' \in [Keys -> SUBSET Serials], todo' \in [Importers -> SUBSET Serials],
           \A c \in Importers : \A d \in todo'[c] : staged[d] \in Committable
    PROVE  ImportInv'
<1>1. RecordInv' /\ OthersOK'
  BY SameIsTold DEF ImportInv, OthersOK
<1>2. FilesOK' /\ CommitsAreStaged'
  BY DEF ImportInv, FilesOK, CommitsAreStaged
<1>3. \A d \in Serials : Settled(d)'
  BY DEF ImportInv, Settled
<1> QED
  BY <1>1, <1>2, <1>3 DEF ImportInv

\* Every step keeps the invariant.
LEMMA ImportSteps == ImportInv /\ [ImportNext]_<<hardwareVars, importVars>> => ImportInv'
<1> SUFFICES ASSUME ImportInv, [ImportNext]_<<hardwareVars, importVars>>
             PROVE  ImportInv'
  OBVIOUS
<1>1. CASE RecordNext /\ UNCHANGED importVars
  BY <1>1, RecordsKeepSettled
<1>2. ASSUME NEW boards \in [Serials -> Boards \cup {"none"}], StageImport(boards)
      PROVE  ImportInv'
  BY <1>2, StagingKeepsSettled
<1>3. ASSUME NEW c \in Importers, NEW k \in Keys, NEW choice \in SUBSET Serials,
             CommitImport(c, k, choice)
      PROVE  ImportInv'
  <2>1. /\ saved' = [saved EXCEPT ![k] = choice] /\ todo' = [todo EXCEPT ![c] = choice]
        /\ \A d \in choice : staged[d] \in Committable
        /\ UNCHANGED <<boardTypes, registry, history, latest, firmware, windows, file, staged>>
    BY <1>3 DEF CommitImport, Committable, hardwareVars, registryVars
  <2>2. saved \in [Keys -> SUBSET Serials] /\ todo \in [Importers -> SUBSET Serials]
    BY DEF ImportInv, FilesOK
  <2>3. saved' \in [Keys -> SUBSET Serials] /\ todo' \in [Importers -> SUBSET Serials]
    BY <2>1, <2>2
  <2>4. \A e \in Importers : \A d \in todo'[e] : staged[d] \in Committable
    BY <2>1, <2>2 DEF ImportInv, CommitsAreStaged
  <2> QED
    BY <2>1, <2>3, <2>4, TodoKeepsSettled
<1>4. ASSUME NEW c \in Importers, CommitChunk(c)
      PROVE  ImportInv'
  BY <1>4, ChunkKeepsSettled
<1>5. ASSUME NEW c \in Importers, CommitStops(c)
      PROVE  ImportInv'
  <2>1. /\ todo' = [todo EXCEPT ![c] = {}] /\ saved' = saved
        /\ UNCHANGED <<boardTypes, registry, history, latest, firmware, windows, file, staged>>
    BY <1>5 DEF CommitStops, hardwareVars, registryVars
  <2>2. saved' \in [Keys -> SUBSET Serials] /\ todo \in [Importers -> SUBSET Serials]
    BY <2>1 DEF ImportInv, FilesOK
  <2>3. todo' \in [Importers -> SUBSET Serials]
    BY <2>1, <2>2
  <2>4. \A e \in Importers : \A d \in todo'[e] : staged[d] \in Committable
    BY <2>1, <2>2 DEF ImportInv, CommitsAreStaged
  <2> QED
    BY <2>1, <2>2, <2>3, <2>4, TodoKeepsSettled
<1>6. CASE UNCHANGED <<hardwareVars, importVars>>
  <2>1. UNCHANGED <<boardTypes, registry, history, latest, firmware, windows, file, staged,
                    saved, todo>>
    BY <1>6 DEF hardwareVars, registryVars, importVars
  <2> QED
    BY <2>1, TodoKeepsSettled DEF ImportInv, FilesOK, CommitsAreStaged
<1> QED
  BY <1>1, <1>2, <1>3, <1>4, <1>5, <1>6 DEF ImportNext

\* However often, under whatever keys and from whatever chunk on a file is committed,
\* while records change: what is called committed was verified to be what the file says,
\* the file made it once at most, and the audit is whole.
THEOREM ImportsAreSettled ==
    ImportSpec => [](ImportTypeOK /\ RecordIsAudited /\ ImportIsSettled)
BY ImportInvSuffices, ImportBegins, ImportSteps, PTL DEF ImportSpec

-----------------------------------------------------------------------------
(* All that writes the records at once.                                    *)

\* Reports, releases and windows add to the audit and add no import.
LEMMA HardwareNextGrows ==
    ASSUME RecordInv, HardwareNext
    PROVE  HistoriesGrow /\ NoneImported
<1>0. history \in [Serials -> Seq(AuditEntries)]
  BY DEF RecordInv
<1>1. CASE RecordNext
  BY <1>1, RecordNextGrows
<1>2. ASSUME NEW d \in Serials, NEW b \in Boards \cup {"none"}, NEW time \in 1 .. MaxReport,
             Observe(d, b, time)
      PROVE  HistoriesGrow /\ NoneImported
  <2>1. PICK s, n : s = Revisions /\ n = [x \in {d} |-> Conflicted(x)]
    OBVIOUS
  <2>2. CASE Audited("observation_conflict", s, n)
    BY <2>2, <1>0, AuditedGrows
  <2>3. CASE UNCHANGED <<registry, history>>
    BY <2>3 DEF HistoriesGrow, NoneImported
  <2> QED
    BY <2>1, <2>2, <2>3, <1>2 DEF Observe
<1>3. CASE UNCHANGED registryVars
  BY <1>3 DEF registryVars, HistoriesGrow, NoneImported
<1> QED
  BY <1>1, <1>2, <1>3 DEF HardwareNext, SetFirmwareBoards, Release, CreateWindow

\* A chunk of an import advances the records it is about, and leaves the windows.
LEMMA ChunkAdvances ==
    ASSUME ImportInv, NEW c \in Importers, CommitChunk(c)
    PROVE  RecordsAdvance /\ UNCHANGED <<firmware, windows>>
<1>1. PICK D : D = {d \in Uncommitted(c) : registry[d].state = "unverified"}
  OBVIOUS
<1>2. PICK s, new : s = Revisions /\ new = [d \in D |-> Verified(d, file[d])]
  OBVIOUS
<1>3. Audited("import", s, new) /\ "import" \in Actions
  BY <1>1, <1>2 DEF CommitChunk, Actions
<1>4. MayWrite("import", s, new)
  BY <1>1, <1>2, ChunkMayWrite
<1>5. RecordsAdvance
  BY <1>3, <1>4, AuditedIsTold DEF ImportInv
<1> QED
  BY <1>5 DEF CommitChunk

\* Whatever the import does, records advance or stay, and the windows are left alone.
LEMMA ImportAdvances ==
    ASSUME ImportInv, ImportNext
    PROVE  RecordsAdvance /\ UNCHANGED <<firmware, windows>>
<1>1. CASE RecordNext
  BY <1>1, RecordNextIsTold DEF ImportInv, OthersOK
<1>2. ASSUME NEW c \in Importers, CommitChunk(c)
      PROVE  RecordsAdvance /\ UNCHANGED <<firmware, windows>>
  BY <1>2, ChunkAdvances
<1>3. CASE UNCHANGED hardwareVars
  BY <1>3, SameIsTold DEF hardwareVars, registryVars, ImportInv
<1> QED
  BY <1>1, <1>2, <1>3 DEF ImportNext, StageImport, CommitImport, CommitStops

\* A window stays right though a chunk makes records, and a row stays settled though
\* reports dispute its record.
RecordsInv == HardwareInv /\ ImportInv

\* Every step of either kind keeps both invariants.
LEMMA RecordsStep == RecordsInv /\ [RecordsNext]_recordsVars => RecordsInv'
<1> SUFFICES ASSUME RecordsInv, [RecordsNext]_recordsVars
             PROVE  RecordsInv'
  OBVIOUS
<1> USE DEF RecordsInv
<1>1. CASE HardwareNext /\ UNCHANGED importVars
  <2>1. HardwareInv'
    BY <1>1, HardwareSteps
  <2>2. HistoriesGrow /\ NoneImported
    BY <1>1, HardwareNextGrows DEF HardwareInv
  <2>3. ImportInv'
    BY <1>1, <2>1, <2>2, GrowthKeepsSettled DEF HardwareInv
  <2> QED
    BY <2>1, <2>3
<1>2. CASE ImportNext
  <2>1. ImportInv'
    BY <1>2, ImportSteps
  <2>2. WindowsAreSettled' /\ WindowIsLawful'
    BY <1>2, <2>1, ImportAdvances, WindowsStayLawful DEF HardwareInv, ImportInv
  <2> QED
    BY <2>1, <2>2 DEF HardwareInv, ImportInv
<1>3. CASE UNCHANGED recordsVars
  BY <1>3, HardwareSteps, ImportSteps DEF recordsVars
<1> QED
  BY <1>1, <1>2, <1>3 DEF RecordsNext

\* Nothing is written at first.
LEMMA RecordsBegin == ImportInit => RecordsInv
BY ImportBegins, HardwareBegins DEF ImportInit, RecordsInv

\* With administrators, reports, releases, windows and the import of a file all at once,
\* the audit tells how every record came to be what it is, a window permits what it was
\* made to permit or nothing, and a row of the file makes its record once at most.
THEOREM RecordsAreSafe ==
    RecordsSpec => [](ImportTypeOK /\ RecordIsAudited /\ WindowIsLawful /\ ImportIsSettled)
<1>1. RecordsInv => ImportTypeOK /\ RecordIsAudited /\ WindowIsLawful /\ ImportIsSettled
  BY ImportInvSuffices DEF RecordsInv, HardwareInv
<1> QED
  BY <1>1, RecordsBegin, RecordsStep, PTL DEF RecordsSpec

\* What TLC looks at is part of that.
THEOREM PartsAreRecords == PartsSpec => RecordsSpec
<1>1. PartsInit => ImportInit
  BY DEF PartsInit
<1>2. [PartsNext]_<<recordsPart, recordsVars>> => [RecordsNext]_recordsVars
  BY DEF PartsNext, RecordsNext, recordsVars
<1> QED
  BY <1>1, <1>2, PTL DEF PartsSpec, RecordsSpec
=============================================================================
