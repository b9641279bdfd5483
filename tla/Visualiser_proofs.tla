------------------------- MODULE Visualiser_proofs -------------------------
(***************************************************************************)
(* Proofs about Visualiser, for every size of the ring and of a batch and  *)
(* any number of records, rings and starts.                                *)
(***************************************************************************)
EXTENDS Visualiser, FiniteSetTheorems, TLAPS

USE CapacityAssumption, BatchAssumption, LifeAssumption

LEMMA Batched ==
  ASSUME TypeOK, NEW r
  PROVE  /\ IsFiniteSet(batch) /\ Cardinality(batch) \in Nat
         /\ IsFiniteSet(batch \union {r})
         /\ Cardinality(batch \union {r}) \in Nat
         /\ Cardinality(batch \union {r}) <= Cardinality(batch) + 1
<1>1. IsFiniteSet(batch)
  BY DEF TypeOK
<1>2. Cardinality(batch) \in Nat
  BY <1>1, FS_CardinalityType
<1>3. /\ IsFiniteSet(batch \union {r})
      /\ Cardinality(batch \union {r}) =
           IF r \in batch THEN Cardinality(batch) ELSE Cardinality(batch) + 1
  BY <1>1, FS_AddElement
<1> QED BY <1>1, <1>2, <1>3

\* A record that there is to read is one of Records.
LEMMA ReadsRecord ==
  ASSUME TypeOK, HeaderInv, NEW n \in Nat, n < head
  PROVE  Record(n) \in Records
  BY DEF TypeOK, HeaderInv, Record, Records

----------------------------------------------------------------------------
(* Types.                                                                  *)

LEMMA TypeInit == Init => TypeOK /\ HeaderInv
<1>1. IsFiniteSet({}) /\ Cardinality({}) = 0
  BY FS_EmptySet
<1> SUFFICES ASSUME Init PROVE TypeOK /\ HeaderInv
  OBVIOUS
<1>2. Cardinality(batch) = 0 /\ IsFiniteSet(batch)
  BY <1>1 DEF Init
<1>3. HeaderInv
  BY DEF Init, HeaderInv
<1>4. exists \in BOOLEAN /\ magic \in BOOLEAN
  BY Zenon DEF Init
<1>5. /\ begun \in 0 .. MaxRings /\ ring \in 0 .. begun /\ head \in 0 .. MaxHead
      /\ looks \in 0 .. MaxLooks /\ seq \in 0 .. MaxHead /\ from \in 0 .. MaxHead
      /\ born \in 0 .. begun /\ lives \in 0 .. MaxLives
  BY DEF Init
<1>6. pc = "off" /\ writer = "down" /\ batch = {} /\ stored = {} /\ failed = {} /\ skipped = {}
  BY DEF Init
<1> QED BY <1>2, <1>3, <1>4, <1>5, <1>6 DEF TypeOK

LEMMA TypeStep ==
  ASSUME TypeOK, HeaderInv, CursorInv, [Next]_vars
  PROVE  TypeOK'
<1>0. /\ IsFiniteSet({}) /\ Cardinality({}) = 0
      /\ Cardinality(batch) \in Nat
  BY FS_EmptySet, Batched
<1>1. CASE Begin
  <2>1. begun + 1 \in 0 .. MaxRings /\ ring \in 0 .. begun + 1 /\ born \in 0 .. begun + 1
    BY <1>1 DEF TypeOK, Begin
  <2> QED BY <1>1, <2>1 DEF TypeOK, Begin, ledger
<1>2. CASE SetHead
  <2>1. begun \in 0 .. begun /\ 0 \in 0 .. MaxHead
    BY DEF TypeOK
  <2> QED BY <1>2, <2>1 DEF TypeOK, SetHead, ledger
<1>3. CASE SetMagic \/ Write \/ EndWriter
  <2>1. head' \in 0 .. MaxHead /\ writer' \in {"up", "down"}
    BY <1>3 DEF TypeOK, SetMagic, Write, EndWriter
  <2>2. magic' \in BOOLEAN
    BY <1>3, Zenon DEF TypeOK, SetMagic, Write, EndWriter
  <2> QED BY <1>3, <2>1, <2>2 DEF TypeOK, SetMagic, Write, EndWriter, ledger
<1>4. CASE Start
  <2>1. lives + 1 \in 0 .. MaxLives /\ 0 \in 0 .. MaxLooks /\ 0 \in 0 .. MaxHead
    BY <1>4 DEF TypeOK, Start
  <2> QED BY <1>4, <2>1 DEF TypeOK, Start, ringVars
<1>5. CASE Look
  <2>1. looks' \in 0 .. MaxLooks
    BY <1>5 DEF TypeOK, CursorInv, Look
  <2>2. pc' \in {"waiting", "attaching", "off"} /\ pc = "waiting"
    BY <1>5 DEF Look
  <2> QED BY <1>5, <2>1, <2>2 DEF TypeOK, Look, ringVars, ledger
<1>11. CASE Attach
  <2>1. born' \in 0 .. begun /\ pc' \in {"loop", "off"} /\ pc = "attaching"
    BY <1>11 DEF TypeOK, Attach
  <2> QED BY <1>11, <2>1 DEF TypeOK, Attach, ringVars, ledger
<1>6. CASE ReadRecord
  <2>1. Record(seq) \in Records
    BY <1>6, ReadsRecord DEF ReadRecord, TypeOK
  <2> DEFINE more == batch \union {Record(seq)}
  <2>2. /\ IsFiniteSet(more) /\ Cardinality(more) \in Nat
        /\ Cardinality(more) <= Cardinality(batch) + 1
    BY Batched
  <2>3. /\ batch' = more /\ more \subseteq Records
        /\ Cardinality(batch) <= BatchLimit
        /\ pc' = IF Cardinality(more) > BatchLimit THEN "flushing" ELSE pc
        /\ pc = "loop"
    BY <1>6, <2>1 DEF ReadRecord, TypeOK
  <2>4. seq' \in 0 .. MaxHead
    BY <1>6 DEF ReadRecord, TypeOK
  <2> HIDE DEF more
  <2>5. Cardinality(more) <= IF pc' = "flushing" THEN BatchLimit + 1 ELSE BatchLimit
    BY <1>0, <2>2, <2>3
  <2> QED BY <1>6, <2>2, <2>3, <2>4, <2>5 DEF ReadRecord, TypeOK, ringVars, ledger
<1>7. CASE ReadOverlap
  <2>1. Oldest \in 0 .. MaxHead /\ Oldest < head /\ seq \in Nat
    BY <1>7 DEF ReadOverlap, TypeOK, Oldest
  <2>2. \A n \in seq .. Oldest - 1 : Record(n) \in Records
    BY <2>1, ReadsRecord DEF TypeOK
  <2>3. skipped' \subseteq Records
    BY <1>7, <2>2 DEF ReadOverlap, TypeOK
  <2> QED BY <1>7, <2>1, <2>3 DEF ReadOverlap, TypeOK, ringVars
<1>8. CASE ReadEmpty
  <2>1. Cardinality(batch) <= BatchLimit + 1
    BY <1>0, <1>8 DEF ReadEmpty, TypeOK
  <2> QED BY <1>8, <2>1 DEF ReadEmpty, TypeOK, ringVars, ledger
<1>9. CASE Flush \/ End
  BY <1>0, <1>9 DEF Flush, End, TypeOK, ringVars, ledger
<1>10. CASE UNCHANGED vars
  BY <1>10 DEF vars, TypeOK
<1> QED
  BY <1>1, <1>2, <1>3, <1>4, <1>5, <1>6, <1>7, <1>8, <1>9, <1>10, <1>11 DEF Next, Loop

LEMMA HeaderStep ==
  ASSUME TypeOK, HeaderInv, [Next]_vars
  PROVE  HeaderInv'
<1>1. CASE Begin \/ SetHead \/ SetMagic \/ Write \/ EndWriter
  BY <1>1 DEF TypeOK, HeaderInv, Begin, SetHead, SetMagic, Write, EndWriter
<1>2. CASE UNCHANGED ringVars
  BY <1>2 DEF HeaderInv, ringVars
<1> QED
  BY <1>1, <1>2 DEF Next, Loop, Start, Look, Attach, ReadRecord, ReadOverlap,
     ReadEmpty, Flush, End, vars, ringVars

----------------------------------------------------------------------------
(* Where the records go.                                                   *)

LEMMA CursorStep ==
  ASSUME TypeOK, HeaderInv, CursorInv, [Next]_vars
  PROVE  CursorInv'
<1> USE DEF Attached
<1>1. CASE SetHead
  <2>1. ring <= ring' /\ ring # ring' /\ ring \in Nat /\ ring' \in Nat
    BY <1>1 DEF SetHead, HeaderInv, TypeOK
  <2>2. Gone' = Gone /\ pc' = pc /\ seq' = seq /\ batch' = batch /\ born' = born
        /\ looks' = looks
    BY <1>1 DEF SetHead, Gone, ledger
  <2>3. Gone \subseteq Records
    BY DEF Gone, TypeOK
  <2>4. \A r \in Records : r[1] \in Nat /\ r[2] \in Nat
    BY DEF Records
  <2>5. born \in Nat
    BY DEF TypeOK
  <2> QED BY <2>1, <2>2, <2>3, <2>4, <2>5 DEF CursorInv
<1>2. CASE Begin \/ SetMagic \/ Write \/ EndWriter
  <2>1. Gone' = Gone /\ pc' = pc /\ seq' = seq /\ batch' = batch /\ born' = born
        /\ ring' = ring /\ looks' = looks
    BY <1>2 DEF Begin, SetMagic, Write, EndWriter, Gone, ledger
  <2> QED BY <2>1 DEF CursorInv
<1>3. CASE Start
  BY <1>3 DEF Start, CursorInv, Gone, ringVars
<1>11. CASE Look
  <2>1. pc' = "waiting" => looks' < MaxLooks
    BY <1>11 DEF Look, CursorInv, TypeOK
  <2> QED BY <1>11, <2>1 DEF Look, CursorInv, Gone, ringVars, ledger
<1>4. CASE Attach
  BY <1>4 DEF Attach, CursorInv, HeaderInv, TypeOK, Gone, ringVars, ledger
<1>5. CASE ReadRecord
  <2>1. Gone' = Gone \union {Record(seq)} /\ seq' = seq + 1 /\ seq \in Nat
        /\ pc' \in {"loop", "flushing"} /\ ring' = ring /\ born' = born
        /\ pc = "loop" /\ ring \in Nat
    BY <1>5 DEF ReadRecord, Gone, TypeOK, ringVars, ledger
  <2>2. Record(seq)[1] = ring /\ Record(seq)[2] = seq
    BY DEF Record
  <2>3. \A r \in Gone : r[2] \in Nat
    BY DEF Gone, TypeOK, Records
  <2> QED BY <2>1, <2>2, <2>3 DEF CursorInv
<1>6. CASE ReadOverlap
  <2>1. /\ Gone' = Gone \union {Record(n) : n \in seq .. Oldest - 1}
        /\ Oldest \in Nat /\ seq \in Nat /\ Oldest > seq /\ seq' = Oldest
        /\ pc = "loop" /\ pc' = pc /\ ring' = ring /\ born' = born /\ ring \in Nat
    BY <1>6 DEF ReadOverlap, Gone, TypeOK, ringVars, Oldest
  <2>2. \A n \in seq .. Oldest - 1 : Record(n)[1] = ring /\ Record(n)[2] < Oldest
    BY <2>1 DEF Record
  <2>3. \A r \in Gone : r[2] \in Nat
    BY DEF Gone, TypeOK, Records
  <2> QED BY <2>1, <2>2, <2>3 DEF CursorInv
<1>7. CASE ReadEmpty
  BY <1>7 DEF ReadEmpty, CursorInv, Gone, ringVars, ledger
<1>8. CASE Flush
  <2>1. Gone' = Gone /\ seq' = seq /\ pc = "flushing" /\ pc' = "loop"
        /\ ring' = ring /\ born' = born
    BY <1>8 DEF Flush, Gone, ringVars
  <2> QED BY <2>1 DEF CursorInv
<1>9. CASE End
  BY <1>9 DEF End, CursorInv
<1>10. CASE UNCHANGED vars
  BY <1>10 DEF vars, CursorInv, Gone
<1> QED
  BY <1>1, <1>2, <1>3, <1>4, <1>5, <1>6, <1>7, <1>8, <1>9, <1>10, <1>11 DEF Next, Loop

LEMMA AccountStep ==
  ASSUME TypeOK, HeaderInv, CursorInv, AccountedOnce, [Next]_vars
  PROVE  AccountedOnce'
<1> USE DEF Attached
<1>1. CASE SetHead
  BY <1>1 DEF SetHead, AccountedOnce, TypeOK, ledger
<1>2. CASE Begin \/ SetMagic \/ Write \/ EndWriter
  <2>1. /\ Gone' = Gone /\ UNCHANGED <<stored, failed, skipped, batch, from, seq, pc, ring>>
    BY <1>2 DEF Begin, SetMagic, Write, EndWriter, Gone, ledger
  <2> QED BY <2>1 DEF AccountedOnce, Record
<1>3. CASE Start \/ Look \/ End
  BY <1>3 DEF Start, Look, End, AccountedOnce
<1>4. CASE Attach
  <2>1. Gone' = {} /\ seq' = 0 /\ from' \in Nat
    BY <1>4 DEF Attach, CursorInv, TypeOK, Gone, ledger
  <2> QED BY <2>1 DEF AccountedOnce, Gone
<1>5. CASE ReadRecord
  <2>1. /\ Gone' = Gone \union {Record(seq)} /\ batch' = batch \union {Record(seq)}
        /\ seq' = seq + 1 /\ seq \in Nat /\ from' = from /\ from \in Nat
        /\ pc = "loop" /\ ring' = ring
        /\ UNCHANGED <<stored, failed, skipped>>
    BY <1>5 DEF ReadRecord, Gone, TypeOK, ringVars, ledger
  <2>2. Record(seq) \notin Gone
    <3>1. Record(seq)[1] = ring /\ Record(seq)[2] = seq
      BY DEF Record
    <3> QED BY <2>1, <3>1 DEF CursorInv
  <2>3. \A n \in from' .. seq' - 1 : Record(n)' \in Gone'
    <3> SUFFICES ASSUME NEW n \in from' .. seq' - 1 PROVE Record(n)' \in Gone'
      OBVIOUS
    <3>1. Record(n)' = Record(n)
      BY <2>1 DEF Record
    <3>2. n = seq \/ n \in from .. seq - 1
      BY <2>1
    <3> QED BY <2>1, <3>1, <3>2 DEF AccountedOnce
  <2> QED BY <2>1, <2>2, <2>3 DEF AccountedOnce, Gone
<1>6. CASE ReadOverlap
  <2> DEFINE New == {Record(n) : n \in seq .. Oldest - 1}
  <2>1. /\ Gone' = Gone \union New /\ skipped' = skipped \union New
        /\ seq \in Nat /\ Oldest \in Nat /\ Oldest > seq /\ seq' = Oldest
        /\ from' = from /\ from \in Nat /\ pc = "loop" /\ ring' = ring
        /\ UNCHANGED <<stored, failed, batch>>
    BY <1>6 DEF ReadOverlap, Gone, TypeOK, ringVars, Oldest
  <2>2. New \intersect Gone = {}
    <3> SUFFICES ASSUME NEW n \in seq .. Oldest - 1, Record(n) \in Gone PROVE FALSE
      OBVIOUS
    <3>1. Record(n)[1] = ring /\ Record(n)[2] = n
      BY DEF Record
    <3> QED BY <2>1, <3>1 DEF CursorInv
  <2>3. \A n \in from' .. seq' - 1 : Record(n)' \in Gone'
    <3> SUFFICES ASSUME NEW n \in from .. Oldest - 1 PROVE Record(n)' \in Gone'
      BY <2>1
    <3>1. Record(n)' = Record(n)
      BY <2>1 DEF Record
    <3>2. n \in seq .. Oldest - 1 \/ n \in from .. seq - 1
      BY <2>1
    <3> QED BY <2>1, <3>1, <3>2 DEF AccountedOnce
  <2> HIDE DEF New
  <2> QED BY <2>1, <2>2, <2>3 DEF AccountedOnce, Gone
<1>7. CASE ReadEmpty
  <2>1. /\ Gone' = Gone /\ UNCHANGED <<stored, failed, skipped, batch, from, seq, ring>>
        /\ pc = "loop"
    BY <1>7 DEF ReadEmpty, Gone, ledger, ringVars
  <2> QED BY <2>1 DEF AccountedOnce, Record
<1>8. CASE Flush
  <2>1. /\ Gone' = Gone /\ UNCHANGED <<from, seq, ring, skipped>>
        /\ pc = "flushing" /\ batch' = {}
        /\ \/ stored' = stored \union batch /\ failed' = failed
           \/ failed' = failed \union batch /\ stored' = stored
    BY <1>8 DEF Flush, Gone, ringVars
  <2>2. \A n : Record(n)' = Record(n)
    BY <2>1 DEF Record
  <2> QED BY <2>1, <2>2 DEF AccountedOnce
<1>9. CASE UNCHANGED vars
  BY <1>9 DEF vars, AccountedOnce, Gone, Record
<1> QED
  BY <1>1, <1>2, <1>3, <1>4, <1>5, <1>6, <1>7, <1>8, <1>9 DEF Next, Loop

LEMMA NothingOldStep ==
  ASSUME TypeOK, HeaderInv, CursorInv, NothingOfTheOld, [Next]_vars
  PROVE  NothingOfTheOld'
<1> USE DEF Attached
<1>1. CASE Begin \/ SetHead \/ SetMagic \/ Write \/ EndWriter \/ ReadEmpty
  BY <1>1 DEF Begin, SetHead, SetMagic, Write, EndWriter, ReadEmpty, NothingOfTheOld,
     ledger
<1>2. CASE Start \/ Look \/ End
  BY <1>2 DEF Start, Look, End, NothingOfTheOld
<1>3. CASE Attach
  BY <1>3 DEF Attach, CursorInv, NothingOfTheOld, Gone, ledger
<1>4. CASE ReadRecord
  <2>1. Record(seq)[1] = ring /\ born <= ring
    BY <1>4 DEF ReadRecord, Record, CursorInv
  <2> QED BY <1>4, <2>1 DEF ReadRecord, NothingOfTheOld, ledger
<1>5. CASE ReadOverlap
  BY <1>5 DEF ReadOverlap, NothingOfTheOld
<1>6. CASE Flush
  BY <1>6 DEF Flush, NothingOfTheOld
<1>7. CASE UNCHANGED vars
  BY <1>7 DEF vars, NothingOfTheOld
<1> QED
  BY <1>1, <1>2, <1>3, <1>4, <1>5, <1>6, <1>7 DEF Next, Loop

----------------------------------------------------------------------------
(* Theorems.                                                               *)

\* The invariant is inductive.
THEOREM Invariance == Spec => []IInv
<1>1. Init => IInv
  BY TypeInit DEF Init, IInv, CursorInv, AccountedOnce, NothingOfTheOld, Attached
<1>2. IInv /\ [Next]_vars => IInv'
  BY TypeStep, HeaderStep, CursorStep, AccountStep, NothingOldStep DEF IInv
<1> QED BY <1>1, <1>2, PTL DEF Spec

\* Types, and the batch within its limit, whatever the reads and flushes.
THEOREM TypeCorrect == Spec => []TypeOK
<1>1. IInv => TypeOK
  BY DEF IInv
<1> QED BY Invariance, <1>1, PTL

\* flush_to_influx and the read loop (main.rs:88-155): every record that the
\* cursor has passed is stored, failed, skipped or waiting, and only one of
\* these.
THEOREM EveryRecordOnce == Spec => []AccountedOnce
<1>1. IInv => AccountedOnce
  BY DEF IInv
<1> QED BY Invariance, <1>1, PTL

\* create_producer and create_consumer (lib.rs:90-137): no reader of the new
\* ring is given a record of the old one.
THEOREM OnlyTheNew == Spec => []NothingOfTheOld
<1>1. IInv => NothingOfTheOld
  BY DEF IInv
<1> QED BY Invariance, <1>1, PTL

=============================================================================
