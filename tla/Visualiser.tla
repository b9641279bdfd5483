------------------------------ MODULE Visualiser ------------------------------
(***************************************************************************)
(* apps/visualiser: reads the telemetry ring of the replay engine and      *)
(* sends the records to InfluxDB in batches, with the life of the ring     *)
(* file that it waits for at its start.                                    *)
(*                                                                         *)
(* A read is one step, as the log that the ring implements has it          *)
(* (BroadcastLog: Deliver, Skip, Idle); Overlapped and Interrupted send    *)
(* the reader to the same place.  What happens inside a read is in         *)
(* ShmRing.  The arm for Reset is left out: read() never returns it.       *)
(*                                                                         *)
(* A record is abstracted to the ring it was written to and its number.    *)
(***************************************************************************)
EXTENDS Integers, FiniteSets

CONSTANTS
  Capacity,    \* slots of the ring
  BatchLimit,  \* BATCH_SIZELIMIT: 5000
  MaxLooks,    \* times the file is looked for: 49
  MaxHead,     \* bound: records written to one ring
  MaxRings,    \* bound: rings
  MaxLives     \* bound: starts of the visualiser

ASSUME CapacityAssumption == Capacity \in Nat \ {0}
ASSUME BatchAssumption == BatchLimit \in Nat \ {0} /\ MaxLooks \in Nat \ {0}
ASSUME LifeAssumption == MaxHead \in Nat /\ MaxRings \in Nat /\ MaxLives \in Nat

VARIABLES
  writer,   \* the replay engine: "down", in create_producer, or "up"
  exists,   \* is there a /dev/shm/hft_telemetry?
  magic,    \* does its header have MAGIC_NUM?
  begun,    \* calls of create_producer
  ring,     \* the one that set head to 0
  head,     \* records written since
  pc,       \* where the visualiser is
  looks,    \* times it has looked for the file
  seq,      \* sequence_num
  batch,    \* records in batch_buffer
  stored,   \* records in a batch that InfluxDB acknowledged
  failed,   \* records in a batch that it rejected, or that timed out
  skipped,  \* records passed over after an overlap
  born,     \* begun, when this visualiser attached
  from,     \* where its cursor stood when the ring was set up anew
  lives     \* starts of the visualiser

ringVars == <<writer, exists, magic, begun, ring, head>>
ledger == <<stored, failed, skipped>>
vars == <<writer, exists, magic, begun, ring, head, pc, looks, seq, batch,
          stored, failed, skipped, born, from, lives>>

Record(n) == <<ring, n>>

\* The oldest record in a ring that has been filled.
Oldest == head - Capacity

Init ==
  /\ writer = "down"
  /\ exists = FALSE /\ magic = FALSE
  /\ begun = 0 /\ ring = 0 /\ head = 0
  /\ pc = "off" /\ looks = 0
  /\ seq = 0 /\ batch = {}
  /\ stored = {} /\ failed = {} /\ skipped = {}
  /\ born = 0 /\ from = 0 /\ lives = 0

----------------------------------------------------------------------------
(* The replay engine.                                                      *)

\* create_producer on a file whose header keeps its magic number.
BeginUncleared ==
  /\ writer = "down"
  /\ begun < MaxRings
  /\ writer' = "clearing"
  /\ exists' = TRUE
  /\ begun' = begun + 1
  /\ UNCHANGED <<magic, ring, head, pc, looks, seq, batch, ledger, born, from, lives>>

\* create_producer opens the file and touches its pages, writing a zero at the
\* beginning of each: in the first that is a byte of the magic number.
Begin ==
  /\ writer = "down"
  /\ begun < MaxRings
  /\ writer' = "clearing"
  /\ exists' = TRUE
  /\ magic' = FALSE
  /\ begun' = begun + 1
  /\ UNCHANGED <<ring, head, pc, looks, seq, batch, ledger, born, from, lives>>

\* Then head is set back.
SetHead ==
  /\ writer = "clearing"
  /\ writer' = "headed"
  /\ head' = 0
  /\ ring' = begun
  /\ from' = seq
  /\ UNCHANGED <<exists, magic, begun, pc, looks, seq, batch, ledger, born, lives>>

\* And the magic number last.
SetMagic ==
  /\ writer = "headed"
  /\ writer' = "up"
  /\ magic' = TRUE
  /\ UNCHANGED <<exists, begun, ring, head, pc, looks, seq, batch, ledger, born, from, lives>>

\* write().
Write ==
  /\ writer = "up"
  /\ head < MaxHead
  /\ head' = head + 1
  /\ UNCHANGED <<writer, exists, magic, begun, ring, pc, looks, seq, batch,
                 ledger, born, from, lives>>

\* The replay engine ends: its day is over, or it is stopped.
EndWriter ==
  /\ writer # "down"
  /\ writer' = "down"
  /\ UNCHANGED <<exists, magic, begun, ring, head, pc, looks, seq, batch,
                 ledger, born, from, lives>>

----------------------------------------------------------------------------
(* The visualiser up to its loop.                                          *)

Start ==
  /\ pc = "off"
  /\ lives < MaxLives
  /\ lives' = lives + 1
  /\ pc' = "waiting"
  /\ looks' = 0
  /\ stored' = {} /\ failed' = {} /\ skipped' = {}
  /\ from' = 0
  /\ UNCHANGED <<ringVars, seq, batch, born>>

\* The file is looked for once a second, and given up with a panic.
Look ==
  /\ pc = "waiting"
  /\ looks' = IF exists THEN looks ELSE looks + 1
  /\ pc' = IF exists THEN "attaching"
           ELSE IF looks' = MaxLooks THEN "off" ELSE pc
  /\ UNCHANGED <<ringVars, seq, batch, ledger, born, from, lives>>

\* Half a second later, create_consumer: the file may be there and have no
\* header yet, which ends the visualiser.
Attach ==
  /\ pc = "attaching"
  /\ pc' = IF magic THEN "loop" ELSE "off"
  /\ born' = begun
  /\ UNCHANGED <<ringVars, looks, seq, batch, ledger, from, lives>>

----------------------------------------------------------------------------
(* The loop.                                                               *)

\* A record joins the batch and the batch is never full.
ReadUnbatched ==
  /\ pc = "loop"
  /\ seq < head
  /\ head - seq <= Capacity
  /\ batch' = batch \union {Record(seq)}
  /\ seq' = seq + 1
  /\ UNCHANGED <<pc, ringVars, looks, ledger, born, from, lives>>

\* Success: the record joins the batch, which goes out when it is too long.
ReadRecord ==
  /\ pc = "loop"
  /\ seq < head
  /\ head - seq <= Capacity
  /\ batch' = batch \union {Record(seq)}
  /\ seq' = seq + 1
  /\ pc' = IF Cardinality(batch') > BatchLimit THEN "flushing" ELSE pc
  /\ UNCHANGED <<ringVars, looks, ledger, born, from, lives>>

\* An overlap that drops what has been read, as the arm for Reset does.
OverlapClears ==
  /\ pc = "loop"
  /\ head - seq > Capacity
  /\ seq' = Oldest
  /\ batch' = {}
  /\ skipped' = skipped \union {Record(n) : n \in seq .. Oldest - 1}
  /\ UNCHANGED <<ringVars, pc, looks, stored, failed, born, from, lives>>

\* Overlapped, Interrupted: on to the oldest record in the ring.
ReadOverlap ==
  /\ pc = "loop"
  /\ head - seq > Capacity
  /\ seq' = Oldest
  /\ skipped' = skipped \union {Record(n) : n \in seq .. Oldest - 1}
  /\ UNCHANGED <<ringVars, pc, looks, batch, stored, failed, born, from, lives>>

\* Empty, without a look at what waits in the batch.
ReadNothing == pc = "loop" /\ seq >= head /\ UNCHANGED vars

\* Empty: what there is goes out, however little.
ReadEmpty ==
  /\ pc = "loop"
  /\ seq >= head
  /\ batch # {}
  /\ pc' = "flushing"
  /\ UNCHANGED <<ringVars, looks, seq, batch, ledger, born, from, lives>>

\* flush_to_influx waits for an answer, at most a second, while the ring goes
\* on.  Whatever the answer, the batch is dropped.
Flush ==
  /\ pc = "flushing"
  /\ \/ stored' = stored \union batch /\ UNCHANGED failed
     \/ failed' = failed \union batch /\ UNCHANGED stored
  /\ batch' = {}
  /\ pc' = "loop"
  /\ UNCHANGED <<ringVars, looks, seq, skipped, born, from, lives>>

\* The visualiser is stopped.
End ==
  /\ pc # "off"
  /\ pc' = "off"
  /\ seq' = 0
  /\ batch' = {}
  /\ UNCHANGED <<ringVars, looks, ledger, born, from, lives>>

----------------------------------------------------------------------------

Loop == ReadRecord \/ ReadOverlap \/ ReadEmpty \/ Flush

Next ==
  \/ Begin \/ SetHead \/ SetMagic \/ Write \/ EndWriter
  \/ Start \/ Look \/ Attach \/ Loop \/ End

Spec == Init /\ [][Next]_vars

\* The loop has no exit, its reads and sleeps end, and a request is given up
\* after a second.  Nobody is bound to write.
FairSpec == Spec /\ WF_vars(Loop)

----------------------------------------------------------------------------
(* Properties.                                                             *)

Records == (1 .. MaxRings) \X (0 .. MaxHead - 1)

Attached == pc \in {"loop", "flushing"}

\* Types; the buffer that is allocated once is never asked to hold more than
\* the limit and the record that passed it.
TypeOK ==
  /\ writer \in {"down", "clearing", "headed", "up"}
  /\ exists \in BOOLEAN /\ magic \in BOOLEAN
  /\ begun \in 0 .. MaxRings /\ ring \in 0 .. begun
  /\ head \in 0 .. MaxHead
  /\ pc \in {"off", "waiting", "attaching", "loop", "flushing"}
  /\ looks \in 0 .. MaxLooks
  /\ seq \in 0 .. MaxHead /\ from \in 0 .. MaxHead
  /\ born \in 0 .. begun
  /\ batch \subseteq Records /\ stored \subseteq Records
  /\ failed \subseteq Records /\ skipped \subseteq Records
  /\ IsFiniteSet(batch)
  /\ Cardinality(batch) <= IF pc = "flushing" THEN BatchLimit + 1 ELSE BatchLimit
  /\ lives \in 0 .. MaxLives

\* The records that have gone anywhere.
Gone == stored \union failed \union skipped \union batch

\* A record that the cursor has passed since the ring was set up is in one
\* place, and in one only: stored, in a batch that failed, waiting in the
\* batch, or passed over by an overlap.  None is lost silently, none sent
\* twice.  (Those below "from" are lost silently: a visualiser that has read
\* one ring waits for the next to catch up with its cursor.)
AccountedOnce ==
  Attached =>
    /\ \A n \in from .. seq - 1 : Record(n) \in Gone
    /\ stored \intersect failed = {}
    /\ batch \intersect (stored \union failed) = {}
    /\ skipped \intersect (batch \union stored \union failed) = {}

\* Whoever attaches while the ring is being created, or after, reads no record
\* of the one that was there before: the magic number goes first and comes
\* back last.
NothingOfTheOld ==
  Attached => \A r \in batch \union stored \union failed : r[1] >= born

\* Every record is settled while the visualiser runs: it reaches InfluxDB, or
\* a batch that failed, or is passed over; also the last one, with nothing
\* behind it to fill the batch.
EachSettled ==
  \A r \in Records :
    (Attached /\ ring = r[1] /\ head > r[2] /\ from <= r[2])
      ~> (r \in stored \union failed \union skipped \/ ring # r[1] \/ ~Attached)

----------------------------------------------------------------------------
(* Why they hold.                                                          *)

\* The header is whole only when it is of the last ring begun.
HeaderInv ==
  /\ magic \/ writer = "up" => ring = begun
  /\ writer = "headed" => ring = begun
  /\ writer = "clearing" => ring < begun /\ ~magic
  /\ writer # "down" => begun > 0
  /\ head > 0 => ring > 0

\* The record at the cursor, and every later one, has gone nowhere yet.
CursorInv ==
  /\ ~Attached => seq = 0 /\ batch = {}
  /\ pc \in {"waiting", "attaching"} => Gone = {}
  /\ pc = "waiting" => looks < MaxLooks
  /\ Attached => /\ born <= ring
                 /\ \A r \in Gone : r[1] <= ring /\ (r[1] = ring => r[2] < seq)

IInv == TypeOK /\ HeaderInv /\ CursorInv /\ AccountedOnce /\ NothingOfTheOld

=============================================================================
