------------------------------ MODULE ShmRing ------------------------------
(***************************************************************************)
(* The memory-mapped ring of crates/shm-ring-buffer: one producer, any     *)
(* number of consumers, no locks.  The mapping is a row of SLOT_SIZE       *)
(* units; unit 0 holds the header (magic_num, head), the slots follow.     *)
(*                                                                         *)
(* A slot is stored and copied piecewise: Parts are the pieces that move   *)
(* indivisibly (timestamp, len, words of data), in any order, because      *)
(* neither write() nor ptr::read orders them.  Loads and stores of head    *)
(* are ordered against them (Release, Acquire, the fence), so the steps    *)
(* interleave as x86 lets them.                                            *)
(*                                                                         *)
(* A piece is abstracted to the write that stored it: the era (which       *)
(* create_producer call) and the sequence number.                          *)
(*                                                                         *)
(* create_producer works on the file that the last producer left, while    *)
(* consumers go on reading it: it writes a zero to the first byte of every *)
(* page, then resets head, then stores magic_num.                          *)
(***************************************************************************)
EXTENDS Integers

CONSTANTS
  Units,     \* SLOT_SIZE units in the mapping: size_to_power_of_two / 64
  PageUnits, \* units in a page: 4096 / 64
  Parts,     \* the pieces of a Slot
  Stamp,     \* the one with its first byte: the timestamp
  Polite,    \* consumers that resynchronise when overrun (visualiser)
  Strict,    \* consumers that panic when overrun (live engine)
  MaxHead,   \* bound: messages written in one era
  MaxEra     \* bound: times that head is reset

Consumers == Polite \union Strict

ASSUME UnitsAssumption == Units \in Nat /\ Units > 1
ASSUME PageAssumption == PageUnits \in Nat \ {0}
ASSUME PartsAssumption == Stamp \in Parts
ASSUME BoundAssumption == MaxHead \in Nat /\ MaxEra \in Nat \ {0}

VARIABLES
  stage,     \* the producer process: "down", in create_producer before and
             \* after it resets head ("touching", "reset"), or "up"
  magic,     \* header.magic_num is MAGIC_NUM
  touched,   \* slots of this era whose first byte create_producer zeroed
  era,       \* how often head was reset
  head,      \* header.head: messages published in this era
  slots,     \* the slots that lie inside the mapping
  unstored,  \* pieces write() has still to store, or never will if it
             \* was cut short by a crash; Parts between two calls
  mode,      \* where each consumer is in its loop
  seq,       \* each consumer's consumer_sequence_num
  began,     \* era in which the current read() loaded head_start, or 0
  left,      \* pieces the current read() has still to copy
  copy,      \* slot_copy
  got        \* the last ReadResult, the cursor and head it was about, and the
             \* eras in which read() began its copy and ended

createVars == <<stage, magic, touched>>
ringVars == <<createVars, era, head, slots, unstored>>
readVars == <<mode, seq, began, left, copy, got>>
vars == <<ringVars, readVars>>

----------------------------------------------------------------------------
(* Geometry of the mapping.                                                *)

Capacity == Units

Index(n) == n % Capacity

\* offset = SLOT_SIZE + index * SLOT_SIZE, in units.
Unit(n) == 1 + Index(n)

\* The slot of sequence number n lies inside the mapping.
InFile(n) == Unit(n) < Units

FileSlots == {i \in 0 .. Capacity - 1 : 1 + i < Units}

\* The slots that begin a page: create_producer writes to their first byte.
PageSlots == {i \in FileSlots : (1 + i) % PageUnits = 0}

Tag == [era : Nat, n : Nat]
Msg(e, n) == [era |-> e, n |-> n]
Blank == Msg(0, 0)                     \* the file is born zero-filled
Foreign == Msg(0, 1)                   \* whatever lies beyond the mapping
Zeroed == Msg(0, 2)                    \* a timestamp that lost its first byte
NoCopy == [p \in Parts |-> Blank]
Whole(e, n) == [p \in Parts |-> Msg(e, n)]

\* No read has returned since the current one began, or ever.
NoResult == [kind |-> "None", seq |-> 0, at |-> 0, era |-> 0, ended |-> 0,
             touched |-> FALSE, copy |-> NoCopy]

\* What is left of message m in piece p of slot i.
Kept(i, p, m) == IF i \in touched /\ p = Stamp THEN Zeroed ELSE m

----------------------------------------------------------------------------
(* The decisions of read().                                                *)

\* Bugs of the arithmetic below that the properties must notice.
LappedLate(s, h) == h - s > Capacity + 1
OldestAsHead(h) == h
GateOffByOne(s, h) == IF s > h THEN "Empty" ELSE "Copy"
ResumeStuck(c, kind, s, h) == IF kind = "Success" THEN s + 1 ELSE s

\* The producer is more than a whole ring ahead of cursor s.
Lapped(s, h) == h - s > Capacity

\* The oldest message that the ring still holds.
Oldest(h) == h - Capacity

\* What read() decides from head_start; the second test is never reached.
Gate(s, h) ==
  IF s >= h THEN "Empty"
  ELSE IF h < s THEN "Reset"
  ELSE IF Lapped(s, h) THEN "Overlapped"
  ELSE "Copy"

\* What it decides from head_end once the slot is copied.
Verdict(s, h) == IF Lapped(s, h) THEN "Interrupted" ELSE "Success"

\* The cursor its caller goes on with.
Resume(c, kind, s, h) ==
  CASE kind = "Success" -> s + 1
    [] kind = "Reset" /\ c \notin Strict -> 0
    [] kind \in {"Overlapped", "Interrupted"} /\ c \notin Strict -> Oldest(h)
    [] OTHER -> s

\* The callers: ShmGateway::poll_confirmed_orders panics where the
\* visualiser's loop goes on.
Panics(c, kind) == c \in Strict /\ kind \notin {"Success", "Empty"}

----------------------------------------------------------------------------
(* The producer.                                                           *)

Init ==
  /\ stage = "up"
  /\ magic = TRUE
  /\ touched = {}
  /\ era = 1
  /\ head = 0
  /\ slots = [i \in FileSlots |-> NoCopy]
  /\ unstored = Parts
  /\ mode = [c \in Consumers |-> "off"]
  /\ seq = [c \in Consumers |-> 0]
  /\ began = [c \in Consumers |-> 0]
  /\ left = [c \in Consumers |-> Parts]
  /\ copy = [c \in Consumers |-> NoCopy]
  /\ got = [c \in Consumers |-> NoResult]

\* write(): one piece of the message reaches the slot of head.
StorePart(p) ==
  /\ stage = "up"
  /\ head < MaxHead
  /\ p \in unstored
  /\ unstored' = unstored \ {p}
  /\ slots' = IF InFile(head)
              THEN [slots EXCEPT ![Index(head)][p] = Msg(era, head)]
              ELSE slots
  /\ UNCHANGED <<createVars, era, head, readVars>>

\* write() that publishes before the slot is complete.
PublishEarly ==
  /\ stage = "up"
  /\ unstored # Parts
  /\ head' = head + 1
  /\ unstored' = Parts
  /\ UNCHANGED <<createVars, era, slots, readVars>>

\* write(): head.store(current_head_pos + 1, Release).
Publish ==
  /\ stage = "up"
  /\ unstored = {}
  /\ head' = head + 1
  /\ unstored' = Parts
  /\ UNCHANGED <<createVars, era, slots, readVars>>

\* The producer process ends, between any two stores: it is killed, or its
\* store beyond the mapping faults.
Crash ==
  /\ stage # "down"
  /\ stage' = "down"
  /\ UNCHANGED <<magic, touched, era, head, slots, unstored, readVars>>

\* create_producer on the file that the previous era left in /dev/shm; the
\* first page begins with magic_num.
CreateProducer ==
  /\ stage = "down"
  /\ era < MaxEra
  /\ stage' = "touching"
  /\ magic' = FALSE
  /\ UNCHANGED <<touched, era, head, slots, unstored, readVars>>

\* create_producer: the next page; what one that did not finish has already
\* zeroed stays as it is.
TouchPage(i) ==
  /\ stage = "touching"
  /\ i \notin touched
  /\ \A j \in PageSlots : j < i => j \in touched
  /\ touched' = touched \union {i}
  /\ slots' = [slots EXCEPT ![i][Stamp] = Zeroed]
  /\ UNCHANGED <<stage, magic, era, head, unstored, readVars>>

\* create_producer: header.head.store(0).
ResetHead ==
  /\ stage = "touching"
  /\ PageSlots \subseteq touched
  /\ stage' = "reset"
  /\ touched' = {}
  /\ era' = era + 1
  /\ head' = 0
  /\ unstored' = Parts
  /\ UNCHANGED <<magic, slots, readVars>>

\* create_producer: header.magic_num.store(MAGIC_NUM).
StoreMagic ==
  /\ stage = "reset"
  /\ stage' = "up"
  /\ magic' = TRUE
  /\ UNCHANGED <<touched, era, head, slots, unstored, readVars>>

----------------------------------------------------------------------------
(* A consumer.                                                             *)

\* A consumer process starts, or starts again: create_consumer, and the
\* caller's sequence number set to zero.  Without the magic number there is
\* no consumer: its caller ends or tries again.
Attach(c) ==
  /\ magic
  /\ mode[c] \in {"off", "dead"}
  /\ mode' = [mode EXCEPT ![c] = "idle"]
  /\ seq' = [seq EXCEPT ![c] = 0]
  /\ got' = [got EXCEPT ![c] = NoResult]
  /\ UNCHANGED <<ringVars, began, left, copy>>

\* read() returns kind, having last seen head h, to the caller's loop.
Return(c, kind, h) ==
  /\ got' = [got EXCEPT ![c] =
       [kind |-> kind, seq |-> seq[c], at |-> h, era |-> began[c],
        ended |-> era,
        touched |-> kind = "Success" /\ Index(seq[c]) \in touched,
        copy |-> IF kind = "Success" THEN copy[c] ELSE NoCopy]]
  /\ seq' = [seq EXCEPT ![c] = Resume(c, kind, seq[c], h)]
  /\ mode' = [mode EXCEPT ![c] = IF Panics(c, kind) THEN "dead" ELSE "idle"]
  /\ began' = [began EXCEPT ![c] = 0]
  /\ left' = [left EXCEPT ![c] = Parts]
  /\ copy' = [copy EXCEPT ![c] = NoCopy]
  /\ UNCHANGED ringVars

\* read(): head_start and the early returns, or the copy begins.
ReadBegin(c) ==
  /\ mode[c] = "idle"
  /\ LET gate == Gate(seq[c], head) IN
       IF gate = "Copy"
       THEN /\ mode' = [mode EXCEPT ![c] = "copying"]
            /\ began' = [began EXCEPT ![c] = era]
            /\ got' = [got EXCEPT ![c] = NoResult]
            /\ UNCHANGED <<ringVars, seq, left, copy>>
       ELSE Return(c, gate, head)

\* read(): one piece of the slot is copied.
CopyPart(c, p) ==
  /\ mode[c] = "copying"
  /\ p \in left[c]
  /\ left' = [left EXCEPT ![c] = @ \ {p}]
  /\ copy' = [copy EXCEPT ![c][p] = IF InFile(seq[c])
                                    THEN slots[Index(seq[c])][p]
                                    ELSE Foreign]
  /\ UNCHANGED <<ringVars, mode, seq, began, got>>

\* read(): the fence, head_end and the final return.
ReadEnd(c) ==
  /\ mode[c] = "copying"
  /\ left[c] = {}
  /\ Return(c, Verdict(seq[c], head), head)

\* The consumer process ends: killed, or its copy beyond the mapping faults.
Die(c) ==
  /\ mode[c] \in {"idle", "copying"}
  /\ mode' = [mode EXCEPT ![c] = "dead"]
  /\ began' = [began EXCEPT ![c] = 0]
  /\ left' = [left EXCEPT ![c] = Parts]
  /\ copy' = [copy EXCEPT ![c] = NoCopy]
  /\ got' = [got EXCEPT ![c] = NoResult]
  /\ UNCHANGED <<ringVars, seq>>

----------------------------------------------------------------------------

Creation == CreateProducer \/ (\E i \in PageSlots : TouchPage(i)) \/ ResetHead \/ StoreMagic

Producer == (\E p \in Parts : StorePart(p)) \/ Publish \/ Crash \/ Creation

Read(c) == ReadBegin(c) \/ (\E p \in Parts : CopyPart(c, p)) \/ ReadEnd(c)

Next == Producer \/ (\E c \in Consumers : Attach(c) \/ Read(c) \/ Die(c))

Spec == Init /\ [][Next]_vars

\* A consumer's loop has no exit and its core is its own, so a read that can
\* take a step takes one; nobody promises that the producer writes.
FairSpec == Spec /\ \A c \in Consumers : WF_vars(Read(c))

----------------------------------------------------------------------------
(* Properties.                                                             *)

Results == {"None", "Empty", "Reset", "Overlapped", "Interrupted", "Success"}

\* Types, and the two bounds that need an argument: head never passes
\* MaxHead, and no read() takes a cursor past what was ever published.
TypeOK ==
  /\ stage \in {"down", "touching", "reset", "up"}
  /\ magic \in BOOLEAN
  /\ touched \subseteq PageSlots
  /\ era \in 1 .. MaxEra
  /\ head \in 0 .. MaxHead
  /\ slots \in [FileSlots -> [Parts -> Tag]]
  /\ unstored \in SUBSET Parts
  /\ mode \in [Consumers -> {"off", "idle", "copying", "dead"}]
  /\ seq \in [Consumers -> 0 .. MaxHead]
  /\ began \in [Consumers -> 0 .. MaxEra]
  /\ left \in [Consumers -> SUBSET Parts]
  /\ copy \in [Consumers -> [Parts -> Tag]]
  /\ got \in [Consumers -> [kind : Results, seq : 0 .. MaxHead,
                            at : 0 .. MaxHead, era : 0 .. MaxEra,
                            ended : 0 .. MaxEra, touched : BOOLEAN, copy : [Parts -> Tag]]]

\* What makes head - capacity "the oldest valid message" that an overrun
\* consumer jumps to: every message of the last lap that has a slot in the
\* mapping is complete there, save the oldest while write() replaces it (or
\* for good, when the producer dies in the middle of that) -- but for the
\* timestamps that a create_producer which has not come to head yet, and may
\* never come to it, has zeroed.
Retained ==
  \A n \in 0 .. head - 1 :
    /\ InFile(n)
    /\ head - n <= Capacity
    /\ ~(head - n = Capacity /\ unstored # Parts)
    => slots[Index(n)] = [p \in Parts |-> Kept(Index(n), p, Msg(era, n))]

\* What a Success of read() is worth.  Unless head was reset during the copy,
\* each piece returned is the message asked for, or the very next one written
\* to that slot -- and that only when the producer stood exactly one ring
\* ahead, the case that the two capacity tests let through -- or the timestamp
\* of a slot that begins a page, zeroed by a create_producer on its way to
\* reset head: nothing tells a consumer that has attached before.
BoundedTear ==
  \A c \in Consumers :
    LET g == got[c] IN
      g.kind = "Success" /\ g.era = g.ended /\ InFile(g.seq) =>
        \A p \in Parts :
          \/ g.copy[p] = Msg(g.era, g.seq)
          \/ g.at = g.seq + Capacity /\ g.copy[p] = Msg(g.era, g.seq + Capacity)
          \/ g.touched /\ p = Stamp /\ g.copy[p] = Zeroed

\* The comment at lib.rs:214 and the Interrupted variant: a copy that the
\* producer overlapped is not returned as a Success.
SuccessIsWhole ==
  \A c \in Consumers :
    LET g == got[c] IN
      g.kind = "Success" /\ g.era = g.ended /\ InFile(g.seq) =>
        g.copy = Whole(g.era, g.seq)

\* The comment at lib.rs:184: a consumer whose cursor is beyond head learns
\* from Reset that the producer restarted.
StaleSeqIsReset ==
  \A c \in Consumers : got[c].kind # "None" /\ got[c].seq > got[c].at
                       => got[c].kind = "Reset"

\* The mask at main.cpp:62 and lib.rs:109: a masked index names a slot of the
\* mapping that was allocated.
WritesInsideMapping == unstored # Parts => InFile(head)

\* c runs and has message n of this era before it: its cursor has not come to
\* n, and it is not in the middle of a copy begun in an earlier era.
Facing(c, n) ==
  /\ mode[c] \in {"idle", "copying"}
  /\ seq[c] <= n
  /\ began[c] \in {0, era}

\* c has just been given n, or has just been told of an overrun that took it
\* from n, or from before n, past it.
GotPast(c, n) ==
  \/ got[c].kind = "Success" /\ got[c].seq = n /\ got[c].era = era
  \/ got[c].kind \in {"Overlapped", "Interrupted"} /\ got[c].seq <= n /\ n < seq[c]

\* A message that a running consumer has before it is in the end delivered to
\* it, or passed over by an overrun that it is told of, unless the consumer
\* ends or the ring is created anew: none is stuck before a message that the
\* ring has gone past.  After a re-creation a consumer has the messages from
\* its old cursor on before it.  Of those below the cursor, which it neither
\* reads nor is told of (StaleSeqIsReset), nothing is claimed.
Settled ==
  \A c \in Consumers, e \in 1 .. MaxEra, n \in 0 .. MaxHead - 1 :
    (era = e /\ head > n /\ Facing(c, n)) ~> (GotPast(c, n) \/ mode[c] = "dead" \/ era # e)

----------------------------------------------------------------------------
(* Why Retained and BoundedTear hold: the invariant that is inductive.     *)

\* A slot keeps the last message written to it until write() replaces it,
\* and then keeps of it the pieces not yet stored.
SlotInv ==
  \A n \in 0 .. head - 1, p \in Parts :
    /\ head <= n + Capacity
    /\ InFile(n)
    /\ head = n + Capacity => p \in unstored
    => slots[Index(n)][p] = Kept(Index(n), p, Msg(era, n))

\* The pieces that write() has stored so far.
WriteInv ==
  \A p \in Parts \ unstored :
    InFile(head) => slots[Index(head)][p] = Kept(Index(head), p, Msg(era, head))

\* A copy in the making is of the message asked for, as long as the producer
\* has not lapped the reader.
CopyInv ==
  \A c \in Consumers :
    mode[c] = "copying" /\ began[c] = era =>
      /\ seq[c] < head
      /\ InFile(seq[c]) =>
           \A p \in Parts \ left[c] :
             \/ copy[c][p] = Msg(era, seq[c])
             \/ head >= seq[c] + Capacity /\ copy[c][p] = Msg(era, seq[c] + Capacity)
             \/ head > seq[c] + Capacity
             \/ Index(seq[c]) \in touched /\ p = Stamp /\ copy[c][p] = Zeroed

\* No slot is zeroed but between two producers.
TouchInv == touched # {} => stage \in {"down", "touching"}

\* A read cannot have begun in an era still to come; the bounds leave room
\* for the message being written, for the one being read and for the next
\* era; a consumer that is not copying has everything still to copy.
RoomInv ==
  /\ stage = "touching" => era < MaxEra
  /\ unstored # Parts => head < MaxHead
  /\ \A c \in Consumers :
       /\ began[c] <= era
       /\ mode[c] = "copying" => seq[c] < MaxHead
       /\ mode[c] # "copying" => left[c] = Parts

IInv ==
  TypeOK /\ TouchInv /\ SlotInv /\ WriteInv /\ CopyInv /\ RoomInv /\ BoundedTear

----------------------------------------------------------------------------
(* The abstract log that the ring implements (BroadcastLog).               *)

\* Readers whose copy straddles a re-creation of the ring.
Straddling == {c \in Consumers : mode[c] = "copying" /\ began[c] # era}

Delivered(c) ==
  LET g == got[c] IN
    CASE g.kind = "Success" -> [what |-> "message", n |-> g.seq, parts |-> g.copy]
      [] g.kind = "Empty" -> [what |-> "caught up", n |-> 0, parts |-> NoCopy]
      [] OTHER -> [what |-> "nothing", n |-> 0, parts |-> NoCopy]

Abs == INSTANCE BroadcastLog WITH
         Window <- Capacity,
         Holes <- (0 .. Capacity - 1) \ FileSlots,
         Fragile <- {Stamp},
         Readers <- Consumers,
         published <- head,
         damaged <- touched,
         cursor <- seq,
         straddling <- Straddling,
         delivered <- [c \in Consumers |-> Delivered(c)]

Log == Abs!Spec

=============================================================================
