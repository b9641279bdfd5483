-------------------------- MODULE ShmRing_proofs --------------------------
(***************************************************************************)
(* Proofs about ShmRing, for every size of the ring, every number of       *)
(* pieces, consumers, messages and eras.                                   *)
(***************************************************************************)
EXTENDS ShmRing, WrapLemmas, TLAPS

----------------------------------------------------------------------------
(* Geometry.                                                               *)

LEMMA CapacityType == Capacity \in Nat /\ Capacity > 1
  BY UnitsAssumption DEF Capacity

\* A message inside the mapping has a slot there.
LEMMA IndexType ==
  ASSUME NEW n \in Nat
  PROVE  Index(n) \in 0 .. Capacity - 1 /\ (InFile(n) => Index(n) \in FileSlots)
  BY CapacityType, DivMod DEF Index, InFile, Unit, FileSlots

\* Of the last lap only the oldest message shares its slot with the next one.
LEMMA IndexLap ==
  ASSUME NEW n \in Nat, NEW h \in Nat, n < h, h <= n + Capacity
  PROVE  Index(n) = Index(h) <=> h = n + Capacity
<1>0. Capacity \in Nat /\ Capacity > 0
  BY CapacityType
<1>1. CASE h = n + Capacity
  <2>1. ((n + Capacity) % Capacity) = (n % Capacity)
    BY <1>0, NextLap, Zenon
  <2> QED BY <1>1, <2>1 DEF Index
<1>2. CASE h # n + Capacity
  <2>1. n <= h /\ h - n < Capacity
    BY <1>0, <1>2
  <2>2. (n % Capacity) # (h % Capacity)
    <3>1. n # h
      OBVIOUS
    <3> QED BY <1>0, <2>1, <3>1, SameSlot, Zenon
  <2> QED BY <1>2, <2>2 DEF Index
<1> QED BY <1>1, <1>2

LEMMA MsgType == ASSUME NEW e \in Nat, NEW n \in Nat PROVE Msg(e, n) \in Tag
  BY DEF Msg, Tag

----------------------------------------------------------------------------
(* Types.                                                                  *)

LEMMA TypeInit == Init => TypeOK /\ RoomInv
<1> SUFFICES ASSUME Init PROVE TypeOK /\ RoomInv
  OBVIOUS
<1>1. NoCopy \in [Parts -> Tag]
  BY MsgType DEF NoCopy, Blank
<1>2. NoResult \in [kind : Results, seq : 0 .. MaxHead, at : 0 .. MaxHead,
                    era : 0 .. MaxEra, ended : 0 .. MaxEra, touched : BOOLEAN,
                    copy : [Parts -> Tag]]
  BY <1>1, BoundAssumption DEF NoResult, Results
<1> QED BY <1>1, <1>2, BoundAssumption DEF Init, TypeOK, RoomInv

\* A read() that returns leaves everything well typed.
LEMMA TypeReturn ==
  ASSUME TypeOK, RoomInv, NEW c \in Consumers, NEW kind \in Results \ {"None"},
         Return(c, kind, head),
         kind = "Success" => seq[c] < MaxHead,
         kind \in {"Overlapped", "Interrupted"} => Lapped(seq[c], head)
  PROVE  TypeOK' /\ RoomInv'
<1>1. Resume(c, kind, seq[c], head) \in 0 .. MaxHead
  <2>1. seq[c] \in 0 .. MaxHead /\ head \in 0 .. MaxHead
    BY DEF TypeOK
  <2>2. kind = "Success" => seq[c] + 1 \in 0 .. MaxHead
    BY <2>1, BoundAssumption
  <2>3. kind \in {"Overlapped", "Interrupted"} => Oldest(head) \in 0 .. MaxHead
    BY <2>1, CapacityType, BoundAssumption DEF Lapped, Oldest
  <2>4. kind \in {"Success", "Empty", "Reset", "Overlapped", "Interrupted"}
    BY DEF Results
  <2> QED BY <2>1, <2>2, <2>3, <2>4, BoundAssumption DEF Resume
<1>2. NoCopy \in [Parts -> Tag]
  BY MsgType DEF NoCopy, Blank
<1>3. got'[c] \in [kind : Results, seq : 0 .. MaxHead, at : 0 .. MaxHead,
                   era : 0 .. MaxEra, ended : 0 .. MaxEra, touched : BOOLEAN,
                   copy : [Parts -> Tag]]
  BY <1>2 DEF Return, TypeOK
<1>4. TypeOK'
  BY <1>1, <1>2, <1>3, BoundAssumption DEF TypeOK, Return, ringVars, createVars
<1>5. RoomInv'
  BY DEF TypeOK, RoomInv, Return, ringVars, createVars
<1> QED BY <1>4, <1>5

LEMMA TypeStep == TypeOK /\ RoomInv /\ [Next]_vars => TypeOK' /\ RoomInv'
<1> SUFFICES ASSUME TypeOK, RoomInv, [Next]_vars PROVE TypeOK' /\ RoomInv'
  OBVIOUS
<1> USE BoundAssumption
<1>1. ASSUME NEW p \in Parts, StorePart(p) PROVE TypeOK' /\ RoomInv'
  <2>1. era \in Nat /\ head \in Nat
    BY DEF TypeOK
  <2>2. slots' \in [FileSlots -> [Parts -> Tag]]
    BY <1>1, <2>1, MsgType, IndexType DEF StorePart, TypeOK
  <2> QED BY <1>1, <2>2 DEF TypeOK, RoomInv, StorePart, readVars, createVars
<1>2. CASE Publish
  BY <1>2, PartsAssumption DEF TypeOK, RoomInv, Publish, readVars, createVars
<1>3. CASE Crash
  BY <1>3 DEF TypeOK, RoomInv, Crash, readVars
<1>4. CASE Creation
  <2>1. CASE CreateProducer
    BY <2>1 DEF TypeOK, RoomInv, CreateProducer, readVars
  <2>2. ASSUME NEW i \in PageSlots, TouchPage(i) PROVE TypeOK' /\ RoomInv'
    <3>1. i \in FileSlots /\ Zeroed \in Tag
      BY MsgType DEF PageSlots, Zeroed
    <3>2. slots' \in [FileSlots -> [Parts -> Tag]]
      BY <2>2, <3>1, PartsAssumption DEF TouchPage, TypeOK
    <3> QED BY <2>2, <3>2 DEF TypeOK, RoomInv, TouchPage, readVars
  <2>3. CASE ResetHead
    BY <2>3 DEF TypeOK, RoomInv, ResetHead, readVars
  <2>4. CASE StoreMagic
    BY <2>4 DEF TypeOK, RoomInv, StoreMagic, readVars
  <2> QED BY <1>4, <2>1, <2>2, <2>3, <2>4 DEF Creation
<1>5. NoCopy \in [Parts -> Tag]
  BY MsgType DEF NoCopy, Blank
<1>6. NoResult \in [kind : Results, seq : 0 .. MaxHead, at : 0 .. MaxHead,
                    era : 0 .. MaxEra, ended : 0 .. MaxEra, touched : BOOLEAN,
                    copy : [Parts -> Tag]]
  BY <1>5 DEF NoResult, Results
<1>7. ASSUME NEW c \in Consumers, Attach(c) PROVE TypeOK' /\ RoomInv'
  BY <1>6, <1>7 DEF TypeOK, RoomInv, Attach, ringVars, createVars
<1>8. ASSUME NEW c \in Consumers, ReadBegin(c) PROVE TypeOK' /\ RoomInv'
  <2>1. seq[c] \in 0 .. MaxHead /\ head \in 0 .. MaxHead
    BY DEF TypeOK
  <2>2. CASE Gate(seq[c], head) = "Copy"
    <3>1. seq[c] < MaxHead
      BY <2>1, <2>2 DEF Gate
    <3>2. /\ mode' = [mode EXCEPT ![c] = "copying"]
          /\ began' = [began EXCEPT ![c] = era]
          /\ got' = [got EXCEPT ![c] = NoResult]
          /\ UNCHANGED <<ringVars, seq, left, copy>>
      BY <1>8, <2>2 DEF ReadBegin
    <3>3. /\ began' \in [Consumers -> 0 .. MaxEra]
          /\ mode' \in [Consumers -> {"off", "idle", "copying", "dead"}]
      BY <3>2 DEF TypeOK
    <3>4. TypeOK'
      BY <1>6, <3>2, <3>3 DEF TypeOK, ringVars, createVars
    <3>5. RoomInv'
      BY <3>1, <3>2 DEF TypeOK, RoomInv, ringVars, createVars
    <3> QED BY <3>4, <3>5
  <2>3. CASE Gate(seq[c], head) # "Copy"
    <3> DEFINE kind == Gate(seq[c], head)
    <3>1. Return(c, kind, head)
      BY <1>8, <2>3 DEF ReadBegin
    <3>2. /\ kind \in Results \ {"None"} /\ kind \notin {"Success", "Interrupted"}
          /\ kind = "Overlapped" => Lapped(seq[c], head)
      BY <2>3 DEF Gate, Results
    <3> QED BY <3>1, <3>2, TypeReturn
  <2> QED BY <2>2, <2>3
<1>9. ASSUME NEW c \in Consumers, NEW p \in Parts, CopyPart(c, p)
      PROVE  TypeOK' /\ RoomInv'
  <2>1. seq[c] \in Nat /\ Foreign \in Tag
    BY MsgType DEF TypeOK, Foreign
  <2>2. InFile(seq[c]) => slots[Index(seq[c])][p] \in Tag
    BY <2>1, IndexType DEF TypeOK
  <2>3. copy' \in [Consumers -> [Parts -> Tag]]
    BY <1>9, <2>1, <2>2 DEF TypeOK, CopyPart
  <2>4. left' \in [Consumers -> SUBSET Parts]
    BY <1>9 DEF TypeOK, CopyPart
  <2> QED BY <1>9, <2>3, <2>4 DEF TypeOK, RoomInv, CopyPart, ringVars, createVars
<1>10. ASSUME NEW c \in Consumers, ReadEnd(c) PROVE TypeOK' /\ RoomInv'
  <2> DEFINE kind == Verdict(seq[c], head)
  <2>1. Return(c, kind, head)
    BY <1>10 DEF ReadEnd
  <2>2. /\ kind \in Results \ {"None"}
        /\ kind = "Success" => seq[c] < MaxHead
        /\ kind # "Success" => Lapped(seq[c], head)
    BY <1>10 DEF Verdict, Results, RoomInv, ReadEnd
  <2> QED BY <2>1, <2>2, TypeReturn
<1>11. ASSUME NEW c \in Consumers, Die(c) PROVE TypeOK' /\ RoomInv'
  BY <1>5, <1>6, <1>11 DEF TypeOK, RoomInv, Die, ringVars, createVars
<1>12. CASE UNCHANGED vars
  BY <1>12 DEF TypeOK, RoomInv, vars, ringVars, createVars, readVars
<1> QED BY <1>1, <1>2, <1>3, <1>4, <1>7, <1>8, <1>9, <1>10, <1>11, <1>12
        DEF Next, Producer, Read

----------------------------------------------------------------------------
(* The slots.                                                              *)

\* A slot is zeroed only while no producer writes.
LEMMA TouchStep == TypeOK /\ TouchInv /\ [Next]_vars => TouchInv'
<1> SUFFICES ASSUME TypeOK, TouchInv, [Next]_vars PROVE TouchInv'
  OBVIOUS
<1>1. CASE Creation
  BY <1>1 DEF Creation, CreateProducer, TouchPage, ResetHead, StoreMagic, TouchInv
<1>2. ASSUME NEW p \in Parts, StorePart(p) PROVE TouchInv'
  BY <1>2 DEF StorePart, TouchInv, createVars
<1>3. CASE Publish \/ Crash
  BY <1>3 DEF Publish, Crash, TouchInv, createVars
<1>4. ASSUME NEW c \in Consumers, Attach(c) \/ Read(c) \/ Die(c) PROVE TouchInv'
  <2>1. UNCHANGED ringVars
    BY <1>4 DEF Attach, Read, ReadBegin, CopyPart, ReadEnd, Return, Die
  <2> QED BY <2>1 DEF TouchInv, ringVars, createVars
<1>5. CASE UNCHANGED vars
  BY <1>5 DEF TouchInv, vars, ringVars, createVars
<1> QED BY <1>1, <1>2, <1>3, <1>4, <1>5 DEF Next, Producer

LEMMA SlotStep ==
  TypeOK /\ TouchInv /\ SlotInv /\ WriteInv /\ [Next]_vars => SlotInv' /\ WriteInv'
<1> SUFFICES ASSUME TypeOK, TouchInv, SlotInv, WriteInv, [Next]_vars
             PROVE  SlotInv' /\ WriteInv'
  OBVIOUS
<1>0. era \in Nat /\ head \in Nat /\ Capacity \in Nat /\ Capacity > 1
  BY CapacityType DEF TypeOK
<1>1. ASSUME NEW p \in Parts, StorePart(p) PROVE SlotInv' /\ WriteInv'
  <2>1. /\ unstored' = unstored \ {p} /\ era' = era /\ head' = head
        /\ p \in unstored /\ touched = {} /\ touched' = {}
    BY <1>1 DEF StorePart, TouchInv, createVars
  <2>2. ASSUME NEW i \in FileSlots, NEW q \in Parts
        PROVE  slots'[i][q] = IF InFile(head) /\ i = Index(head) /\ q = p
                              THEN Msg(era, head) ELSE slots[i][q]
    BY <1>1 DEF StorePart, TypeOK
  <2>3. SlotInv'
    <3> SUFFICES ASSUME NEW n \in 0 .. head - 1, NEW q \in Parts,
                        head <= n + Capacity, InFile(n),
                        head = n + Capacity => q \in unstored \ {p}
                 PROVE  slots'[Index(n)][q] = Msg(era, n)
      BY <2>1 DEF SlotInv, InFile, Unit, Index, Kept, Msg
    <3>1. n \in Nat /\ n < head
      BY <1>0
    <3>2. Index(n) \in FileSlots
      BY <3>1, IndexType
    <3>3. slots[Index(n)][q] = Msg(era, n)
      BY <2>1 DEF SlotInv, Kept
    <3>4. ~(Index(n) = Index(head) /\ q = p)
      BY <1>0, <3>1, IndexLap
    <3> QED BY <2>2, <3>2, <3>3, <3>4
  <2>4. WriteInv'
    <3> SUFFICES ASSUME NEW q \in Parts \ (unstored \ {p}), InFile(head)
                 PROVE  slots'[Index(head)][q] = Msg(era, head)
      BY <2>1 DEF WriteInv, InFile, Unit, Index, Kept, Msg
    <3>1. Index(head) \in FileSlots
      BY <1>0, IndexType
    <3> QED BY <2>1, <2>2, <3>1 DEF WriteInv, Kept
  <2> QED BY <2>3, <2>4
<1>2. CASE Publish
  <2>1. /\ unstored = {} /\ unstored' = Parts /\ head' = head + 1
        /\ era' = era /\ slots' = slots /\ touched = {} /\ touched' = {}
    BY <1>2 DEF Publish, TouchInv, createVars
  <2>2. SlotInv'
    <3> SUFFICES ASSUME NEW n \in 0 .. head, NEW q \in Parts,
                        head + 1 <= n + Capacity, InFile(n)
                 PROVE  slots[Index(n)][q] = Msg(era, n)
      BY <1>0, <2>1 DEF SlotInv, InFile, Unit, Index, Kept, Msg
    <3>1. CASE n = head
      BY <2>1, <3>1 DEF WriteInv, Kept
    <3>2. CASE n # head
      BY <1>0, <2>1, <3>2 DEF SlotInv, Kept
    <3> QED BY <3>1, <3>2
  <2> QED BY <2>1, <2>2 DEF WriteInv
<1>3. CASE UNCHANGED <<touched, era, head, slots, unstored>>
  BY <1>3 DEF SlotInv, WriteInv, InFile, Unit, Index, Kept, Msg
<1>4. CASE Creation
  <2>1. CASE ResetHead
    <3>1. head' = 0 /\ unstored' = Parts
      BY <2>1 DEF ResetHead
    <3> QED BY <3>1 DEF SlotInv, WriteInv
  <2>2. CASE CreateProducer \/ StoreMagic
    BY <1>3, <2>2 DEF CreateProducer, StoreMagic
  <2>3. ASSUME NEW i \in PageSlots, TouchPage(i) PROVE SlotInv' /\ WriteInv'
    <3>1. /\ touched' = touched \union {i} /\ UNCHANGED <<era, head, unstored>>
          /\ slots' = [slots EXCEPT ![i][Stamp] = Zeroed]
      BY <2>3 DEF TouchPage
    <3>2. ASSUME NEW j \in FileSlots, NEW q \in Parts, NEW m, slots[j][q] = Kept(j, q, m)
          PROVE  slots'[j][q] = Kept(j, q, m)'
      <4>1. slots'[j][q] = IF j = i /\ q = Stamp THEN Zeroed ELSE slots[j][q]
        BY <3>1, PartsAssumption DEF TypeOK, PageSlots
      <4> QED BY <3>1, <3>2, <4>1 DEF Kept
    <3>3. SlotInv'
      <4> SUFFICES ASSUME NEW n \in 0 .. head - 1, NEW q \in Parts,
                          head <= n + Capacity, InFile(n),
                          head = n + Capacity => q \in unstored
                   PROVE  slots'[Index(n)][q] = Kept(Index(n), q, Msg(era, n))'
        BY <3>1 DEF SlotInv, InFile, Unit, Index, Kept, Msg
      <4>1. n \in Nat
        BY <1>0
      <4>2. Index(n) \in FileSlots
        BY <4>1, IndexType
      <4>3. slots[Index(n)][q] = Kept(Index(n), q, Msg(era, n))
        BY DEF SlotInv
      <4> QED BY <3>1, <3>2, <4>2, <4>3 DEF Kept, Msg, Index
    <3>4. WriteInv'
      <4> SUFFICES ASSUME NEW q \in Parts \ unstored, InFile(head)
                   PROVE  slots'[Index(head)][q] = Kept(Index(head), q, Msg(era, head))'
        BY <3>1 DEF WriteInv, InFile, Unit, Index, Kept, Msg
      <4>1. Index(head) \in FileSlots
        BY <1>0, IndexType
      <4>2. slots[Index(head)][q] = Kept(Index(head), q, Msg(era, head))
        BY DEF WriteInv
      <4> QED BY <3>1, <3>2, <4>1, <4>2 DEF Kept, Msg, Index
    <3> QED BY <3>3, <3>4
  <2> QED BY <1>4, <2>1, <2>2, <2>3 DEF Creation
<1>5. CASE Crash
  BY <1>3, <1>5 DEF Crash
<1>6. ASSUME NEW c \in Consumers, Attach(c) \/ Read(c) \/ Die(c)
      PROVE  UNCHANGED <<touched, era, head, slots, unstored>>
  <2>1. UNCHANGED ringVars
    BY <1>6 DEF Attach, Read, ReadBegin, CopyPart, ReadEnd, Return, Die
  <2> QED BY <2>1 DEF ringVars, createVars
<1>7. CASE UNCHANGED vars
  BY <1>3, <1>7 DEF vars, ringVars, createVars
<1> QED BY <1>1, <1>2, <1>3, <1>4, <1>5, <1>6, <1>7 DEF Next, Producer

\* The last lap, from the invariant of the slots.
LEMMA RetainedHolds == TypeOK /\ SlotInv => Retained
<1> SUFFICES ASSUME TypeOK, SlotInv, NEW n \in 0 .. head - 1,
                    InFile(n), head - n <= Capacity,
                    ~(head - n = Capacity /\ unstored # Parts)
             PROVE  slots[Index(n)] = [p \in Parts |-> Kept(Index(n), p, Msg(era, n))]
  BY DEF Retained
<1>1. n \in Nat /\ head \in Nat /\ Capacity \in Nat
  BY CapacityType DEF TypeOK
<1>2. ASSUME NEW p \in Parts PROVE slots[Index(n)][p] = Kept(Index(n), p, Msg(era, n))
  BY <1>1 DEF SlotInv
<1>3. slots[Index(n)] \in [Parts -> Tag]
  BY <1>1, IndexType DEF TypeOK
<1> QED BY <1>2, <1>3

----------------------------------------------------------------------------
(* The copies.                                                             *)

\* What CopyInv says of consumer c while its copy is in the making.
CopyOf(c) ==
  /\ seq[c] < head
  /\ InFile(seq[c]) =>
       \A p \in Parts \ left[c] :
         \/ copy[c][p] = Msg(era, seq[c])
         \/ head >= seq[c] + Capacity /\ copy[c][p] = Msg(era, seq[c] + Capacity)
         \/ head > seq[c] + Capacity
         \/ Index(seq[c]) \in touched /\ p = Stamp /\ copy[c][p] = Zeroed

\* The producer's steps leave a copy as good as it was: head and touched only
\* grow.
LEMMA CopyKept ==
  ASSUME TypeOK, CopyInv, era' = era, head' \in {head, head + 1},
         touched \subseteq touched', UNCHANGED readVars
  PROVE  CopyInv'
<1> SUFFICES ASSUME NEW c \in Consumers, mode[c] = "copying", began[c] = era
             PROVE  CopyOf(c)'
  BY DEF CopyInv, CopyOf, readVars
<1>1. CopyOf(c)
  BY DEF CopyInv, CopyOf
<1>2. seq[c] \in Nat /\ head \in Nat /\ Capacity \in Nat
  BY CapacityType DEF TypeOK
<1>3. seq' = seq /\ left' = left /\ copy' = copy
  BY DEF readVars
<1> QED BY <1>1, <1>2, <1>3 DEF CopyOf, InFile, Unit, Index, Msg, Zeroed

\* A step of consumer c that leaves it out of a copy disturbs nobody else's.
LEMMA CopyOthers ==
  ASSUME TypeOK, CopyInv, NEW c \in Consumers, era' = era, head' = head,
         touched' = touched, mode'[c] # "copying",
         \A d \in Consumers \ {c} :
           /\ mode'[d] = mode[d] /\ began'[d] = began[d] /\ seq'[d] = seq[d]
           /\ left'[d] = left[d] /\ copy'[d] = copy[d]
  PROVE  CopyInv'
  BY DEF CopyInv, InFile, Unit, Index

LEMMA CopyStep ==
  IInv /\ [Next]_vars => CopyInv'
<1> SUFFICES ASSUME IInv, [Next]_vars PROVE CopyInv'
  OBVIOUS
<1> USE DEF IInv
<1>0. head \in Nat /\ era \in Nat /\ Capacity \in Nat /\ Capacity > 1
  BY CapacityType DEF TypeOK
<1>1. ASSUME NEW p \in Parts, StorePart(p) PROVE CopyInv'
  BY <1>1, CopyKept DEF StorePart, createVars
<1>2. CASE Publish
  BY <1>2, CopyKept DEF Publish, createVars
<1>3. CASE Crash
  BY <1>3, CopyKept DEF Crash
<1>4. CASE Creation
  <2>1. CASE ResetHead
    <3>1. \A c \in Consumers : began'[c] # era'
      BY <1>0, <2>1 DEF ResetHead, readVars, RoomInv, TypeOK
    <3> QED BY <3>1 DEF CopyInv
  <2>2. CASE CreateProducer \/ StoreMagic
    BY <2>2, CopyKept DEF CreateProducer, StoreMagic
  <2>3. ASSUME NEW i \in PageSlots, TouchPage(i) PROVE CopyInv'
    BY <2>3, CopyKept DEF TouchPage
  <2> QED BY <1>4, <2>1, <2>2, <2>3 DEF Creation
<1>5. ASSUME NEW c \in Consumers, Attach(c) PROVE CopyInv'
  <2>1. mode'[c] # "copying"
    BY <1>5 DEF Attach, TypeOK
  <2> QED BY <1>5, <2>1, CopyOthers DEF Attach, ringVars, createVars, TypeOK
<1>6. ASSUME NEW c \in Consumers, NEW kind, Return(c, kind, head) PROVE CopyInv'
  <2>1. mode'[c] # "copying"
    BY <1>6 DEF Return, TypeOK
  <2> QED BY <1>6, <2>1, CopyOthers DEF Return, ringVars, createVars, TypeOK
<1>7. ASSUME NEW c \in Consumers, ReadBegin(c) PROVE CopyInv'
  <2>1. CASE Gate(seq[c], head) # "Copy"
    BY <1>6, <1>7, <2>1 DEF ReadBegin
  <2>2. CASE Gate(seq[c], head) = "Copy"
    <3>1. /\ mode' = [mode EXCEPT ![c] = "copying"]
          /\ began' = [began EXCEPT ![c] = era]
          /\ UNCHANGED <<ringVars, seq, left, copy>>
          /\ mode[c] = "idle"
      BY <1>7, <2>2 DEF ReadBegin
    <3>2. seq[c] < head
      BY <1>0, <2>2 DEF Gate, TypeOK
    <3>3. left[c] = Parts
      BY <3>1 DEF RoomInv
    <3> QED BY <3>1, <3>2, <3>3 DEF CopyInv, ringVars, createVars, TypeOK, InFile, Unit, Index
  <2> QED BY <2>1, <2>2
<1>8. ASSUME NEW c \in Consumers, NEW p \in Parts, CopyPart(c, p) PROVE CopyInv'
  <2>1. /\ UNCHANGED <<touched, era, head, slots, unstored, mode, seq, began>>
        /\ left' = [left EXCEPT ![c] = @ \ {p}]
        /\ p \in left[c] /\ mode[c] = "copying"
        /\ copy' = [copy EXCEPT ![c][p] = IF InFile(seq[c])
                                          THEN slots[Index(seq[c])][p]
                                          ELSE Foreign]
    BY <1>8 DEF CopyPart, ringVars, createVars
  <2>2. SUFFICES ASSUME NEW d \in Consumers, mode[d] = "copying", began[d] = era
                 PROVE  CopyOf(d)'
    BY <2>1 DEF CopyInv, CopyOf
  <2>3. CopyOf(d)
    BY <2>2 DEF CopyInv, CopyOf
  <2>4. CASE d # c
    BY <2>1, <2>3, <2>4 DEF CopyOf, TypeOK, InFile, Unit, Index
  <2>5. CASE d = c
    <3>1. seq[c] \in Nat /\ seq[c] < head
      BY <2>3, <2>5 DEF CopyOf, TypeOK
    <3>2. SUFFICES ASSUME InFile(seq[c]), NEW q \in Parts \ (left[c] \ {p})
          PROVE \/ copy'[c][q] = Msg(era, seq[c])
                \/ head >= seq[c] + Capacity
                   /\ copy'[c][q] = Msg(era, seq[c] + Capacity)
                \/ head > seq[c] + Capacity
                \/ Index(seq[c]) \in touched /\ q = Stamp /\ copy'[c][q] = Zeroed
      BY <2>1, <2>5, <3>1 DEF CopyOf, TypeOK, InFile, Unit, Index
    <3>3. CASE q # p
      <4>1. copy'[c][q] = copy[c][q] /\ q \in Parts \ left[c]
        BY <2>1, <3>3 DEF TypeOK
      <4> QED BY <2>3, <2>5, <3>2, <4>1 DEF CopyOf
    <3>4. CASE q = p
      <4>1. copy'[c][p] = slots[Index(seq[c])][p]
        BY <2>1, <3>2 DEF TypeOK
      <4>2. CASE \/ head < seq[c] + Capacity
                 \/ head = seq[c] + Capacity /\ p \in unstored
        <5>1. slots[Index(seq[c])][p] = Kept(Index(seq[c]), p, Msg(era, seq[c]))
          BY <1>0, <3>1, <3>2, <4>2 DEF SlotInv
        <5> QED BY <3>4, <4>1, <5>1 DEF Kept
      <4>3. CASE head = seq[c] + Capacity /\ p \notin unstored
        <5>1. Index(seq[c]) = Index(head)
          BY <1>0, <3>1, <4>3, IndexLap
        <5>2. slots[Index(head)][p] = Kept(Index(head), p, Msg(era, head))
          BY <3>2, <4>3, <5>1 DEF WriteInv, InFile, Unit
        <5> QED BY <1>0, <3>4, <4>1, <4>3, <5>1, <5>2 DEF Kept
      <4>4. CASE head > seq[c] + Capacity
        BY <4>4
      <4>5. \/ head < seq[c] + Capacity \/ head = seq[c] + Capacity
            \/ head > seq[c] + Capacity
        BY <1>0, <3>1
      <4> QED BY <4>2, <4>3, <4>4, <4>5
    <3> QED BY <3>3, <3>4
  <2> QED BY <2>4, <2>5
<1>9. ASSUME NEW c \in Consumers, ReadEnd(c) PROVE CopyInv'
  BY <1>6, <1>9 DEF ReadEnd
<1>10. ASSUME NEW c \in Consumers, Die(c) PROVE CopyInv'
  <2>1. mode'[c] # "copying"
    BY <1>10 DEF Die, TypeOK
  <2> QED BY <1>10, <2>1, CopyOthers DEF Die, ringVars, createVars, TypeOK
<1>11. CASE UNCHANGED vars
  BY <1>11, CopyKept DEF vars, ringVars, createVars, readVars
<1> QED BY <1>1, <1>2, <1>3, <1>4, <1>5, <1>7, <1>8, <1>9, <1>10, <1>11
        DEF Next, Producer, Read

----------------------------------------------------------------------------
(* What read() returns.                                                    *)

LEMMA TearStep == IInv /\ [Next]_vars => BoundedTear'
<1> SUFFICES ASSUME IInv, [Next]_vars PROVE BoundedTear'
  OBVIOUS
<1> USE DEF IInv
<1>0. head \in Nat /\ era \in Nat /\ Capacity \in Nat /\ Capacity > 1
  BY CapacityType DEF TypeOK
<1> DEFINE Sound(g) ==
      g.kind = "Success" /\ g.era = g.ended /\ InFile(g.seq) =>
        \A p \in Parts :
          \/ g.copy[p] = Msg(g.era, g.seq)
          \/ g.at = g.seq + Capacity /\ g.copy[p] = Msg(g.era, g.seq + Capacity)
          \/ g.touched /\ p = Stamp /\ g.copy[p] = Zeroed
<1>1. ASSUME NEW c \in Consumers, Sound(got'[c]),
             \A d \in Consumers \ {c} : got'[d] = got[d]
      PROVE  BoundedTear'
  BY <1>1 DEF BoundedTear, InFile, Unit, Index
<1>2. CASE got' = got
  BY <1>2 DEF BoundedTear, InFile, Unit, Index
<1>3. Sound(NoResult)
  BY DEF NoResult
<1>4. ASSUME NEW c \in Consumers, Attach(c) \/ Die(c) PROVE BoundedTear'
  <2>1. got' = [got EXCEPT ![c] = NoResult]
    BY <1>4 DEF Attach, Die
  <2> HIDE DEF Sound
  <2> QED BY <1>1, <1>3, <2>1 DEF TypeOK
<1>5. ASSUME NEW c \in Consumers, NEW kind, kind # "Success", Return(c, kind, head)
      PROVE  BoundedTear'
  <2>1. got'[c].kind = kind /\ \A d \in Consumers \ {c} : got'[d] = got[d]
    BY <1>5 DEF Return, TypeOK
  <2> QED BY <1>1, <1>5, <2>1
<1>6. ASSUME NEW c \in Consumers, ReadBegin(c) PROVE BoundedTear'
  <2>1. CASE Gate(seq[c], head) = "Copy"
    <3>1. got' = [got EXCEPT ![c] = NoResult]
      BY <1>6, <2>1 DEF ReadBegin
    <3> HIDE DEF Sound
    <3> QED BY <1>1, <1>3, <3>1 DEF TypeOK
  <2>2. CASE Gate(seq[c], head) # "Copy"
    <3>1. Gate(seq[c], head) # "Success"
      BY DEF Gate
    <3> QED BY <1>5, <1>6, <2>2, <3>1 DEF ReadBegin
  <2> QED BY <2>1, <2>2
<1>7. ASSUME NEW c \in Consumers, ReadEnd(c) PROVE BoundedTear'
  <2>1. CASE Verdict(seq[c], head) # "Success"
    BY <1>5, <1>7, <2>1 DEF ReadEnd
  <2>2. CASE Verdict(seq[c], head) = "Success"
    <3>1. /\ got' = [got EXCEPT ![c] =
               [kind |-> "Success", seq |-> seq[c], at |-> head, era |-> began[c],
                ended |-> era, touched |-> Index(seq[c]) \in touched,
                copy |-> copy[c]]]
          /\ mode[c] = "copying" /\ left[c] = {}
      BY <1>7, <2>2 DEF ReadEnd, Return
    <3>2. seq[c] \in Nat /\ head <= seq[c] + Capacity
      BY <1>0, <2>2 DEF Verdict, Lapped, TypeOK
    <3>3. ASSUME began[c] = era, InFile(seq[c]), NEW p \in Parts
          PROVE  \/ copy[c][p] = Msg(era, seq[c])
                 \/ head = seq[c] + Capacity /\ copy[c][p] = Msg(era, seq[c] + Capacity)
                 \/ Index(seq[c]) \in touched /\ p = Stamp /\ copy[c][p] = Zeroed
      <4>1. \/ copy[c][p] = Msg(era, seq[c])
            \/ head >= seq[c] + Capacity /\ copy[c][p] = Msg(era, seq[c] + Capacity)
            \/ head > seq[c] + Capacity
            \/ Index(seq[c]) \in touched /\ p = Stamp /\ copy[c][p] = Zeroed
        BY <3>1, <3>3 DEF CopyInv
      <4> QED BY <1>0, <3>2, <4>1
    <3>4. got'[c] = [kind |-> "Success", seq |-> seq[c], at |-> head, era |-> began[c],
                     ended |-> era, touched |-> Index(seq[c]) \in touched,
                     copy |-> copy[c]]
      BY <3>1 DEF TypeOK
    <3>5. Sound(got'[c])
      <4>1. /\ got'[c].seq = seq[c] /\ got'[c].at = head /\ got'[c].era = began[c]
            /\ got'[c].copy = copy[c] /\ got'[c].ended = era
            /\ got'[c].touched = (Index(seq[c]) \in touched)
        BY <3>4
      <4> QED BY <3>3, <4>1
    <3>6. \A d \in Consumers \ {c} : got'[d] = got[d]
      BY <3>1 DEF TypeOK
    <3> HIDE DEF Sound
    <3> QED BY <1>1, <3>5, <3>6
  <2> QED BY <2>1, <2>2
<1>8. ASSUME NEW p \in Parts, StorePart(p) PROVE BoundedTear'
  BY <1>2, <1>8 DEF StorePart, readVars
<1>9. CASE Publish \/ Crash \/ Creation
  BY <1>2, <1>9
     DEF Publish, Crash, Creation, CreateProducer, TouchPage, ResetHead, StoreMagic, readVars
<1>10. ASSUME NEW c \in Consumers, NEW p \in Parts, CopyPart(c, p) PROVE BoundedTear'
  BY <1>2, <1>10 DEF CopyPart
<1>11. CASE UNCHANGED vars
  BY <1>2, <1>11 DEF vars, readVars
<1> QED BY <1>4, <1>6, <1>7, <1>8, <1>9, <1>10, <1>11 DEF Next, Producer, Read

----------------------------------------------------------------------------
(* The theorems.                                                           *)

LEMMA Inductive == Init => IInv
<1> SUFFICES ASSUME Init PROVE IInv
  OBVIOUS
<1>1. TouchInv /\ SlotInv /\ WriteInv /\ CopyInv
  BY DEF Init, TouchInv, SlotInv, WriteInv, CopyInv
<1>2. BoundedTear
  BY DEF Init, BoundedTear, NoResult
<1> QED BY <1>1, <1>2, TypeInit DEF IInv

\* The inductive invariant holds in every reachable state.
THEOREM Invariance == Spec => []IInv
<1>1. IInv /\ [Next]_vars => IInv'
  BY TypeStep, TouchStep, SlotStep, CopyStep, TearStep DEF IInv
<1> QED BY Inductive, <1>1, PTL DEF Spec

\* Types, and no cursor or head beyond what was ever published.
THEOREM TypeCorrect == Spec => []TypeOK
<1>1. IInv => TypeOK
  BY DEF IInv
<1> QED BY Invariance, <1>1, PTL

\* The last lap of messages is whole in its slots, so the cursor that
\* Overlapped and Interrupted hand out is that of the oldest valid message.
THEOREM LastLapRetained == Spec => []Retained
<1>1. IInv => Retained
  BY RetainedHolds DEF IInv
<1> QED BY Invariance, <1>1, PTL

\* What a Success may be mixed with, and when.
THEOREM TearIsBounded == Spec => []BoundedTear
<1>1. IInv => BoundedTear
  BY DEF IInv
<1> QED BY Invariance, <1>1, PTL

----------------------------------------------------------------------------
(* The ring implements the abstract log BroadcastLog, under the refinement *)
(* mapping that ShmRing states as Abs.                                     *)

deliveredBar == [c \in Consumers |-> Delivered(c)]
logVars == <<era, head, touched, seq, Straddling, deliveredBar>>

LEMMA LogInit == Init => Abs!Init
<1> SUFFICES ASSUME Init PROVE Abs!Init
  OBVIOUS
<1>1. Straddling = {}
  BY DEF Init, Straddling
<1>2. \A c \in Consumers : Delivered(c) = Abs!Nothing
  BY DEF Init, Delivered, NoResult, Abs!Nothing, Abs!NoParts, NoCopy, Blank, Msg, Abs!Msg
<1> QED BY <1>1, <1>2 DEF Init, Abs!Init

\* Steps that no log variable notices.
LEMMA LogStutter ==
  ASSUME UNCHANGED <<era, head, touched, seq, mode, began, got>>
  PROVE  UNCHANGED logVars
  BY DEF logVars, Straddling, deliveredBar, Delivered

\* Only consumer c moves, and it is not copying afterwards.
LEMMA LogOne ==
  ASSUME TypeOK, NEW c \in Consumers, mode'[c] # "copying",
         UNCHANGED <<era, head>>,
         \A d \in Consumers \ {c} :
           mode'[d] = mode[d] /\ began'[d] = began[d] /\ got'[d] = got[d]
  PROVE  /\ Straddling' = Straddling \ {c}
         /\ deliveredBar' = [deliveredBar EXCEPT ![c] = Delivered(c)']
<1>1. Straddling' = Straddling \ {c}
  BY DEF Straddling
<1>2. \A d \in Consumers \ {c} : Delivered(d)' = Delivered(d)
  BY DEF Delivered
<1>3. deliveredBar' = [deliveredBar EXCEPT ![c] = Delivered(c)']
  BY <1>2 DEF deliveredBar
<1> QED BY <1>1, <1>3

LEMMA NothingBar ==
  ASSUME NEW c \in Consumers, got[c].kind \notin {"Success", "Empty"}
  PROVE  Delivered(c) = Abs!Nothing
  BY DEF Delivered, Abs!Nothing, Abs!NoParts, NoCopy, Blank, Msg, Abs!Msg

\* A read() that returns without a message.
LEMMA LogReturn ==
  ASSUME IInv, NEW c \in Consumers, NEW kind \in {"Empty", "Overlapped", "Interrupted"},
         Return(c, kind, head),
         kind = "Empty" => mode[c] = "idle" /\ seq[c] >= head,
         kind # "Empty" => Lapped(seq[c], head)
  PROVE  Abs!Next
<1>1. /\ mode'[c] # "copying" /\ UNCHANGED <<era, head, touched>>
      /\ seq' = [seq EXCEPT ![c] = Resume(c, kind, seq[c], head)]
      /\ got'[c].kind = kind
      /\ \A d \in Consumers \ {c} :
           mode'[d] = mode[d] /\ began'[d] = began[d] /\ got'[d] = got[d]
  BY DEF Return, IInv, TypeOK, ringVars, createVars
<1>2. /\ Straddling' = Straddling \ {c}
      /\ deliveredBar' = [deliveredBar EXCEPT ![c] = Delivered(c)']
  BY <1>1, LogOne DEF IInv
<1>3. seq[c] \in Nat /\ head \in Nat /\ Capacity \in Nat /\ seq \in [Consumers -> 0 .. MaxHead]
  BY CapacityType DEF IInv, TypeOK
<1>4. CASE kind = "Empty"
  <2>1. Delivered(c)' = Abs!CaughtUp
    BY <1>1, <1>4 DEF Delivered, Abs!CaughtUp, Abs!NoParts, NoCopy, Blank, Msg, Abs!Msg
  <2>2. seq' = seq
    BY <1>1, <1>3, <1>4 DEF Resume
  <2>3. Straddling' = Straddling
    BY <1>2, <1>4 DEF Straddling
  <2>4. Abs!Idle(c)
    BY <1>1, <1>2, <1>4, <2>1, <2>2, <2>3 DEF Abs!Idle, deliveredBar
  <2> QED BY <2>4 DEF Abs!Next
<1>5. CASE kind # "Empty"
  <2>1. Delivered(c)' = Abs!Nothing
    BY <1>1, <1>5 DEF Delivered, Abs!Nothing, Abs!NoParts, NoCopy, Blank, Msg, Abs!Msg
  <2>2. CASE c \in Strict
    <3>1. seq' = seq
      BY <1>1, <1>3, <1>5, <2>2 DEF Resume
    <3>2. Abs!Drop(c)
      BY <1>1, <1>2, <2>1, <3>1 DEF Abs!Drop, deliveredBar
    <3> QED BY <3>2 DEF Abs!Next
  <2>3. CASE c \notin Strict
    <3>1. seq' = [seq EXCEPT ![c] = head - Capacity]
      BY <1>1, <1>5, <2>3 DEF Resume, Oldest
    <3>2. head > seq[c] + Capacity
      BY <1>3, <1>5 DEF Lapped
    <3>3. Abs!Skip(c)
      BY <1>1, <1>2, <2>1, <3>1, <3>2 DEF Abs!Skip, deliveredBar
    <3> QED BY <3>3 DEF Abs!Next
  <2> QED BY <2>2, <2>3
<1> QED BY <1>4, <1>5

\* A read() that returns a message.
LEMMA LogSuccess ==
  ASSUME IInv, NEW c \in Consumers, ReadEnd(c), ~Lapped(seq[c], head)
  PROVE  Abs!Next
<1>1. /\ mode[c] = "copying" /\ left[c] = {}
      /\ mode'[c] # "copying" /\ UNCHANGED <<era, head, touched>>
      /\ seq' = [seq EXCEPT ![c] = @ + 1]
      /\ got'[c].kind = "Success" /\ got'[c].seq = seq[c] /\ got'[c].copy = copy[c]
      /\ \A d \in Consumers \ {c} :
           mode'[d] = mode[d] /\ began'[d] = began[d] /\ got'[d] = got[d]
  <2>1. mode[c] = "copying" /\ left[c] = {} /\ Return(c, "Success", head)
    BY DEF ReadEnd, Verdict
  <2>2. mode' = [mode EXCEPT ![c] = IF Panics(c, "Success") THEN "dead" ELSE "idle"]
    BY <2>1 DEF Return
  <2>3. mode'[c] # "copying"
    BY <2>2 DEF IInv, TypeOK
  <2>4. seq' = [seq EXCEPT ![c] = @ + 1]
    BY <2>1 DEF Return, Resume
  <2>5. /\ UNCHANGED <<era, head, touched>>
        /\ \A d \in Consumers \ {c} : began'[d] = began[d]
    BY <2>1 DEF Return, ringVars, createVars, IInv, TypeOK
  <2>6. /\ got'[c].kind = "Success" /\ got'[c].seq = seq[c] /\ got'[c].copy = copy[c]
        /\ \A d \in Consumers \ {c} : got'[d] = got[d]
    BY <2>1 DEF Return, IInv, TypeOK
  <2>7. \A d \in Consumers \ {c} : mode'[d] = mode[d]
    BY <2>2 DEF IInv, TypeOK
  <2> QED BY <2>1, <2>3, <2>4, <2>5, <2>6, <2>7
<1>2. /\ Straddling' = Straddling \ {c}
      /\ deliveredBar' = [deliveredBar EXCEPT ![c] = Delivered(c)']
  BY <1>1, LogOne DEF IInv
<1>3. Delivered(c)' = [what |-> "message", n |-> seq[c], parts |-> copy[c]]
  BY <1>1 DEF Delivered
<1>4. seq[c] \in Nat /\ head \in Nat /\ Capacity \in Nat /\ head <= seq[c] + Capacity
  BY CapacityType DEF IInv, TypeOK, Lapped
<1>5. c \notin Straddling => began[c] = era
  BY <1>1 DEF Straddling
<1>6. c \in Straddling \/ seq[c] < head
  BY <1>1, <1>5 DEF IInv, CopyInv
<1>7. Abs!Acceptable(c, seq[c], copy[c])
  <2>1. SUFFICES ASSUME c \notin Straddling,
                        (seq[c] % Capacity) \notin (0 .. Capacity - 1) \ FileSlots,
                        NEW p \in Parts
        PROVE  \/ copy[c][p] = Msg(era, seq[c])
               \/ head = seq[c] + Capacity /\ copy[c][p] = Msg(era, seq[c] + Capacity)
               \/ p = Stamp /\ Index(seq[c]) \in touched
    BY DEF Index, Abs!Acceptable, Abs!Msg, Msg
  <2>2. InFile(seq[c])
    BY <1>4, <2>1, CapacityType, IndexType DEF FileSlots, InFile, Unit, Index
  <2>3. \/ copy[c][p] = Msg(era, seq[c])
        \/ head >= seq[c] + Capacity /\ copy[c][p] = Msg(era, seq[c] + Capacity)
        \/ head > seq[c] + Capacity
        \/ Index(seq[c]) \in touched /\ p = Stamp /\ copy[c][p] = Zeroed
    BY <1>1, <1>5, <2>1, <2>2 DEF IInv, CopyInv
  <2> QED BY <1>4, <2>3
<1>8. deliveredBar'[c].parts = copy[c]
  BY <1>2, <1>3 DEF deliveredBar
<1>9. deliveredBar' = [deliveredBar EXCEPT ![c] =
        [what |-> "message", n |-> seq[c], parts |-> deliveredBar'[c].parts]]
  BY <1>2, <1>3, <1>8
<1>10. Abs!Acceptable(c, seq[c], deliveredBar'[c].parts)
  BY <1>7, <1>8
<1>11. Abs!Deliver(c)
  BY <1>1, <1>2, <1>4, <1>6, <1>9, <1>10 DEF Abs!Deliver, deliveredBar
<1> QED BY <1>11 DEF Abs!Next

LEMMA LogStep == IInv /\ [Next]_vars => Abs!Next \/ UNCHANGED logVars
<1> SUFFICES ASSUME IInv, [Next]_vars PROVE Abs!Next \/ UNCHANGED logVars
  OBVIOUS
<1>0. /\ head \in Nat /\ era \in Nat
      /\ \A c \in Consumers : seq[c] \in Nat /\ began[c] \in Nat /\ began[c] <= era
  BY DEF IInv, TypeOK, RoomInv
<1>1. ASSUME NEW p \in Parts, StorePart(p) PROVE UNCHANGED logVars
  BY <1>1, LogStutter DEF StorePart, createVars, readVars
<1>2. CASE Publish
  <2>1. /\ head' = head + 1 /\ touched = {}
        /\ UNCHANGED <<era, touched, seq, Straddling, deliveredBar>>
    BY <1>2 DEF Publish, createVars, readVars, Straddling, deliveredBar, Delivered, IInv, TouchInv
  <2>2. Abs!Append
    BY <2>1 DEF Abs!Append, deliveredBar
  <2> QED BY <2>2 DEF Abs!Next
<1>3. CASE Crash
  BY <1>3, LogStutter DEF Crash, readVars
<1>4. CASE Creation
  <2>1. CASE ResetHead
    <3>1. head' = 0 /\ era' = era + 1 /\ touched' = {} /\ UNCHANGED <<seq, mode, began, got>>
      BY <2>1 DEF ResetHead, readVars
    <3>2. Straddling \subseteq Straddling' /\ Straddling' \in SUBSET Consumers
      BY <1>0, <3>1 DEF Straddling
    <3>3. deliveredBar' = deliveredBar
      BY <3>1 DEF deliveredBar, Delivered
    <3>4. Abs!Reopen
      BY <3>1, <3>2, <3>3 DEF Abs!Reopen, deliveredBar
    <3> QED BY <3>4 DEF Abs!Next
  <2>2. CASE CreateProducer \/ StoreMagic
    BY <2>2, LogStutter DEF CreateProducer, StoreMagic, readVars
  <2>3. ASSUME NEW i \in PageSlots, TouchPage(i) PROVE Abs!Next
    <3>1. touched' = touched \union {i} /\ UNCHANGED <<era, head, seq, mode, began, got>>
      BY <2>3 DEF TouchPage, readVars
    <3>2. UNCHANGED <<Straddling, deliveredBar>>
      BY <3>1 DEF Straddling, deliveredBar, Delivered
    <3>3. Abs!Damage(i)
      BY <3>1, <3>2 DEF Abs!Damage, deliveredBar
    <3>4. i \in 0 .. Capacity - 1
      BY DEF PageSlots, FileSlots
    <3> QED BY <3>3, <3>4 DEF Abs!Next
  <2> QED BY <1>4, <2>1, <2>2, <2>3 DEF Creation
\* The steps that clear the last result of one consumer.
<1>5. ASSUME NEW c \in Consumers, got' = [got EXCEPT ![c] = NoResult],
             \A d \in Consumers \ {c} : mode'[d] = mode[d] /\ began'[d] = began[d],
             UNCHANGED <<era, head>>
      PROVE  /\ deliveredBar' = [deliveredBar EXCEPT ![c] = Abs!Nothing]
             /\ mode'[c] # "copying" \/ began'[c] = era => Straddling' = Straddling \ {c}
  <2>1. got'[c].kind = "None" /\ \A d \in Consumers \ {c} : got'[d] = got[d]
    BY <1>5 DEF NoResult, IInv, TypeOK
  <2>2. Delivered(c)' = Abs!Nothing
    BY <2>1 DEF Delivered, Abs!Nothing, Abs!NoParts, NoCopy, Blank, Msg, Abs!Msg
  <2>3. \A d \in Consumers \ {c} : Delivered(d)' = Delivered(d)
    BY <2>1 DEF Delivered
  <2>4. deliveredBar' = [deliveredBar EXCEPT ![c] = Abs!Nothing]
    BY <2>2, <2>3 DEF deliveredBar
  <2> QED BY <1>5, <2>4 DEF Straddling
<1>6. ASSUME NEW c \in Consumers, Attach(c) PROVE Abs!Next
  <2>1. /\ mode[c] # "copying" /\ mode'[c] # "copying"
        /\ \A d \in Consumers \ {c} : mode'[d] = mode[d] /\ began'[d] = began[d]
        /\ seq' = [seq EXCEPT ![c] = 0] /\ UNCHANGED <<era, head, touched>>
        /\ got' = [got EXCEPT ![c] = NoResult]
    BY <1>6 DEF Attach, ringVars, createVars, IInv, TypeOK
  <2>2. /\ deliveredBar' = [deliveredBar EXCEPT ![c] = Abs!Nothing]
        /\ Straddling' = Straddling \ {c}
    BY <1>5, <2>1
  <2>3. Straddling' = Straddling
    BY <2>1, <2>2 DEF Straddling
  <2>4. Abs!Join(c)
    BY <2>1, <2>2, <2>3 DEF Abs!Join, deliveredBar
  <2> QED BY <2>4 DEF Abs!Next
<1>7. ASSUME NEW c \in Consumers, ReadBegin(c) PROVE Abs!Next
  <2>1. CASE Gate(seq[c], head) = "Copy"
    <3>1. /\ began'[c] = era
          /\ \A d \in Consumers \ {c} : mode'[d] = mode[d] /\ began'[d] = began[d]
          /\ seq' = seq /\ UNCHANGED <<era, head, touched>>
          /\ got' = [got EXCEPT ![c] = NoResult]
      BY <1>7, <2>1 DEF ReadBegin, ringVars, createVars, IInv, TypeOK
    <3>2. /\ deliveredBar' = [deliveredBar EXCEPT ![c] = Abs!Nothing]
          /\ Straddling' = Straddling \ {c}
      BY <1>5, <3>1
    <3>3. Abs!Drop(c)
      BY <3>1, <3>2 DEF Abs!Drop, deliveredBar
    <3> QED BY <3>3 DEF Abs!Next
  <2>2. CASE Gate(seq[c], head) # "Copy"
    <3>1. mode[c] = "idle" /\ Return(c, Gate(seq[c], head), head)
      BY <1>7, <2>2 DEF ReadBegin
    <3>2. \/ Gate(seq[c], head) = "Empty" /\ seq[c] >= head
          \/ Gate(seq[c], head) = "Overlapped" /\ Lapped(seq[c], head)
      BY <1>0, <2>2 DEF Gate
    <3> QED BY <3>1, <3>2, LogReturn
  <2> QED BY <2>1, <2>2
<1>8. ASSUME NEW c \in Consumers, NEW p \in Parts, CopyPart(c, p)
      PROVE  UNCHANGED logVars
  BY <1>8, LogStutter DEF CopyPart, ringVars, createVars
<1>9. ASSUME NEW c \in Consumers, ReadEnd(c) PROVE Abs!Next
  <2>1. CASE Lapped(seq[c], head)
    <3>1. Return(c, "Interrupted", head)
      BY <1>9, <2>1 DEF ReadEnd, Verdict
    <3> QED BY <2>1, <3>1, LogReturn
  <2>2. CASE ~Lapped(seq[c], head)
    BY <1>9, <2>2, LogSuccess
  <2> QED BY <2>1, <2>2
<1>10. ASSUME NEW c \in Consumers, Die(c) PROVE Abs!Next
  <2>1. /\ mode'[c] # "copying"
        /\ \A d \in Consumers \ {c} : mode'[d] = mode[d] /\ began'[d] = began[d]
        /\ seq' = seq /\ UNCHANGED <<era, head, touched>>
        /\ got' = [got EXCEPT ![c] = NoResult]
    BY <1>10 DEF Die, ringVars, createVars, IInv, TypeOK
  <2>2. /\ deliveredBar' = [deliveredBar EXCEPT ![c] = Abs!Nothing]
        /\ Straddling' = Straddling \ {c}
    BY <1>5, <2>1
  <2>3. Abs!Drop(c)
    BY <2>1, <2>2 DEF Abs!Drop, deliveredBar
  <2> QED BY <2>3 DEF Abs!Next
<1>11. CASE UNCHANGED vars
  BY <1>11, LogStutter DEF vars, ringVars, createVars, readVars
<1> QED BY <1>1, <1>2, <1>3, <1>4, <1>6, <1>7, <1>8, <1>9, <1>10, <1>11
        DEF Next, Producer, Read

\* Every behaviour of the ring is one of the abstract log: messages arrive in
\* order, none is skipped but by an overrun, none is invented, and nothing is
\* said to be there or not to be there wrongly.
THEOREM RingIsLog == Spec => Log
<1>1. IInv /\ [Next]_vars => [Abs!Next]_(Abs!vars)
  BY LogStep DEF Abs!vars, logVars, deliveredBar
<1> QED BY LogInit, Invariance, <1>1, PTL DEF Spec, Log, Abs!Spec

=============================================================================
