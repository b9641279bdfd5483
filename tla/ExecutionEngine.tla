--------------------------- MODULE ExecutionEngine ---------------------------
(***************************************************************************)
(* apps/execution-engine (main.cpp) and the exchange it talks to,          *)
(* apps/execution-sim: one TCP connection over the loopback, on which      *)
(* orders go out and execution reports come back.                          *)
(*                                                                         *)
(* A connection is a pipe of bytes in each direction, with room for so     *)
(* many: what the kernel buffers between a send and the receive it is for. *)
(* A byte is abstracted to the order it belongs to and its place in the    *)
(* packed struct; orders are numbered as the gateway writes them.          *)
(*                                                                         *)
(* Of the order ring (ShmRing models its memory) there is what the engine  *)
(* can find in a slot: it has no copy of an order, send() is given the     *)
(* slot itself.  published is what processExecution has written to the     *)
(* report ring.                                                            *)
(***************************************************************************)
EXTENDS Integers, Sequences

CONSTANTS
  OrderSize,   \* sizeof(OrderCommand): 19 bytes
  ReportSize,  \* sizeof(ExecutionReport): 19 bytes
  BufSize,     \* sizeof(exhangeResponse): 1024 bytes
  OutRoom,     \* bytes in flight from engine to exchange
  InRoom,      \* bytes in flight from exchange to engine
  RingSize,    \* slots of the order ring
  MaxOrders    \* bound: orders written

ASSUME SizeAssumption ==
  /\ {OrderSize, ReportSize, OutRoom, InRoom, RingSize} \subseteq Nat \ {0}
  /\ BufSize \in Nat /\ BufSize >= 2 * ReportSize
  /\ MaxOrders \in Nat

\* A report is as long as an order, and the connection, whose buffers are set
\* to 64 KiB (helper.hpp), holds two.
ASSUME RoomAssumption == OrderSize = ReportSize /\ InRoom >= 2 * ReportSize

VARIABLES
  head,       \* orders the live engine has published in the order ring
  storing,    \* write() is storing the order that is to be the next
  next,       \* consumerSmhDetails.read_write_index
  pc,         \* the engine's place in its loop
  sending,    \* how many bytes send() has still to hand to the kernel
  out,        \* bytes on their way to the exchange
  simUp,      \* the exchange is in its loop
  reply,      \* bytes that sendall() has still to hand to the kernel
  filled,     \* orders the exchange has filled, in order
  in,         \* bytes on their way to the engine
  buf,        \* the first writeCursor bytes of exhangeResponse
  published,  \* reports processExecution has published, in order
  spoiled     \* history: orders stored over before send() had taken them

vars == <<head, storing, next, pc, sending, out, simUp, reply, filled, in, buf,
          published, spoiled>>

engineOnly == <<next, pc, sending, buf, published>>
simOnly == <<simUp, reply, filled>>
ringOnly == <<head, storing, spoiled>>

----------------------------------------------------------------------------
(* Bytes.                                                                  *)

Garbled == MaxOrders                  \* no order has this number
Numbers == 0 .. MaxOrders

Bytes(n, size) == [k \in 1 .. size |-> <<n, k>>]

\* The order that a struct's bytes stand for, if they are those of one.
Decode(bytes) ==
  IF \E n \in Numbers : bytes = Bytes(n, Len(bytes)) THEN bytes[1][1] ELSE Garbled

Least(i, j) == IF i < j THEN i ELSE j
FirstOf(s, n) == SubSeq(s, 1, n)
After(s, n) == SubSeq(s, n + 1, Len(s))

----------------------------------------------------------------------------
(* The slots.                                                              *)

\* index & (capacity - 1), in the live engine's write() and in the engine.
Slot(n) == n % RingSize

\* The last order published in the slot of order n.
SlotOrder(n) == (head - 1) - ((head - 1 - n) % RingSize)

\* The slots start 64 bytes into a file of 64 bytes for each, so the last one
\* is past the end of both mappings: what is there is nobody's order.
Unmapped(n) == Slot(n) = RingSize - 1

\* The orders that bytes of the slot of order n may be of: the last one stored
\* and the one that write() is storing.
Found(n) ==
  IF Unmapped(n) THEN {Garbled}
  ELSE {SlotOrder(n)} \cup {m \in {head} : storing /\ Slot(m) = Slot(n)}

----------------------------------------------------------------------------
(* The live engine's gateway.                                              *)

Init ==
  /\ head = 0
  /\ storing = FALSE
  /\ next = 0
  /\ pc = "top"
  /\ sending = 0
  /\ out = <<>>
  /\ simUp = TRUE
  /\ reply = <<>>
  /\ filled = <<>>
  /\ in = <<>>
  /\ buf = <<>>
  /\ published = <<>>
  /\ spoiled = {}

\* send_order, into write(): it stores the order in the slot of the order a
\* ring before, never asking how far the execution engine has come ...
BeginOrder ==
  /\ ~storing
  /\ head < MaxOrders
  /\ storing' = TRUE
  /\ spoiled' = spoiled \cup ({head - RingSize} \cap (next .. head))
  /\ UNCHANGED <<head, engineOnly, simOnly, out, in>>

\* ... and then publishes it.
EndOrder ==
  /\ storing
  /\ storing' = FALSE
  /\ head' = head + 1
  /\ UNCHANGED <<spoiled, engineOnly, simOnly, out, in>>

----------------------------------------------------------------------------
(* The execution engine.                                                   *)

\* The inner loop run only when the buffer holds one report exactly.
DrainedUnlessExact == Len(buf) # ReportSize

\* The inner loop is over: what is left is less than a report.
Drained == Len(buf) < ReportSize

\* The top of the loop: the next order, or none, is waiting in the ring.
TakeOrder ==
  /\ pc = "top"
  /\ Drained
  /\ IF next < head
     THEN pc' = "send" /\ sending' = OrderSize
     ELSE pc' = "recv" /\ UNCHANGED sending
  /\ UNCHANGED <<next, buf, published, ringOnly, simOnly, out, in>>

\* The kernel takes n bytes more of the order in the slot, as they are now.
Hand(n) ==
  \E from \in [1 .. n -> Found(next)] :
    out' = out \o [k \in 1 .. n |-> <<from[k], OrderSize - sending + k>>]

\* How many there is room for.
Room == Least(sending, OutRoom - Len(out))

\* send() that takes a part of the order for all of it.
SendShort ==
  /\ pc = "send"
  /\ Room > 0
  /\ Hand(Room)
  /\ sending' = 0
  /\ next' = next + 1
  /\ pc' = "recv"
  /\ UNCHANGED <<buf, published, ringOnly, simOnly, in>>

\* send() after which the loop starts over, as after EAGAIN.
SendAgain ==
  /\ pc = "send"
  /\ Room > 0
  /\ Hand(Room)
  /\ sending' = sending - Room
  /\ IF sending' = 0 THEN next' = next + 1 /\ pc' = "top"
     ELSE UNCHANGED <<next, pc>>
  /\ UNCHANGED <<buf, published, ringOnly, simOnly, in>>

\* send() on a blocking socket: the kernel takes what there is room for, and
\* the call returns when it has taken all.
Send ==
  /\ pc = "send"
  /\ Room > 0
  /\ Hand(Room)
  /\ sending' = sending - Room
  /\ IF sending' = 0 THEN next' = next + 1 /\ pc' = "recv"
     ELSE UNCHANGED <<next, pc>>
  /\ UNCHANGED <<buf, published, ringOnly, simOnly, in>>

\* recv() given the size of the buffer, not what is left of it.
ReceiveTooMuch ==
  LET n == Least(Len(in), BufSize) IN
    /\ pc = "recv"
    /\ Len(buf) < BufSize
    /\ in # <<>> \/ simUp
    /\ buf' = buf \o FirstOf(in, n)
    /\ in' = After(in, n)
    /\ pc' = "top"
    /\ UNCHANGED <<next, sending, published, ringOnly, simOnly, out>>

\* recv() with MSG_DONTWAIT: all the bytes that have come and fit, or none.
Receive ==
  LET n == Least(Len(in), BufSize - Len(buf)) IN
    /\ pc = "recv"
    /\ Len(buf) < BufSize
    /\ in # <<>> \/ simUp
    /\ buf' = buf \o FirstOf(in, n)
    /\ in' = After(in, n)
    /\ pc' = "top"
    /\ UNCHANGED <<next, sending, published, ringOnly, simOnly, out>>

\* processExecution: the report's bytes go into the report ring.
ProcessExecution(bytes) == published' = Append(published, Decode(bytes))

\* A parsed report that stays at the front of the buffer.
ParseInPlace ==
  /\ pc = "top"
  /\ ~Drained
  /\ ProcessExecution(FirstOf(buf, ReportSize))
  /\ buf' = FirstOf(buf, Len(buf) - ReportSize)
  /\ UNCHANGED <<next, pc, sending, ringOnly, simOnly, out, in>>

\* The inner loop, once: a report is processed, the rest moves to the front.
Parse ==
  /\ pc = "top"
  /\ ~Drained
  /\ ProcessExecution(FirstOf(buf, ReportSize))
  /\ buf' = After(buf, ReportSize)
  /\ UNCHANGED <<next, pc, sending, ringOnly, simOnly, out, in>>

\* The engine ends: stopped from outside, or by exit(-1) when the exchange
\* has closed the connection or the buffer is full.
Exit ==
  /\ pc # "dead"
  /\ pc' = "dead"
  /\ UNCHANGED <<next, sending, buf, published, ringOnly, simOnly, out, in>>

----------------------------------------------------------------------------
(* The exchange.                                                           *)

\* recv(19): what has come of an order.  Fewer bytes than an order do not
\* unpack, and the exception ends the exchange.
SimTake ==
  LET bytes == FirstOf(out, Least(Len(out), OrderSize)) IN
    /\ simUp
    /\ reply = <<>>
    /\ out # <<>>
    /\ out' = After(out, Len(bytes))
    /\ IF Len(bytes) < OrderSize
       THEN simUp' = FALSE /\ UNCHANGED <<reply, filled>>
       ELSE /\ filled' = Append(filled, Decode(bytes))
            /\ reply' = Bytes(Decode(bytes), ReportSize)
            /\ UNCHANGED simUp
    /\ UNCHANGED <<engineOnly, ringOnly, in>>

\* sendall().
SimReply ==
  LET n == Least(Len(reply), InRoom - Len(in)) IN
    /\ simUp
    /\ n > 0
    /\ in' = in \o FirstOf(reply, n)
    /\ reply' = After(reply, n)
    /\ UNCHANGED <<simUp, filled, engineOnly, ringOnly, out>>

\* The exchange ends: stopped from outside, or because the engine has gone.
SimExit ==
  /\ simUp
  /\ simUp' = FALSE
  /\ UNCHANGED <<reply, filled, engineOnly, ringOnly, out, in>>

----------------------------------------------------------------------------

Engine == TakeOrder \/ Send \/ Receive \/ Parse

Exchange == SimTake \/ SimReply

Next == BeginOrder \/ EndOrder \/ Engine \/ Exit \/ Exchange \/ SimExit

Spec == Init /\ [][Next]_vars

\* Two processes that never wait but in send(), recv() and sendall(), which
\* return when they can.  Neither is promised to go on for ever.
FairSpec == Spec /\ WF_vars(Engine) /\ WF_vars(Exchange)

----------------------------------------------------------------------------
(* Properties.                                                             *)

TypeOK ==
  /\ head \in 0 .. MaxOrders
  /\ next \in 0 .. head
  /\ pc \in {"top", "send", "recv", "dead"}
  /\ sending \in 0 .. OrderSize
  /\ Len(out) <= OutRoom
  /\ Len(in) <= InRoom
  /\ Len(reply) <= ReportSize
  /\ Len(buf) <= BufSize
  /\ simUp \in BOOLEAN /\ storing \in BOOLEAN
  /\ spoiled \subseteq 0 .. MaxOrders

\* Order n may be filled as something else: its slot is not memory, or write()
\* was a ring ahead and storing into it before send() had taken the order.
Lost(n) == Unmapped(n) \/ n \in spoiled

\* The exchange fills the orders of the ring, whole, each once and in the
\* order they were written, save the lost ones.  Those too are filled in their
\* turn, as torn or newer orders: nothing in the engine notices a lap, and
\* no lap disturbs an order but the one stored over.
FilledInOrder == \A i \in DOMAIN filled : filled[i] = i - 1 \/ Lost(i - 1)

\* "Coalesces and frames fragmented execution reports before writing them
\* back" (README.md): however recv() cuts the stream, the reports published
\* are those the exchange sent, none lost, doubled or pieced together.
ReportsFramed ==
  /\ Len(published) <= Len(filled)
  /\ \A i \in DOMAIN published : published[i] = filled[i]

\* "Buffer overflow, it should be drained" (main.cpp:125) never happens:
\* there is room for a whole report whenever recv() is called.
BufferHasRoom == pc = "recv" => BufSize - Len(buf) >= ReportSize

\* An order is cut in two on the wire only while send() waits for room: the
\* exchange, which does not put pieces together, ends itself only when its
\* backlog has filled the connection, or after the engine has ended.
OrdersCutOnlyWhenFull ==
  simUp /\ Len(out) % OrderSize # 0 => sending # 0

\* The engine does not receive while it waits in send(), nor the exchange
\* while it waits in sendall(): they never wait for one another.
NoStandoff ==
  ~(pc = "send" /\ Len(out) = OutRoom /\ reply # <<>> /\ Len(in) = InRoom)

\* Every order is answered: its own report is published in the end, unless one
\* of the two processes ends or this order, not another, is lost in the ring.
Answered ==
  \A n \in 0 .. MaxOrders - 1 :
    head > n ~> ( \/ n + 1 \in DOMAIN published /\ (published[n + 1] = n \/ Lost(n))
                  \/ pc = "dead" \/ ~simUp )

----------------------------------------------------------------------------
(* Why they hold: each connection, with what is half in it and half out of *)
(* it, is a row of whole structs.                                          *)

Byte == Numbers \X Nat

\* bytes are the structs of the orders ns, one after the other.
Carries(bytes, size, ns) ==
  /\ Len(bytes) = size * Len(ns)
  /\ \A i \in 1 .. Len(ns), k \in 1 .. size : bytes[size * (i - 1) + k] = <<ns[i], k>>

\* Orders given to the kernel, in part or in full.
Handed == IF sending = 0 THEN next ELSE next + 1

\* Orders filled whose reports are not published.
Unpublished == After(filled, Len(published))

StreamInv ==
  /\ {out, reply, in, buf} \subseteq Seq(Byte)
  /\ {filled, published} \subseteq Seq(Numbers)

\* Orders that the live engine has stored, or begun to.
Stored == IF storing THEN head + 1 ELSE head

PlaceInv ==
  /\ pc \in {"top", "recv"} => sending = 0
  /\ pc = "send" => sending # 0
  /\ sending # 0 => next < head
  /\ storing => head < MaxOrders
  /\ pc \in {"send", "recv"} => Len(buf) < ReportSize
  /\ \A n \in next .. head - 1 : Stored - n <= RingSize \/ n \in spoiled

\* What is on the wire starts where the exchange will read an order.
OrderInv ==
  /\ Len(filled) <= Handed
  /\ simUp =>
       /\ Len(out) + sending = OrderSize * (Handed - Len(filled))
       /\ \A m \in 0 .. OutRoom, k \in 1 .. OrderSize :
            OrderSize * m + k <= Len(out) =>
              out[OrderSize * m + k] = <<Len(filled) + m, k>> \/ Lost(Len(filled) + m)

ReportInv ==
  /\ ReportsFramed
  /\ Carries(buf \o (in \o reply), ReportSize, Unpublished)

\* All the bytes that are under way.  A turn of the engine adds an order and
\* takes in either all the reports that have come or more than one.
Load == Len(out) + sending + Len(reply) + Len(in)

LoadInv ==
  /\ pc = "top" => Load <= OutRoom + ReportSize
  /\ pc \in {"send", "recv"} => Load <= OutRoom + ReportSize + OrderSize

IInv ==
  /\ TypeOK /\ StreamInv /\ PlaceInv /\ OrderInv /\ ReportInv /\ LoadInv
  /\ FilledInOrder

=============================================================================
