-------------------------- MODULE LiveSystem_proofs --------------------------
(***************************************************************************)
(* What LiveSystem says of the orders that travel through it, of reports   *)
(* left by earlier lives and of the position that the orders make, for any *)
(* number of starts, symbols and orders.                                   *)
(***************************************************************************)
EXTENDS LiveSystem, FiniteSetTheorems, SequenceTheorems, TLAPS

----------------------------------------------------------------------------
(* The files.                                                              *)

\* There is no life before there is a report ring.
FileInv ==
  /\ lives \in Nat
  /\ ~reportFile => lives = 0 /\ ~liveUp

\* The steps that leave the file, the lives and the live engine's state alone.
LEMMA Untouched ==
  ASSUME FileInv, UNCHANGED <<lives, reportFile, liveUp>>
  PROVE  FileInv'
BY DEF FileInv

\* Every step keeps it.
LEMMA StepKeepsFiles == FileInv /\ [Next]_vars => FileInv'
<1> SUFFICES ASSUME FileInv, [Next]_vars PROVE FileInv'
  OBVIOUS
<1>1. CASE OpenReports
  <2>1. /\ liveUp' = reportFile /\ reportFile' = reportFile
        /\ lives' = (IF reportFile THEN lives + 1 ELSE lives)
    BY <1>1 DEF OpenReports, files
  <2>2. CASE reportFile
    BY <2>1, <2>2 DEF FileInv
  <2>3. CASE ~reportFile
    BY <2>1, <2>3 DEF FileInv
  <2> QED BY <2>2, <2>3
<1>2. CASE StartEngine
  <2>1. reportFile' = TRUE /\ lives' = lives
    BY <1>2 DEF StartEngine
  <2> QED BY <2>1 DEF FileInv
<1>3. CASE EndLive
  <2>1. liveUp' = FALSE /\ UNCHANGED <<lives, reportFile>>
    BY <1>3 DEF EndLive, files, counts
  <2> QED BY <2>1 DEF FileInv
<1>4. CASE StartLive \/ StartSim \/ EndEngine \/ EndSim
  <2>1. UNCHANGED <<lives, reportFile, liveUp>>
    BY <1>4 DEF StartLive, StartSim, EndEngine, EndSim, files, gateway, counts
  <2> QED BY <2>1, Untouched
<1>5. CASE Live
  <2>1. UNCHANGED <<lives, reportFile, liveUp>>
    BY <1>5 DEF Live, Packet, PollReport, PollEmpty, files, gateway, counts
  <2> QED BY <2>1, Untouched
<1>6. CASE Engine \/ FillOrder
  <2>1. UNCHANGED <<lives, reportFile, liveUp>>
    BY <1>6 DEF Engine, Forward, Publish, FillOrder, files, gateway, counts
  <2> QED BY <2>1, Untouched
<1>7. CASE UNCHANGED vars
  <2>1. UNCHANGED <<lives, reportFile, liveUp>>
    BY <1>7 DEF vars, files, gateway, counts
  <2> QED BY <2>1, Untouched
<1> QED BY <1>1, <1>2, <1>3, <1>4, <1>5, <1>6, <1>7 DEF Next

----------------------------------------------------------------------------
(* Types.                                                                  *)

Flat == [s \in Symbols |-> 0]

OrderMessage ==
  [id : Nat, symbol : Symbols, side : {"Buy", "Sell"}, px : Nat, qty : {Lot}]

\* TypeOK, with what it needs: the messages that are on their way, and that
\* nothing is on its way to an exchange that nobody has connected to.
Types ==
  /\ TypeOK
  /\ orders \in Seq(OrderMessage) /\ out \in Seq(OrderMessage)
  /\ engineUp \in BOOLEAN /\ linked \in BOOLEAN /\ calm \in BOOLEAN
  /\ sessions \in Nat
  /\ sim \in {"down", "listening", "serving"}
  /\ sim # "serving" => out = <<>>
  /\ ~liveUp => risk = Flat /\ mapped = {}
  /\ found \in Nat /\ found <= Len(reports)

LEMMA NoneOnTheWay == <<>> \in Seq(OrderMessage) /\ <<>> \in Seq(Message)
BY EmptySeq

\* The price of an order is that of a level of the book.
LEMMA OrderType ==
  ASSUME HandlerTypeOK, NEW s \in Symbols, NEW b \in Bids, NEW a \in Asks,
         NEW side \in {"Buy", "Sell"}, Trade(s, b, a, side)
  PROVE  /\ OrderOf(s, b, a, side) \in OrderMessage
         /\ OrderOf(s, b, a, side).id = nextId /\ OrderOf(s, b, a, side).symbol = s
         /\ OrderOf(s, b, a, side).side = side
<1>1. b # NoLevel /\ a # NoLevel
  BY DEF Trade, Signals, TwoSided
<1>2. b \in [px : Nat \ {0}, qty : Nat] /\ a \in [px : Nat \ {0}, qty : Nat]
  BY <1>1, LevelAssumption DEF Levels
<1>3. Price(side, b, a) \in Nat /\ nextId \in Nat
  BY <1>2, LimitAssumption DEF Price, HandlerTypeOK
<1> QED BY <1>3 DEF OrderOf, OrderMessage

\* What an event of a stock does to its midpoints.
LEMMA ObserveType ==
  ASSUME HandlerTypeOK, NEW s \in Symbols, NEW b \in Bids, NEW a \in Asks, Observe(s, b, a)
  PROVE  /\ phase' = "polling" /\ mapped' = mapped /\ position' = position /\ s \in mapped
         /\ mid' \in [Symbols -> Nat] /\ lastMid' \in [Symbols -> Nat]
<1>1. TwoSided(b, a) => b.px \in Nat \ {0} /\ a.px \in Nat \ {0}
  BY LevelAssumption DEF TwoSided, Levels
<1>2. mid' \in [Symbols -> Nat]
  BY <1>1 DEF Observe, HandlerTypeOK
<1>3. lastMid' \in [Symbols -> Nat]
  <2>1. CASE ~ Moves(s, b, a)
    BY <2>1 DEF Observe, HandlerTypeOK
  <2>2. CASE Moves(s, b, a)
    <3>1. Midpoint(b, a) > 0
      BY <2>2 DEF Moves
    <3>2. TwoSided(b, a) /\ Midpoint(b, a) = (b.px + a.px) \div 2
      BY <3>1 DEF Midpoint, PriceOr0, TwoSided
    <3>3. Midpoint(b, a) \in Nat
      BY <1>1, <3>2
    <3> QED BY <2>2, <3>3 DEF Observe, HandlerTypeOK
  <2> QED BY <2>1, <2>2
<1> QED BY <1>2, <1>3 DEF Observe

LEMMA QuietType ==
  ASSUME HandlerTypeOK, NEW s \in Symbols, NEW b \in Bids, NEW a \in Asks, Quiet(s, b, a)
  PROVE  HandlerTypeOK' /\ UNCHANGED <<mapped, risk, tracker, nextId>>
BY ObserveType DEF Quiet, HandlerTypeOK

LEMMA TradeType ==
  ASSUME HandlerTypeOK, NEW s \in Symbols, NEW b \in Bids, NEW a \in Asks,
         NEW side \in {"Buy", "Sell"}, Trade(s, b, a, side)
  PROVE  /\ HandlerTypeOK' /\ mapped' = mapped /\ s \in mapped
         /\ nextId' = nextId + 1 /\ nextId \in Nat
         /\ tracker' = [tracker EXCEPT ![s] = @ \union {nextId}]
         /\ risk' = [risk EXCEPT ![s] = @ + Delta(side)]
<1>1. /\ risk' = [risk EXCEPT ![s] = @ + Delta(side)] /\ nextId < MaxOrders
      /\ tracker' = [tracker EXCEPT ![s] = @ \union {nextId}] /\ nextId' = nextId + 1
      /\ risk[s] + Delta(side) \in -MaxPos .. MaxPos /\ Observe(s, b, a)
  BY DEF Trade, Passes
<1>2. /\ phase' = "polling" /\ mapped' = mapped /\ position' = position /\ s \in mapped
      /\ mid' \in [Symbols -> Nat] /\ lastMid' \in [Symbols -> Nat]
  BY <1>1, ObserveType
<1>3. risk' \in [Symbols -> -MaxPos .. MaxPos]
  BY <1>1 DEF HandlerTypeOK
<1>4. nextId \in 0 .. MaxOrders /\ nextId' \in 0 .. MaxOrders /\ nextId \in Nat
  BY <1>1, LimitAssumption DEF HandlerTypeOK
<1>5. tracker' \in [Symbols -> SUBSET (0 .. nextId' - 1)]
  <2>1. 0 .. nextId - 1 \subseteq 0 .. nextId' - 1 /\ nextId \in 0 .. nextId' - 1
    BY <1>1, <1>4
  <2>2. tracker \in [Symbols -> SUBSET (0 .. nextId' - 1)]
    BY <2>1 DEF HandlerTypeOK
  <2> QED BY <1>1, <2>1, <2>2
<1>6. mapped' \subseteq Symbols /\ position' \in [Symbols -> Nat] /\ phase' \in {"idle", "polling"}
  BY <1>2 DEF HandlerTypeOK
<1>7. HandlerTypeOK'
  BY <1>2, <1>3, <1>4, <1>5, <1>6 DEF HandlerTypeOK
<1> QED BY <1>1, <1>2, <1>4, <1>7

LEMMA ConfirmType ==
  ASSUME HandlerTypeOK, NEW r \in Message, Confirm(r)
  PROVE  HandlerTypeOK' /\ UNCHANGED <<mapped, risk, nextId>>
<1>1. r.qty \in Nat
  BY LimitAssumption DEF Message
<1>2. position' \in [Symbols -> Nat]
  BY <1>1 DEF Confirm, HandlerTypeOK
<1>3. tracker' \in [Symbols -> SUBSET (0 .. nextId - 1)]
  BY DEF Confirm, HandlerTypeOK
<1> QED BY <1>2, <1>3 DEF Confirm, HandlerTypeOK

LEMMA ForgetType ==
  ASSUME Forget
  PROVE  HandlerTypeOK' /\ nextId' = 0 /\ risk' = Flat /\ mapped' = {}
BY LimitAssumption DEF Forget, HandlerTypeOK, Flat

LEMMA HandlerSame ==
  ASSUME HandlerTypeOK, UNCHANGED handlerVars
  PROVE  HandlerTypeOK' /\ UNCHANGED <<mapped, risk, tracker, nextId>>
BY DEF HandlerTypeOK, handlerVars

\* The first of a sequence, and the others.
LEMMA HeadTailIs ==
  ASSUME NEW S, NEW s \in Seq(S), s # <<>>
  PROVE  /\ Len(s) \in Nat \ {0} /\ Head(s) \in S /\ Head(s) = s[1] /\ Tail(s) \in Seq(S)
         /\ Len(Tail(s)) = Len(s) - 1
         /\ \A i \in 1 .. Len(Tail(s)) : Tail(s)[i] = s[i + 1]
<1>1. Len(s) \in Nat \ {0} /\ Head(s) = s[1]
  BY EmptySeq
<1> QED BY <1>1, HeadTailProperties

\* A fill, as the ledger counts it.
After(pos, o) == [pos EXCEPT ![o.symbol] = @ + Delta(o.side)]

LEMMA AfterType ==
  ASSUME NEW pos \in [Symbols -> Int], NEW o \in OrderMessage
  PROVE  After(pos, o) \in [Symbols -> Int]
BY LimitAssumption DEF After, Delta, OrderMessage

LEMMA FillIs ==
  ASSUME Types, FillOrder, NEW o, o = Head(out)
  PROVE  /\ sim = "serving" /\ out # <<>> /\ o \in OrderMessage /\ o = out[1]
         /\ out' = Tail(out) /\ filled' = filled + 1
         /\ traded' = After(traded, o) /\ traded' \in [Symbols -> Int]
         /\ \E r \in Message : /\ r.id = o.id /\ r.symbol = o.symbol
                               /\ in' = IF linked THEN Append(in, r) ELSE in
         /\ UNCHANGED <<handlerVars, files, orders, reports, gateway, engine, linked, sim, counts, calm>>
<1>1. out # <<>> /\ out \in Seq(OrderMessage) /\ traded \in [Symbols -> Int]
  BY DEF Types, TypeOK, FillOrder
<1>2. o \in OrderMessage /\ o = out[1]
  BY <1>1, HeadTailIs
<1>3. o.side \in {"Buy", "Sell"} /\ o.qty = Lot /\ o.symbol \in Symbols
  BY <1>2 DEF OrderMessage
<1>4. traded' = [traded EXCEPT ![o.symbol] = IF o.side = "Buy" THEN @ + o.qty ELSE @ - o.qty]
  BY DEF FillOrder
<1>5. traded' = After(traded, o)
  <2>1. traded[o.symbol] \in Int /\ Lot \in Int
    BY <1>1, <1>3, LimitAssumption
  <2>2. (IF o.side = "Buy" THEN traded[o.symbol] + o.qty ELSE traded[o.symbol] - o.qty)
        = traded[o.symbol] + Delta(o.side)
    BY <1>3, <2>1 DEF Delta
  <2> QED BY <1>4, <2>2 DEF After
<1>6. traded' \in [Symbols -> Int]
  BY <1>1, <1>2, <1>5, AfterType
<1>7. \E r \in Message : /\ r.id = o.id /\ r.symbol = o.symbol
                         /\ in' = IF linked THEN Append(in, r) ELSE in
  <2>1. PICK r : r = [id |-> o.id, symbol |-> o.symbol, px |-> o.px, qty |-> o.qty]
    OBVIOUS
  <2>2. r \in Message /\ r.id = o.id /\ r.symbol = o.symbol
    BY <1>2, <2>1 DEF Message, OrderMessage
  <2>3. in' = IF linked THEN Append(in, r) ELSE in
    BY <2>1 DEF FillOrder
  <2> QED BY <2>2, <2>3
<1> QED BY <1>1, <1>2, <1>5, <1>6, <1>7 DEF FillOrder

LEMMA TypesInit == Init => Types
<1> SUFFICES ASSUME Init PROVE Types
  OBVIOUS
<1>1. HandlerTypeOK /\ nextId = 0 /\ risk = Flat /\ mapped = {}
  BY LimitAssumption DEF Init, HandlerInit, HandlerTypeOK, Flat
<1>2. TypeOK
  BY <1>1, NoneOnTheWay DEF Init, TypeOK
<1>3. found \in Nat /\ found <= Len(reports)
  BY EmptySeq DEF Init
<1>4. orders \in Seq(OrderMessage) /\ out \in Seq(OrderMessage)
  BY NoneOnTheWay DEF Init
<1> QED BY <1>1, <1>2, <1>3, <1>4 DEF Init, Types

LEMMA TypesStep == Types /\ [Next]_vars => Types'
<1> SUFFICES ASSUME Types, [Next]_vars PROVE Types'
  OBVIOUS
<1> USE DEF Types, TypeOK
<1>1. CASE StartLive
  <2>1. HandlerTypeOK' /\ UNCHANGED <<mapped, risk, nextId>>
    BY <1>1, HandlerSame DEF StartLive
  <2>2. orders' = <<>> /\ ~liveUp
        /\ UNCHANGED <<reports, liveUp, nextSeq, found, engineUp, taken, linked, sim, out, in, filled,
                       traded, sessions, calm>>
    BY <1>1 DEF StartLive, engine, wire, exchange
  <2>3. orders' \in Seq(OrderMessage)
    BY <2>2, NoneOnTheWay
  <2> QED BY <2>1, <2>2, <2>3
<1>2. CASE OpenReports
  <2>1. HandlerTypeOK' /\ UNCHANGED <<mapped, risk, nextId>>
    BY <1>2, HandlerSame DEF OpenReports
  <2>2. opening /\ opening' = FALSE /\ liveUp' = reportFile /\ found' = Len(reports)
        /\ UNCHANGED <<orders, reports, nextSeq, engineUp, taken, linked, sim, out, in, filled,
                       traded, sessions, calm>>
    BY <1>2 DEF OpenReports, engine, wire, exchange
  <2>3. found' \in Nat /\ found' <= Len(reports')
    BY <2>2, LenProperties
  <2> QED BY <2>1, <2>2, <2>3
<1>3. CASE StartEngine
  <2>1. HandlerTypeOK' /\ UNCHANGED <<mapped, risk, nextId>>
    BY <1>3, HandlerSame DEF StartEngine
  <2>2. /\ reports' = <<>> /\ found' = 0 /\ engineUp' = (sim # "down") /\ taken' = 0 /\ ~engineUp
        /\ linked' = (sim = "listening")
        /\ sim' = IF sim = "listening" THEN "serving" ELSE sim
        /\ sessions' = IF sim = "down" THEN sessions ELSE sessions + 1
        /\ UNCHANGED <<orders, opening, liveUp, nextSeq, out, in, filled, traded, calm>>
    BY <1>3 DEF StartEngine, wire, exchange
  <2>3. reports' \in Seq(Message) /\ Len(reports') = 0
    BY <2>2, NoneOnTheWay, EmptySeq
  <2>4. sessions' \in Nat /\ sim' \in {"down", "listening", "serving"}
    BY <2>2
  <2>5. linked' \in BOOLEAN /\ engineUp' \in BOOLEAN
    BY <2>2
  <2> QED BY <2>1, <2>2, <2>3, <2>4, <2>5
<1>4. CASE StartSim
  <2>1. HandlerTypeOK' /\ UNCHANGED <<mapped, risk, nextId>>
    BY <1>4, HandlerSame DEF StartSim
  <2>2. sim = "down" /\ sim' = "listening"
        /\ UNCHANGED <<orders, reports, opening, liveUp, nextSeq, found, engineUp, taken, linked,
                       out, in, filled, traded, sessions, calm>>
    BY <1>4 DEF StartSim, gateway, engine, wire, exchange
  <2> QED BY <2>1, <2>2
<1>5. CASE EndLive
  <2>1. HandlerTypeOK' /\ nextId' = 0 /\ risk' = Flat /\ mapped' = {}
    BY <1>5, ForgetType DEF EndLive
  <2>2. opening' = FALSE /\ liveUp' = FALSE /\ nextSeq' = 0 /\ calm' = FALSE
        /\ UNCHANGED <<orders, reports, found, engineUp, taken, linked, sim, out, in, filled, traded,
                       sessions>>
    BY <1>5 DEF EndLive, engine, wire, exchange, counts
  <2> QED BY <2>1, <2>2
<1>6. CASE EndEngine
  <2>1. HandlerTypeOK' /\ UNCHANGED <<mapped, risk, nextId>>
    BY <1>6, HandlerSame DEF EndEngine
  <2>2. engineUp' = FALSE /\ taken' = 0 /\ linked' = FALSE /\ in' = <<>> /\ calm' = FALSE
        /\ UNCHANGED <<orders, reports, opening, liveUp, nextSeq, found, sim, out, filled, traded,
                       sessions>>
    BY <1>6 DEF EndEngine, gateway, exchange, counts
  <2> QED BY <2>1, <2>2, NoneOnTheWay
<1>7. CASE EndSim
  <2>1. HandlerTypeOK' /\ UNCHANGED <<mapped, risk, nextId>>
    BY <1>7, HandlerSame DEF EndSim
  <2>2. sim' = "down" /\ linked' = FALSE /\ out' = <<>> /\ calm' = FALSE
        /\ UNCHANGED <<orders, reports, opening, liveUp, nextSeq, found, engineUp, taken, in, filled,
                       traded, sessions>>
    BY <1>7 DEF EndSim, gateway, engine, exchange, counts
  <2> QED BY <2>1, <2>2, NoneOnTheWay
<1>8. CASE Packet
  <2>1. liveUp /\ UNCHANGED <<reports, opening, liveUp, nextSeq, found, engineUp, taken, linked, sim,
                              out, in, filled, traded, sessions, calm>>
    BY <1>8 DEF Packet, gateway, engine, wire, exchange, counts
  <2>2. HandlerTypeOK' /\ orders' \in Seq(OrderMessage)
    <3>1. CASE IgnorePacket /\ UNCHANGED orders
      BY <3>1 DEF IgnorePacket, HandlerTypeOK
    <3>2. ASSUME NEW s \in Symbols, HandleStockDirectory(s), UNCHANGED orders
          PROVE  HandlerTypeOK' /\ orders' \in Seq(OrderMessage)
      BY <3>2 DEF HandleStockDirectory, HandlerTypeOK
    <3>3. ASSUME NEW s \in Symbols, NEW b \in Bids, NEW a \in Asks, Quiet(s, b, a), UNCHANGED orders
          PROVE  HandlerTypeOK' /\ orders' \in Seq(OrderMessage)
      BY <3>3, QuietType
    <3>4. ASSUME NEW s \in Symbols, NEW b \in Bids, NEW a \in Asks, NEW side \in {"Buy", "Sell"},
                 Trade(s, b, a, side), SendOrder(OrderOf(s, b, a, side))
          PROVE  HandlerTypeOK' /\ orders' \in Seq(OrderMessage)
      <4>1. HandlerTypeOK' /\ OrderOf(s, b, a, side) \in OrderMessage
        BY <3>4, TradeType, OrderType
      <4> QED BY <3>4, <4>1, AppendProperties DEF SendOrder
    <3> QED BY <1>8, <3>1, <3>2, <3>3, <3>4 DEF Packet
  <2> QED BY <2>1, <2>2
<1>9. CASE PollReport
  <2>1. /\ liveUp /\ nextSeq < Len(reports) /\ Confirm(reports[nextSeq + 1])
        /\ nextSeq' = nextSeq + 1
        /\ UNCHANGED <<orders, reports, opening, liveUp, found, engineUp, taken, linked, sim, out, in,
                       filled, traded, sessions, calm>>
    BY <1>9 DEF PollReport, engine, wire, exchange, counts
  <2>2. reports[nextSeq + 1] \in Message
    <3>1. nextSeq + 1 \in 1 .. Len(reports)
      BY <2>1
    <3> QED BY <3>1, ElementOfSeq
  <2>3. HandlerTypeOK' /\ UNCHANGED <<mapped, risk, nextId>>
    BY <2>1, <2>2, ConfirmType
  <2> QED BY <2>1, <2>3
<1>10. CASE PollEmpty
  <2>1. HandlerTypeOK' /\ UNCHANGED <<mapped, risk, nextId>>
    BY <1>10 DEF PollEmpty, PollDone, HandlerTypeOK
  <2>2. UNCHANGED <<orders, reports, opening, liveUp, nextSeq, found, engineUp, taken, linked, sim,
                    out, in, filled, traded, sessions, calm>>
    BY <1>10 DEF PollEmpty, gateway, engine, wire, exchange, counts
  <2> QED BY <2>1, <2>2
<1>11. CASE Forward
  <2>1. HandlerTypeOK' /\ UNCHANGED <<mapped, risk, nextId>>
    BY <1>11, HandlerSame DEF Forward
  <2>2. /\ engineUp /\ taken < Len(orders) /\ taken' = taken + 1
        /\ out' = IF linked THEN Append(out, orders[taken + 1]) ELSE out
        /\ UNCHANGED <<orders, reports, opening, liveUp, nextSeq, found, engineUp, linked, sim, in,
                       filled, traded, sessions, calm>>
    BY <1>11 DEF Forward, gateway, exchange, counts
  <2>3. orders[taken + 1] \in OrderMessage
    <3>1. taken + 1 \in 1 .. Len(orders)
      BY <2>2
    <3> QED BY <3>1, ElementOfSeq
  <2>4. out' \in Seq(OrderMessage)
    BY <2>2, <2>3, AppendProperties
  <2> QED BY <2>1, <2>2, <2>4
<1>12. CASE Publish
  <2>1. HandlerTypeOK' /\ UNCHANGED <<mapped, risk, nextId>>
    BY <1>12, HandlerSame DEF Publish
  <2>2. /\ engineUp /\ in # <<>> /\ reports' = Append(reports, Head(in)) /\ in' = Tail(in)
        /\ UNCHANGED <<orders, opening, liveUp, nextSeq, found, engineUp, taken, linked, sim, out,
                       filled, traded, sessions, calm>>
    BY <1>12 DEF Publish, gateway, engine, exchange, counts
  <2>3. Head(in) \in Message /\ in' \in Seq(Message)
    BY <2>2, HeadTailIs
  <2>4. reports' \in Seq(Message) /\ Len(reports') = Len(reports) + 1 /\ Len(reports) \in Nat
    BY <2>2, <2>3, AppendProperties, LenProperties
  <2> QED BY <2>1, <2>2, <2>3, <2>4
<1>13. CASE FillOrder
  <2>1. PICK o : o = Head(out)
    OBVIOUS
  <2>2. /\ sim = "serving" /\ out # <<>> /\ out' = Tail(out) /\ filled' = filled + 1
        /\ traded' \in [Symbols -> Int]
        /\ \E r \in Message : in' = IF linked THEN Append(in, r) ELSE in
        /\ UNCHANGED <<handlerVars, orders, reports, opening, liveUp, nextSeq, found, engineUp, taken,
                       linked, sim, sessions, calm>>
    BY <1>13, <2>1, FillIs DEF gateway, engine, counts
  <2>3. HandlerTypeOK' /\ UNCHANGED <<mapped, risk, nextId>>
    BY <2>2, HandlerSame
  <2>4. in' \in Seq(Message) /\ out' \in Seq(OrderMessage)
    BY <2>2, HeadTailIs, AppendProperties
  <2>5. ~engineUp => in' = <<>>
    BY <2>2
  <2> QED BY <2>2, <2>3, <2>4, <2>5
<1>14. CASE UNCHANGED vars
  <2>1. HandlerTypeOK' /\ UNCHANGED <<mapped, risk, nextId>>
    BY <1>14, HandlerSame DEF vars
  <2> QED BY <1>14, <2>1 DEF vars, gateway, engine, wire, exchange, counts
<1> QED BY <1>1, <1>2, <1>3, <1>4, <1>5, <1>6, <1>7, <1>8, <1>9, <1>10, <1>11, <1>12, <1>13, <1>14
        DEF Next, Live, Engine

\* TypeOK of LiveSystem: also that a process that is down has no memory and
\* no connection, and that the position of the risk check is within its limit.
THEOREM LiveTypes == Spec => []TypeOK
<1>1. Types => TypeOK
  BY DEF Types
<1> QED BY <1>1, TypesInit, TypesStep, PTL DEF Spec

----------------------------------------------------------------------------
(* The reports of earlier lives.                                           *)

\* While one of them is unread no order has gone out, and none will before the
\* engine has mapped a stock and polled to the end of the ring.
Drained == nextSeq < found => nextId = 0 /\ (phase = "idle" => mapped = {})

\* The steps that neither send an order nor leave the engine idle.
LEMMA DrainedSame ==
  ASSUME Drained, nextSeq' < found' => nextSeq < found /\ nextId' = nextId,
         phase' = "idle" => phase = "idle" /\ mapped' = mapped
  PROVE  Drained'
BY DEF Drained

LEMMA DrainedStep == Types /\ Drained /\ [Next]_vars => Drained'
<1> SUFFICES ASSUME Types, Drained, [Next]_vars PROVE Drained'
  OBVIOUS
<1>1. nextSeq \in Nat /\ found \in Nat /\ found <= Len(reports) /\ Len(reports) \in Nat
  BY LenProperties DEF Types, TypeOK
<1>2. CASE OpenReports
  <2>1. opening /\ UNCHANGED <<phase, mapped, nextId>>
    BY <1>2 DEF OpenReports, handlerVars
  <2>2. nextId = 0 /\ mapped = {}
    BY <2>1 DEF Types, TypeOK
  <2> QED BY <2>1, <2>2 DEF Drained
<1>3. CASE EndLive
  <2>1. nextId' = 0 /\ mapped' = {}
    BY <1>3 DEF EndLive, Forget
  <2> QED BY <2>1 DEF Drained
<1>4. CASE StartEngine
  <2>1. found' = 0 /\ nextSeq' = nextSeq
    BY <1>4 DEF StartEngine
  <2> QED BY <1>1, <2>1 DEF Drained
<1>5. CASE Packet
  <2>1. nextSeq' = nextSeq /\ found' = found
    BY <1>5 DEF Packet, gateway
  <2>2. CASE phase' # "idle" /\ nextId' = nextId
    BY <2>1, <2>2, DrainedSame
  <2>3. ASSUME NEW s \in Symbols, NEW b \in Bids, NEW a \in Asks, NEW side \in {"Buy", "Sell"},
               Trade(s, b, a, side)
        PROVE  Drained'
    <3>1. phase = "idle" /\ s \in mapped
      BY <2>3 DEF Trade, Observe
    <3> QED BY <2>1, <3>1 DEF Drained
  <2>4. \/ phase' # "idle" /\ nextId' = nextId
        \/ \E s \in Symbols, b \in Bids, a \in Asks : \E side \in {"Buy", "Sell"} :
             Trade(s, b, a, side)
    BY <1>5 DEF Packet, IgnorePacket, HandleStockDirectory, Quiet, Observe
  <2> QED BY <2>2, <2>3, <2>4
<1>6. CASE PollReport
  <2>1. nextSeq' = nextSeq + 1 /\ UNCHANGED <<found, phase, mapped, nextId>>
    BY <1>6 DEF PollReport, Confirm
  <2>2. nextSeq' < found' => nextSeq < found
    BY <1>1, <2>1
  <2> QED BY <2>1, <2>2, DrainedSame
<1>7. CASE PollEmpty
  <2>1. nextSeq >= Len(reports) /\ UNCHANGED <<nextSeq, found>>
    BY <1>7 DEF PollEmpty, gateway
  <2>2. ~(nextSeq' < found')
    BY <1>1, <2>1
  <2> QED BY <2>2 DEF Drained
<1>8. CASE StartLive \/ StartSim \/ EndEngine \/ EndSim \/ Forward \/ Publish \/ FillOrder
           \/ UNCHANGED vars
  <2>1. UNCHANGED <<nextSeq, found, phase, mapped, nextId>>
    BY <1>8 DEF StartLive, StartSim, EndEngine, EndSim, Forward, Publish, FillOrder, vars,
                handlerVars, gateway
  <2> QED BY <2>1, DrainedSame
<1> QED BY <1>2, <1>3, <1>4, <1>5, <1>6, <1>7, <1>8 DEF Next, Live, Engine

\* Whatever earlier lives have left in the report ring has been read before an
\* order goes out that it could be mistaken for.
THEOREM NothingStaleHolds == Spec => []NothingStale
<1> DEFINE I == Types /\ Drained
<1>1. Init => I
  <2>1. Init => Drained
    BY DEF Init, Drained
  <2> QED BY <2>1, TypesInit
<1>2. I /\ [Next]_vars => I'
  BY TypesStep, DrainedStep
<1>3. I => NothingStale
  <2> SUFFICES ASSUME Types, Drained, NEW i \in nextSeq + 1 .. found, Expected(reports[i])
               PROVE  FALSE
    BY DEF NothingStale
  <2>1. nextSeq < found
    BY DEF Types, TypeOK
  <2>2. nextId = 0 /\ 0 .. nextId - 1 = {}
    BY <2>1 DEF Drained
  <2>3. reports[i].symbol \in Symbols /\ reports[i].id \in tracker[reports[i].symbol]
    BY DEF Expected, Types, TypeOK, HandlerTypeOK
  <2>4. tracker[reports[i].symbol] \subseteq 0 .. nextId - 1
    BY <2>3 DEF Types, TypeOK, HandlerTypeOK
  <2> QED BY <2>2, <2>3, <2>4
<1> QED BY <1>1, <1>2, <1>3, PTL DEF Spec

----------------------------------------------------------------------------
(* The way of an order while no process has ended.                         *)

\* Orders and reports are numbered as they are written; those between two
\* processes are the ones that the one has dealt with and the other has not.
Numbered ==
  /\ Len(orders) = nextId
  /\ \A i \in 1 .. Len(orders) : orders[i].id = i - 1 /\ orders[i].symbol \in mapped

Connected ==
  /\ engineUp => linked
  /\ ~engineUp => reports = <<>> /\ sim # "serving" /\ filled = 0 /\ traded = Flat

Forwarded ==
  /\ taken = filled + Len(out) /\ taken <= Len(orders)
  /\ \A i \in 1 .. Len(out) : out[i] = orders[filled + i]

Answered ==
  /\ filled = Len(reports) + Len(in)
  /\ \A i \in 1 .. Len(reports) :
       reports[i].id = i - 1 /\ reports[i].symbol = orders[i].symbol
  /\ \A i \in 1 .. Len(in) : /\ in[i].id = Len(reports) + i - 1
                             /\ in[i].symbol = orders[Len(reports) + i].symbol

Tracked ==
  /\ nextSeq <= Len(reports)
  /\ tracker = [s \in Symbols |->
                  {n \in nextSeq .. nextId - 1 : orders[n + 1].symbol = s}]

Pipeline == Numbered /\ Connected /\ Forwarded /\ Answered /\ Tracked

LEMMA PipelineInit == Init => Pipeline
<1> SUFFICES ASSUME Init PROVE Pipeline
  OBVIOUS
<1>1. /\ orders = <<>> /\ reports = <<>> /\ out = <<>> /\ in = <<>> /\ engineUp = FALSE
      /\ filled = 0 /\ taken = 0 /\ nextSeq = 0 /\ traded = Flat /\ sim = "down"
      /\ nextId = 0 /\ tracker = [s \in Symbols |-> {}]
  BY DEF Init, HandlerInit, Flat
<1>2. Len(<<>>) = 0
  BY EmptySeq
<1>3. Numbered /\ Connected /\ Forwarded /\ Answered
  BY <1>1, <1>2 DEF Numbered, Connected, Forwarded, Answered
<1>4. nextSeq .. nextId - 1 = {}
  BY <1>1
<1>5. Tracked
  BY <1>1, <1>2, <1>4 DEF Tracked
<1> QED BY <1>3, <1>5 DEF Pipeline

\* How far the processes are, as numbers.
LEMMA Counts ==
  ASSUME Types, Pipeline
  PROVE  /\ Len(orders) \in Nat /\ Len(reports) \in Nat /\ Len(out) \in Nat /\ Len(in) \in Nat
         /\ nextSeq \in Nat /\ taken \in Nat /\ filled \in Nat /\ nextId \in Nat
         /\ nextSeq <= Len(reports) /\ Len(reports) <= filled /\ filled <= taken
         /\ taken <= Len(orders) /\ Len(orders) = nextId
<1>1. Len(orders) \in Nat /\ Len(reports) \in Nat /\ Len(out) \in Nat /\ Len(in) \in Nat
  BY LenProperties DEF Types, TypeOK
<1>2. nextSeq \in Nat /\ taken \in Nat /\ filled \in Nat /\ nextId \in Nat
  BY LimitAssumption DEF Types, TypeOK, HandlerTypeOK
<1>3. /\ nextSeq <= Len(reports) /\ filled = Len(reports) + Len(in)
      /\ taken = filled + Len(out) /\ taken <= Len(orders) /\ Len(orders) = nextId
  BY DEF Pipeline, Numbered, Forwarded, Answered, Tracked
<1> QED BY <1>1, <1>2, <1>3

\* A live engine that starts while no process has ended has no predecessor.
LEMMA PipelineStartLive ==
  ASSUME Types, Pipeline, StartLive PROVE Pipeline'
<1>1. ~liveUp /\ orders' = <<>>
      /\ UNCHANGED <<handlerVars, reports, nextSeq, engineUp, taken, linked, sim, out, in, filled,
                     traded>>
  BY DEF StartLive, engine, wire, exchange
<1>2. nextId = 0 /\ Len(orders) = 0
  BY <1>1 DEF Types, TypeOK, Pipeline, Numbered
<1>3. orders = <<>>
  BY <1>2, EmptySeq DEF Types
<1> QED BY <1>1, <1>3 DEF Pipeline, Numbered, Connected, Forwarded, Answered, Tracked, handlerVars

LEMMA PipelineStartEngine ==
  ASSUME Types, Pipeline, StartEngine PROVE Pipeline'
<1>1. /\ ~engineUp /\ reports' = <<>> /\ engineUp' = (sim # "down") /\ taken' = 0
      /\ linked' = (sim = "listening")
      /\ sim' = IF sim = "listening" THEN "serving" ELSE sim
      /\ UNCHANGED <<handlerVars, orders, nextSeq, out, in, filled, traded>>
  BY DEF StartEngine, wire, exchange
<1>2. /\ taken = 0 /\ reports = <<>> /\ sim \in {"down", "listening"} /\ filled = 0 /\ traded = Flat
  BY <1>1 DEF Types, TypeOK, Pipeline, Connected
<1>3. Connected'
  BY <1>1, <1>2 DEF Connected, Flat
<1> QED BY <1>1, <1>2, <1>3 DEF Pipeline, Numbered, Forwarded, Answered, Tracked, handlerVars

LEMMA PipelineStartSim ==
  ASSUME Types, Pipeline, StartSim PROVE Pipeline'
<1>1. sim = "down" /\ sim' = "listening"
      /\ UNCHANGED <<handlerVars, orders, reports, nextSeq, engineUp, taken, linked, out, in, filled,
                     traded>>
  BY DEF StartSim, gateway, engine, wire, exchange
<1>2. Connected'
  BY <1>1 DEF Pipeline, Connected, Flat
<1> QED BY <1>1, <1>2 DEF Pipeline, Numbered, Forwarded, Answered, Tracked, handlerVars

\* Only the symbols that are traded may become more.
LEMMA PipelineMapped ==
  ASSUME Pipeline, mapped \subseteq mapped',
         UNCHANGED <<tracker, nextId, orders, reports, nextSeq, engineUp, taken, linked, sim, out,
                     in, filled, traded>>
  PROVE  Pipeline'
<1>1. Numbered'
  BY DEF Pipeline, Numbered
<1> QED BY <1>1 DEF Pipeline, Connected, Forwarded, Answered, Tracked, Flat

\* A new order is the last one, and nobody has read it.
LEMMA PipelineTrade ==
  ASSUME Types, Pipeline, NEW s \in Symbols, NEW b \in Bids, NEW a \in Asks,
         NEW side \in {"Buy", "Sell"}, Trade(s, b, a, side), SendOrder(OrderOf(s, b, a, side)),
         UNCHANGED <<reports, nextSeq, engineUp, taken, linked, sim, out, in, filled, traded>>
  PROVE  Pipeline'
<1>1. PICK o : o = OrderOf(s, b, a, side)
  OBVIOUS
<1>2. o \in OrderMessage /\ o.id = nextId /\ o.symbol = s
  BY <1>1, OrderType DEF Types, TypeOK
<1>3. /\ mapped' = mapped /\ s \in mapped /\ nextId' = nextId + 1
      /\ tracker' = [tracker EXCEPT ![s] = @ \union {nextId}]
  BY TradeType DEF Types, TypeOK
<1>4. /\ Len(orders') = Len(orders) + 1 /\ orders'[Len(orders) + 1] = o
      /\ \A i \in 1 .. Len(orders) : orders'[i] = orders[i]
  <2>1. orders \in Seq(OrderMessage) /\ orders' = Append(orders, o)
    BY <1>1 DEF Types, SendOrder
  <2> QED BY <1>2, <2>1, AppendProperties
<1>5. /\ Len(orders) \in Nat /\ Len(reports) \in Nat /\ Len(out) \in Nat /\ Len(in) \in Nat
      /\ nextSeq \in Nat /\ taken \in Nat /\ filled \in Nat /\ nextId \in Nat
      /\ nextSeq <= Len(reports) /\ Len(reports) <= filled /\ filled <= taken
      /\ taken <= Len(orders) /\ Len(orders) = nextId
  BY Counts
<1>6. Numbered'
  <2>1. ASSUME NEW i \in 1 .. Len(orders')
        PROVE  orders'[i].id = i - 1 /\ orders'[i].symbol \in mapped'
    <3>1. CASE i \in 1 .. Len(orders)
      <4>1. orders[i].id = i - 1 /\ orders[i].symbol \in mapped
        BY <3>1 DEF Pipeline, Numbered
      <4> QED BY <1>3, <1>4, <3>1, <4>1, Zenon
    <3>2. CASE i = Len(orders) + 1
      <4>1. nextId = i - 1
        BY <1>5, <3>2
      <4> QED BY <1>2, <1>3, <1>4, <3>2, <4>1, Zenon
    <3>3. i \in 1 .. Len(orders) \/ i = Len(orders) + 1
      <4>1. PICK n \in Nat : n = Len(orders)
        BY <1>5
      <4> QED BY <1>4, <2>1, <4>1
    <3> QED BY <3>1, <3>2, <3>3, Zenon
  <2>2. Len(orders') = nextId'
    BY <1>3, <1>4, <1>5
  <2> QED BY <2>1, <2>2, Zenon DEF Numbered
<1>7. Connected'
  BY DEF Pipeline, Connected, Flat
<1>8. Forwarded'
  <2>1. ASSUME NEW i \in 1 .. Len(out) PROVE out[i] = orders'[filled + i]
    <3>1. out[i] = orders[filled + i] /\ taken = filled + Len(out)
      BY DEF Pipeline, Forwarded
    <3>2. filled + i \in 1 .. Len(orders)
      BY <1>5, <3>1
    <3> QED BY <1>4, <3>1, <3>2, Zenon
  <2>2. taken = filled + Len(out) /\ taken <= Len(orders')
    <3>1. taken = filled + Len(out)
      BY DEF Pipeline, Forwarded
    <3> QED BY <1>4, <1>5, <3>1
  <2> QED BY <2>1, <2>2 DEF Forwarded
<1>9. Answered'
  <2>1. filled = Len(reports) + Len(in)
    BY DEF Pipeline, Answered
  <2>2. ASSUME NEW i \in 1 .. Len(reports)
        PROVE  reports[i].id = i - 1 /\ reports[i].symbol = orders'[i].symbol
    <3>1. i \in 1 .. Len(orders)
      BY <1>5
    <3>2. reports[i].id = i - 1 /\ reports[i].symbol = orders[i].symbol
      BY DEF Pipeline, Answered
    <3> QED BY <1>4, <3>1, <3>2, Zenon
  <2>3. ASSUME NEW i \in 1 .. Len(in)
        PROVE  /\ in[i].id = Len(reports) + i - 1
               /\ in[i].symbol = orders'[Len(reports) + i].symbol
    <3>1. Len(reports) + i \in 1 .. Len(orders)
      BY <1>5, <2>1
    <3>2. in[i].id = Len(reports) + i - 1 /\ in[i].symbol = orders[Len(reports) + i].symbol
      BY DEF Pipeline, Answered
    <3> QED BY <1>4, <3>1, <3>2, Zenon
  <2> QED BY <2>1, <2>2, <2>3 DEF Answered
<1>10. Tracked'
  <2>1. tracker = [t \in Symbols |-> {n \in nextSeq .. nextId - 1 : orders[n + 1].symbol = t}]
    BY DEF Pipeline, Tracked
  <2>2. tracker' = [t \in Symbols |-> IF t = s THEN tracker[t] \union {nextId} ELSE tracker[t]]
    BY <1>3, <2>1
  <2>3. ASSUME NEW t \in Symbols
        PROVE  {n \in nextSeq .. nextId' - 1 : orders'[n + 1].symbol = t}
               = IF t = s THEN tracker[t] \union {nextId} ELSE tracker[t]
    <3>1. nextSeq .. nextId' - 1 = (nextSeq .. nextId - 1) \union {nextId}
      BY <1>3, <1>5
    <3>2. orders'[nextId + 1].symbol = s
      BY <1>2, <1>4, <1>5
    <3>3. \A n \in nextSeq .. nextId - 1 : orders'[n + 1] = orders[n + 1]
      BY <1>4, <1>5
    <3>4. tracker[t] = {n \in nextSeq .. nextId - 1 : orders[n + 1].symbol = t}
      BY <2>1
    <3> QED BY <3>1, <3>2, <3>3, <3>4
  <2>4. tracker' = [t \in Symbols |-> {n \in nextSeq .. nextId' - 1 : orders'[n + 1].symbol = t}]
    BY <2>2, <2>3
  <2> QED BY <1>5, <2>4 DEF Tracked
<1> QED BY <1>6, <1>7, <1>8, <1>9, <1>10 DEF Pipeline

\* The next report is that of the first order that is still tracked.
LEMMA NextReport ==
  ASSUME Types, Pipeline, nextSeq < Len(reports), NEW r, r = reports[nextSeq + 1]
  PROVE  /\ r \in Message /\ r.id = nextSeq /\ r.symbol = orders[nextSeq + 1].symbol
         /\ r.symbol \in mapped /\ r.symbol \in Symbols
         /\ tracker[r.symbol] = {n \in nextSeq .. nextId - 1 : orders[n + 1].symbol = r.symbol}
         /\ Expected(r)
<1>1. nextSeq + 1 \in 1 .. Len(reports) /\ nextSeq + 1 \in 1 .. Len(orders)
      /\ nextSeq \in nextSeq .. nextId - 1 /\ nextSeq \in Nat
  BY Counts
<1>2. r \in Message
  BY <1>1, ElementOfSeq DEF Types, TypeOK
<1>3. r.id = nextSeq /\ r.symbol = orders[nextSeq + 1].symbol
  BY <1>1 DEF Pipeline, Answered
<1>4. r.symbol \in mapped /\ r.symbol \in Symbols
  BY <1>1, <1>2, <1>3 DEF Pipeline, Numbered, Message
<1>5. tracker[r.symbol] = {n \in nextSeq .. nextId - 1 : orders[n + 1].symbol = r.symbol}
  BY <1>4 DEF Pipeline, Tracked
<1>6. r.id \in tracker[r.symbol]
  BY <1>1, <1>3, <1>5
<1> QED BY <1>2, <1>3, <1>4, <1>5, <1>6 DEF Expected

\* A report that is read strikes off the order it is about.
LEMMA PipelinePollReport ==
  ASSUME Types, Pipeline, PollReport PROVE Pipeline'
<1>1. PICK r : r = reports[nextSeq + 1]
  OBVIOUS
<1>2. /\ nextSeq < Len(reports) /\ Confirm(r) /\ nextSeq' = nextSeq + 1
      /\ UNCHANGED <<orders, reports, engineUp, taken, linked, sim, out, in, filled, traded>>
  BY <1>1 DEF PollReport, engine, wire, exchange
<1>3. /\ r.id = nextSeq /\ r.symbol = orders[nextSeq + 1].symbol /\ Expected(r)
      /\ r.symbol \in Symbols
  BY <1>1, <1>2, NextReport
<1>4. /\ tracker' = [tracker EXCEPT ![r.symbol] = @ \ {r.id}]
      /\ mapped' = mapped /\ nextId' = nextId
  BY <1>2, <1>3 DEF Confirm
<1>5. nextSeq \in Nat /\ nextSeq + 1 <= nextId /\ nextId \in Nat /\ Len(reports) \in Nat
  BY <1>2, Counts
<1>6. Numbered' /\ Connected' /\ Forwarded' /\ Answered'
  BY <1>2, <1>4 DEF Pipeline, Numbered, Connected, Forwarded, Answered, Flat
<1>7. Tracked'
  <2>1. tracker = [t \in Symbols |-> {n \in nextSeq .. nextId - 1 : orders[n + 1].symbol = t}]
    BY DEF Pipeline, Tracked
  <2>2. tracker' = [t \in Symbols |-> IF t = r.symbol THEN tracker[t] \ {nextSeq} ELSE tracker[t]]
    BY <1>3, <1>4, <2>1
  <2>3. ASSUME NEW t \in Symbols
        PROVE  {n \in nextSeq' .. nextId' - 1 : orders'[n + 1].symbol = t}
               = IF t = r.symbol THEN tracker[t] \ {nextSeq} ELSE tracker[t]
    <3>1. nextSeq' .. nextId' - 1 = (nextSeq .. nextId - 1) \ {nextSeq}
      BY <1>2, <1>4, <1>5
    <3>2. tracker[t] = {n \in nextSeq .. nextId - 1 : orders[n + 1].symbol = t}
      BY <2>1
    <3> QED BY <1>2, <1>3, <3>1, <3>2
  <2>4. tracker' = [t \in Symbols |-> {n \in nextSeq' .. nextId' - 1 : orders'[n + 1].symbol = t}]
    BY <2>2, <2>3
  <2>5. nextSeq' <= Len(reports')
    BY <1>2, <1>5, Counts
  <2> QED BY <2>4, <2>5 DEF Tracked
<1> QED BY <1>6, <1>7 DEF Pipeline

\* An order that is forwarded is behind all that are on their way.
LEMMA PipelineForward ==
  ASSUME Types, Pipeline, Forward PROVE Pipeline'
<1>1. /\ engineUp /\ taken < Len(orders) /\ taken' = taken + 1
      /\ out' = IF linked THEN Append(out, orders[taken + 1]) ELSE out
      /\ UNCHANGED <<handlerVars, orders, reports, nextSeq, engineUp, linked, sim, in, filled, traded>>
  BY DEF Forward, gateway, exchange
<1>2. Len(out) \in Nat /\ taken \in Nat /\ filled \in Nat /\ Len(orders) \in Nat
      /\ taken = filled + Len(out)
  BY Counts DEF Pipeline, Forwarded
<1>3. PICK o : o = orders[taken + 1]
  OBVIOUS
<1>4. o \in OrderMessage
  <2>1. taken + 1 \in 1 .. Len(orders)
    BY <1>1, <1>2
  <2> QED BY <1>3, <2>1, ElementOfSeq DEF Types
<1>5. /\ Len(out') = Len(out) + 1 /\ out'[Len(out) + 1] = o
      /\ \A i \in 1 .. Len(out) : out'[i] = out[i]
  <2>1. out' = Append(out, o) /\ out \in Seq(OrderMessage)
    BY <1>1, <1>3 DEF Pipeline, Connected, Types
  <2> QED BY <1>4, <2>1, AppendProperties
<1>6. Forwarded'
  <2>1. ASSUME NEW i \in 1 .. Len(out') PROVE out'[i] = orders'[filled' + i]
    <3>1. CASE i \in 1 .. Len(out)
      BY <1>1, <1>5, <3>1 DEF Pipeline, Forwarded
    <3>2. CASE i = Len(out) + 1
      <4>1. filled + i = taken + 1
        BY <1>2, <3>2
      <4> QED BY <1>1, <1>3, <1>5, <3>2, <4>1
    <3> QED BY <1>2, <1>5, <2>1, <3>1, <3>2
  <2>2. taken' = filled' + Len(out') /\ taken' <= Len(orders')
    BY <1>1, <1>2, <1>5
  <2> QED BY <2>1, <2>2 DEF Forwarded
<1> QED BY <1>1, <1>6 DEF Pipeline, Numbered, Connected, Answered, Tracked, Flat, handlerVars

\* The first report that was on its way is the next in the ring.
LEMMA PipelinePublish ==
  ASSUME Types, Pipeline, Publish PROVE Pipeline'
<1>1. /\ engineUp /\ in # <<>> /\ reports' = Append(reports, Head(in)) /\ in' = Tail(in)
      /\ UNCHANGED <<handlerVars, orders, nextSeq, engineUp, taken, linked, sim, out, filled, traded>>
  BY DEF Publish, gateway, engine, exchange
<1>2. /\ Len(in) \in Nat \ {0} /\ Head(in) \in Message /\ Head(in) = in[1]
      /\ Len(in') = Len(in) - 1 /\ \A i \in 1 .. Len(in') : in'[i] = in[i + 1]
  BY <1>1, HeadTailIs DEF Types, TypeOK
<1>3. /\ Len(reports') = Len(reports) + 1 /\ reports'[Len(reports) + 1] = in[1]
      /\ \A i \in 1 .. Len(reports) : reports'[i] = reports[i]
  BY <1>1, <1>2, AppendProperties DEF Types, TypeOK
<1>4. filled = Len(reports) + Len(in) /\ Len(reports) \in Nat /\ nextSeq \in Nat
      /\ nextSeq <= Len(reports)
  BY Counts DEF Pipeline, Answered
<1>5. in[1].id = Len(reports) /\ in[1].symbol = orders[Len(reports) + 1].symbol
  BY <1>2, <1>4 DEF Pipeline, Answered
<1>6. Answered'
  <2>1. filled' = Len(reports') + Len(in')
    BY <1>1, <1>2, <1>3, <1>4
  <2>2. ASSUME NEW i \in 1 .. Len(reports')
        PROVE  reports'[i].id = i - 1 /\ reports'[i].symbol = orders'[i].symbol
    <3>1. CASE i \in 1 .. Len(reports)
      BY <1>1, <1>3, <3>1 DEF Pipeline, Answered
    <3>2. CASE i = Len(reports) + 1
      BY <1>1, <1>3, <1>4, <1>5, <3>2
    <3> QED BY <1>3, <1>4, <3>1, <3>2
  <2>3. ASSUME NEW i \in 1 .. Len(in')
        PROVE  /\ in'[i].id = Len(reports') + i - 1
               /\ in'[i].symbol = orders'[Len(reports') + i].symbol
    <3>1. i + 1 \in 1 .. Len(in) /\ in'[i] = in[i + 1]
      BY <1>2
    <3>2. in[i + 1].id = Len(reports) + (i + 1) - 1
          /\ in[i + 1].symbol = orders[Len(reports) + (i + 1)].symbol
      BY <3>1 DEF Pipeline, Answered
    <3>3. Len(reports') + i - 1 = Len(reports) + (i + 1) - 1
          /\ Len(reports') + i = Len(reports) + (i + 1)
      BY <1>3, <1>4
    <3> QED BY <1>1, <3>1, <3>2, <3>3
  <2> QED BY <2>1, <2>2, <2>3 DEF Answered
<1>7. Connected'
  BY <1>1 DEF Pipeline, Connected
<1>8. Tracked'
  BY <1>1, <1>3, <1>4 DEF Pipeline, Tracked, handlerVars
<1> QED BY <1>1, <1>6, <1>7, <1>8 DEF Pipeline, Numbered, Forwarded, handlerVars

\* The first order on its way is the next to be filled, and its report the
\* last of those on their way back.
LEMMA PipelineFill ==
  ASSUME Types, Pipeline, FillOrder PROVE Pipeline'
<1>1. PICK o : o = Head(out)
  OBVIOUS
<1>2. /\ sim = "serving" /\ out # <<>> /\ o = out[1] /\ out' = Tail(out) /\ filled' = filled + 1
      /\ UNCHANGED <<handlerVars, orders, reports, nextSeq, engineUp, taken, linked, sim>>
  BY <1>1, FillIs DEF gateway, engine
<1>3. PICK r \in Message : /\ r.id = o.id /\ r.symbol = o.symbol
                           /\ in' = IF linked THEN Append(in, r) ELSE in
  BY <1>1, FillIs
<1>4. engineUp /\ linked
  BY <1>2 DEF Pipeline, Connected
<1>5. /\ Len(in') = Len(in) + 1 /\ in'[Len(in) + 1] = r
      /\ \A i \in 1 .. Len(in) : in'[i] = in[i]
  BY <1>3, <1>4, AppendProperties DEF Types, TypeOK
<1>6. /\ Len(out) \in Nat \ {0} /\ Len(out') = Len(out) - 1
      /\ \A i \in 1 .. Len(out') : out'[i] = out[i + 1]
  BY <1>2, HeadTailIs DEF Types
<1>7. /\ Len(orders) \in Nat /\ Len(reports) \in Nat /\ Len(in) \in Nat /\ filled \in Nat
      /\ filled = Len(reports) + Len(in) /\ taken = filled + Len(out) /\ taken <= Len(orders)
  BY Counts DEF Pipeline, Forwarded, Answered
<1>8. o.id = filled /\ o.symbol = orders[filled + 1].symbol
  <2>1. o = orders[filled + 1]
    BY <1>2, <1>6 DEF Pipeline, Forwarded
  <2>2. filled + 1 \in 1 .. Len(orders)
    BY <1>6, <1>7
  <2> QED BY <1>7, <2>1, <2>2 DEF Pipeline, Numbered
<1>9. Forwarded'
  <2>1. ASSUME NEW i \in 1 .. Len(out') PROVE out'[i] = orders'[filled' + i]
    <3>1. i + 1 \in 1 .. Len(out) /\ filled' + i = filled + (i + 1)
      BY <1>2, <1>6, <1>7
    <3> QED BY <1>2, <1>6, <3>1 DEF Pipeline, Forwarded
  <2>2. taken' = filled' + Len(out') /\ taken' <= Len(orders')
    BY <1>2, <1>6, <1>7
  <2> QED BY <2>1, <2>2 DEF Forwarded
<1>10. Answered'
  <2>1. filled' = Len(reports') + Len(in')
    BY <1>2, <1>5, <1>7
  <2>2. ASSUME NEW i \in 1 .. Len(in')
        PROVE  /\ in'[i].id = Len(reports') + i - 1
               /\ in'[i].symbol = orders'[Len(reports') + i].symbol
    <3>1. CASE i \in 1 .. Len(in)
      BY <1>2, <1>5, <3>1 DEF Pipeline, Answered
    <3>2. CASE i = Len(in) + 1
      <4>1. Len(reports) + i - 1 = filled /\ Len(reports) + i = filled + 1
        BY <1>7, <3>2
      <4> QED BY <1>2, <1>3, <1>5, <1>8, <3>2, <4>1
    <3> QED BY <1>5, <1>7, <3>1, <3>2
  <2> QED BY <1>2, <2>1, <2>2 DEF Pipeline, Answered
<1>11. Connected'
  BY <1>2, <1>4 DEF Pipeline, Connected
<1> QED BY <1>2, <1>9, <1>10, <1>11 DEF Pipeline, Numbered, Tracked, handlerVars

\* Once a process has ended there is no going back.
LEMMA CalmStep == [Next]_vars /\ calm' => calm
BY DEF Next, Live, Engine, vars, StartLive, StartEngine, StartSim, EndLive, EndEngine, EndSim,
       OpenReports, Packet, PollReport, PollEmpty, Forward, Publish, FillOrder

LEMMA PipelineStep ==
  ASSUME Types, Pipeline, [Next]_vars, calm' PROVE Pipeline'
<1>1. CASE StartLive
  BY <1>1, PipelineStartLive
<1>2. CASE StartEngine
  BY <1>2, PipelineStartEngine
<1>3. CASE StartSim
  BY <1>3, PipelineStartSim
<1>4. CASE EndLive \/ EndEngine \/ EndSim
  BY <1>4 DEF EndLive, EndEngine, EndSim
<1>5. CASE Packet
  <2>1. UNCHANGED <<reports, nextSeq, engineUp, taken, linked, sim, out, in, filled, traded>>
    BY <1>5 DEF Packet, gateway, engine, wire, exchange
  <2>2. CASE IgnorePacket /\ UNCHANGED orders
    <3>1. UNCHANGED <<mapped, tracker, nextId, orders>>
      BY <2>2 DEF IgnorePacket
    <3> QED BY <2>1, <3>1, PipelineMapped
  <2>3. ASSUME NEW s \in Symbols, HandleStockDirectory(s), UNCHANGED orders PROVE Pipeline'
    <3>1. mapped \subseteq mapped' /\ UNCHANGED <<tracker, nextId, orders>>
      BY <2>3 DEF HandleStockDirectory
    <3> QED BY <2>1, <3>1, PipelineMapped
  <2>4. ASSUME NEW s \in Symbols, NEW b \in Bids, NEW a \in Asks, Quiet(s, b, a), UNCHANGED orders
        PROVE  Pipeline'
    <3>1. UNCHANGED <<mapped, tracker, nextId, orders>>
      BY <2>4, QuietType DEF Types, TypeOK
    <3> QED BY <2>1, <3>1, PipelineMapped
  <2>5. ASSUME NEW s \in Symbols, NEW b \in Bids, NEW a \in Asks, NEW side \in {"Buy", "Sell"},
               Trade(s, b, a, side), SendOrder(OrderOf(s, b, a, side))
        PROVE  Pipeline'
    BY <2>1, <2>5, PipelineTrade
  <2> QED BY <1>5, <2>2, <2>3, <2>4, <2>5 DEF Packet
<1>6. CASE PollReport
  BY <1>6, PipelinePollReport
<1>7. CASE PollEmpty
  <2>1. UNCHANGED <<mapped, tracker, nextId, orders, reports, nextSeq, engineUp, taken, linked, sim,
                    out, in, filled, traded>>
    BY <1>7 DEF PollEmpty, PollDone, gateway, engine, wire, exchange
  <2> QED BY <2>1, PipelineMapped
<1>8. CASE Forward
  BY <1>8, PipelineForward
<1>9. CASE Publish
  BY <1>9, PipelinePublish
<1>10. CASE FillOrder
  BY <1>10, PipelineFill
<1>11. CASE OpenReports \/ UNCHANGED vars
  <2>1. UNCHANGED <<mapped, tracker, nextId, orders, reports, nextSeq, engineUp, taken, linked, sim,
                    out, in, filled, traded>>
    BY <1>11 DEF OpenReports, vars, handlerVars, gateway, engine, wire, exchange
  <2> QED BY <2>1, PipelineMapped
<1> QED BY <1>1, <1>2, <1>3, <1>4, <1>5, <1>6, <1>7, <1>8, <1>9, <1>10, <1>11
        DEF Next, Live, Engine

----------------------------------------------------------------------------
(* The position at the exchange.                                           *)

\* p[i] is the position after the first i orders of a sequence are filled.
IsPath(p, start, seq) ==
  /\ p[0] = start
  /\ \A i \in 0 .. Len(seq) : p[i] \in [Symbols -> Int]
  /\ \A i \in 1 .. Len(seq) : p[i] = After(p[i - 1], seq[i])

Within(x, n) == -n <= x /\ x <= n

\* The limit of ExposureOverRestarts; a first life counts for nothing.
Limit == MaxPos * (sessions + (IF lives = 0 THEN 0 ELSE 2 * (lives - 1)))

\* The orders of this life keep to the limit of the risk check, whatever part
\* of them is filled; while no process has ended that part is what is traded.
Sent(p) ==
  /\ IsPath(p, Flat, orders)
  /\ \A i \in 0 .. Len(orders), s \in Symbols : Within(p[i][s], MaxPos)
  /\ liveUp => p[Len(orders)] = risk
  /\ calm => p[filled] = traded

\* What is on its way to the exchange keeps to the limit over restarts.
Trading(q) ==
  /\ IsPath(q, traded, out)
  /\ \A i \in 0 .. Len(out), s \in Symbols : Within(q[i][s], Limit)

\* What a connected engine has forwarded differs from what it has read by what
\* was traded before it: forwarding the rest adds as much to both.  An engine
\* that has read more than there is has a whole life before it.  Between two
\* lives, with an empty ring, there is nothing to forward.
Forwarding == linked /\ (lives = 0 \/ liveUp \/ orders # <<>>)

Linked(p, q) ==
  Forwarding => \A s \in Symbols :
    IF taken <= Len(orders) THEN Within(q[Len(out)][s] - p[taken][s], Limit - MaxPos)
    ELSE Within(q[Len(out)][s], Limit - 2 * MaxPos)

Paths(p, q) == Sent(p) /\ Trading(q) /\ Linked(p, q)

\* Nothing is traded before the live engine first lives.
Unborn ==
  /\ lives = 0 => orders = <<>> /\ out = <<>> /\ traded = Flat /\ taken = 0
  /\ liveUp => lives # 0

Exposure == Unborn /\ \E p, q : Paths(p, q)

LEMMA PathEmpty ==
  ASSUME NEW start \in [Symbols -> Int], NEW p, p = [i \in {0} |-> start]
  PROVE  IsPath(p, start, <<>>) /\ Len(<<>>) = 0 /\ p[0] = start
<1>1. Len(<<>>) = 0 /\ p[0] = start
  BY EmptySeq
<1> QED BY <1>1 DEF IsPath

\* One more order.
LEMMA PathAppend ==
  ASSUME NEW seq \in Seq(OrderMessage), NEW o \in OrderMessage, NEW start, NEW p,
         IsPath(p, start, seq)
  PROVE  \E r : /\ IsPath(r, start, Append(seq, o))
                /\ \A i \in 0 .. Len(seq) : r[i] = p[i]
                /\ r[Len(seq) + 1] = After(p[Len(seq)], o)
<1>1. PICK n : n = Len(seq)
  OBVIOUS
<1>2. n \in Nat /\ Len(Append(seq, o)) = n + 1 /\ Append(seq, o)[n + 1] = o
      /\ \A i \in 1 .. n : Append(seq, o)[i] = seq[i]
  BY <1>1, LenProperties, AppendProperties
<1>3. PICK r : r = [i \in 0 .. n + 1 |-> IF i = n + 1 THEN After(p[n], o) ELSE p[i]]
  OBVIOUS
<1>4. /\ \A i \in 0 .. n : r[i] = p[i]
      /\ r[n + 1] = After(p[n], o)
  BY <1>2, <1>3
<1>5. p[n] \in [Symbols -> Int]
  BY <1>1, <1>2 DEF IsPath
<1>6. r[n + 1] \in [Symbols -> Int]
  BY <1>4, <1>5, AfterType
<1>7. ASSUME NEW i \in 0 .. n + 1 PROVE r[i] \in [Symbols -> Int]
  <2>1. CASE i = n + 1
    BY <1>6, <2>1
  <2>2. CASE i \in 0 .. n
    BY <1>1, <1>4, <2>2 DEF IsPath
  <2> QED BY <1>2, <2>1, <2>2
<1>8. ASSUME NEW i \in 1 .. n + 1 PROVE r[i] = After(r[i - 1], Append(seq, o)[i])
  <2>1. CASE i = n + 1
    <3>1. i - 1 = n /\ n \in 0 .. n
      BY <1>2, <2>1
    <3> QED BY <1>2, <1>4, <2>1, <3>1
  <2>2. CASE i \in 1 .. n
    <3>1. i - 1 \in 0 .. n /\ i \in 0 .. n
      BY <1>2, <2>2
    <3>2. p[i] = After(p[i - 1], seq[i])
      BY <1>1, <2>2 DEF IsPath
    <3> QED BY <1>2, <1>4, <2>2, <3>1, <3>2
  <2> QED BY <1>2, <2>1, <2>2
<1>9. r[0] = start
  BY <1>2, <1>4 DEF IsPath
<1>10. IsPath(r, start, Append(seq, o))
  BY <1>2, <1>7, <1>8, <1>9 DEF IsPath
<1> QED BY <1>1, <1>4, <1>10

\* One less, at the beginning.
LEMMA PathTail ==
  ASSUME NEW seq \in Seq(OrderMessage), seq # <<>>, NEW start, NEW p, IsPath(p, start, seq)
  PROVE  /\ Len(seq) \in Nat \ {0} /\ Len(Tail(seq)) = Len(seq) - 1
         /\ \E r : /\ IsPath(r, After(start, Head(seq)), Tail(seq))
                   /\ \A i \in 0 .. Len(seq) - 1 : r[i] = p[i + 1]
<1>1. PICK n : n = Len(seq)
  OBVIOUS
<1>2. /\ n \in Nat \ {0} /\ Head(seq) = seq[1] /\ Len(Tail(seq)) = n - 1
      /\ \A i \in 1 .. n - 1 : Tail(seq)[i] = seq[i + 1]
  BY <1>1, HeadTailIs
<1>3. PICK r : r = [i \in 0 .. n - 1 |-> p[i + 1]]
  OBVIOUS
<1>4. \A i \in 0 .. n - 1 : r[i] = p[i + 1]
  BY <1>3
<1>5. r[0] = After(start, Head(seq))
  <2>1. r[0] = p[1] /\ 1 \in 1 .. n
    BY <1>2, <1>4
  <2>2. p[1] = After(p[0], seq[1]) /\ p[0] = start
    BY <1>1, <2>1 DEF IsPath
  <2> QED BY <1>2, <2>1, <2>2
<1>6. ASSUME NEW i \in 0 .. n - 1 PROVE r[i] \in [Symbols -> Int]
  <2>1. i + 1 \in 0 .. n
    BY <1>2
  <2> QED BY <1>1, <1>4, <2>1 DEF IsPath
<1>7. ASSUME NEW i \in 1 .. n - 1 PROVE r[i] = After(r[i - 1], Tail(seq)[i])
  <2>1. i + 1 \in 1 .. n /\ (i + 1) - 1 = i /\ i - 1 \in 0 .. n - 1 /\ i \in 0 .. n - 1
        /\ (i - 1) + 1 = i
    BY <1>2
  <2>2. p[i + 1] = After(p[i], seq[i + 1])
    BY <1>1, <2>1 DEF IsPath
  <2>3. r[i] = p[i + 1] /\ r[i - 1] = p[i]
    BY <1>4, <2>1
  <2> QED BY <1>2, <2>2, <2>3
<1>8. IsPath(r, After(start, Head(seq)), Tail(seq))
  BY <1>2, <1>5, <1>6, <1>7 DEF IsPath
<1> QED BY <1>1, <1>2, <1>4, <1>8

LEMMA ExposureInit == Init => Exposure
<1> SUFFICES ASSUME Init PROVE Exposure
  OBVIOUS
<1>1. /\ orders = <<>> /\ out = <<>> /\ traded = Flat /\ liveUp = FALSE /\ filled = 0 /\ linked = FALSE
      /\ lives = 0 /\ sessions = 0 /\ taken = 0
  BY DEF Init, Flat
<1>2. Unborn
  BY <1>1 DEF Unborn
<1>3. Flat \in [Symbols -> Int] /\ \A s \in Symbols : Flat[s] = 0
  BY DEF Flat
<1>4. PICK p : p = [i \in {0} |-> Flat]
  OBVIOUS
<1>5. IsPath(p, Flat, <<>>) /\ Len(<<>>) = 0 /\ p[0] = Flat
  BY <1>3, <1>4, PathEmpty
<1>6. Limit = 0
  BY <1>1, LimitAssumption DEF Limit
<1>7. Sent(p)
  <2>1. \A i \in 0 .. Len(orders), s \in Symbols : Within(p[i][s], MaxPos)
    <3>1. Within(0, MaxPos)
      BY LimitAssumption DEF Within
    <3>2. 0 .. Len(orders) = {0}
      BY <1>1, <1>5
    <3> QED BY <1>3, <1>5, <3>1, <3>2
  <2> QED BY <1>1, <1>5, <2>1 DEF Sent
<1>8. Trading(p)
  <2>1. \A i \in 0 .. Len(out), s \in Symbols : Within(p[i][s], Limit)
    <3>1. Within(0, Limit)
      BY <1>6 DEF Within
    <3>2. 0 .. Len(out) = {0}
      BY <1>1, <1>5
    <3> QED BY <1>3, <1>5, <3>1, <3>2
  <2> QED BY <1>1, <1>5, <2>1 DEF Trading
<1>9. Linked(p, p)
  BY <1>1 DEF Linked, Forwarding
<1> QED BY <1>2, <1>7, <1>8, <1>9 DEF Exposure, Paths

\* The steps that trade nothing, and in which nobody comes up.
LEMMA ExposureSame ==
  ASSUME Exposure, UNCHANGED <<orders, out, traded, lives, sessions, filled>>,
         calm' => calm, liveUp' => liveUp /\ risk' = risk,
         linked' => linked /\ taken' = taken, taken' \in {0, taken}
  PROVE  Exposure'
<1>1. PICK p, q : Paths(p, q)
  BY DEF Exposure
<1>2. Limit' = Limit
  BY DEF Limit
<1>3. Sent(p)'
  BY <1>1 DEF Paths, Sent, Flat
<1>4. Trading(q)'
  BY <1>1, <1>2 DEF Paths, Trading
<1>5. Linked(p, q)'
  BY <1>1, <1>2 DEF Paths, Linked, Forwarding
<1>6. Unborn'
  BY DEF Exposure, Unborn, Flat
<1> QED BY <1>3, <1>4, <1>5, <1>6 DEF Exposure, Paths

\* The bound grows with each connection and with each life after the first.
LEMMA LimitGrows ==
  ASSUME FileInv, sessions \in Nat
  PROVE  /\ Limit \in Nat /\ MaxPos \in Nat
         /\ sessions' = sessions + 1 /\ lives' = lives => Limit' = Limit + MaxPos
         /\ sessions' = sessions /\ lives' = lives + 1 /\ lives # 0 => Limit' = Limit + 2 * MaxPos
         /\ sessions' = sessions /\ lives' = lives + 1 /\ lives = 0 => Limit' = Limit
         /\ sessions' = sessions /\ lives' = lives => Limit' = Limit
<1>1. PICK n : n = sessions + (IF lives = 0 THEN 0 ELSE 2 * (lives - 1))
  OBVIOUS
<1>2. n \in Nat /\ Limit = MaxPos * n /\ lives \in Nat
  BY <1>1 DEF Limit, FileInv
<1>3. MaxPos \in Nat
  BY LimitAssumption
<1>4. MaxPos * (n + 1) = MaxPos * n + MaxPos /\ MaxPos * (n + 2) = MaxPos * n + 2 * MaxPos
      /\ MaxPos * n \in Nat
  BY <1>2, <1>3
<1>5. sessions' = sessions + 1 /\ lives' = lives => Limit' = MaxPos * (n + 1)
  <2> SUFFICES ASSUME sessions' = sessions + 1, lives' = lives PROVE Limit' = MaxPos * (n + 1)
    OBVIOUS
  <2>1. sessions' + (IF lives' = 0 THEN 0 ELSE 2 * (lives' - 1)) = n + 1
    BY <1>1, <1>2
  <2> QED BY <2>1 DEF Limit
<1>6. sessions' = sessions /\ lives' = lives + 1 /\ lives # 0 => Limit' = MaxPos * (n + 2)
  <2> SUFFICES ASSUME sessions' = sessions, lives' = lives + 1, lives # 0
               PROVE  Limit' = MaxPos * (n + 2)
    OBVIOUS
  <2>1. sessions' + (IF lives' = 0 THEN 0 ELSE 2 * (lives' - 1)) = n + 2
    BY <1>1, <1>2
  <2> QED BY <2>1 DEF Limit
<1>7. sessions' = sessions /\ lives' = lives + 1 /\ lives = 0 => Limit' = MaxPos * n
  <2> SUFFICES ASSUME sessions' = sessions, lives' = lives + 1, lives = 0
               PROVE  Limit' = MaxPos * n
    OBVIOUS
  <2>1. sessions' + (IF lives' = 0 THEN 0 ELSE 2 * (lives' - 1)) = n
    BY <1>1, <1>2
  <2> QED BY <2>1 DEF Limit
<1>8. sessions' = sessions /\ lives' = lives => Limit' = Limit
  BY DEF Limit
<1> QED BY <1>2, <1>3, <1>4, <1>5, <1>6, <1>7, <1>8

\* Wherever a path may go within a limit, it may within a wider one.
LEMMA TradingWider ==
  ASSUME NEW q, Trading(q), UNCHANGED <<traded, out>>, Limit \in Int, Limit' \in Int, Limit <= Limit'
  PROVE  Trading(q)'
<1>1. IsPath(q, traded, out)' /\ \A i \in 0 .. Len(out), s \in Symbols : q[i][s] \in Int
  BY DEF Trading, IsPath
<1>2. ASSUME NEW i \in 0 .. Len(out)', NEW s \in Symbols PROVE Within(q[i][s], Limit')
  <2>1. Within(q[i][s], Limit) /\ q[i][s] \in Int
    BY <1>1 DEF Trading
  <2> QED BY <2>1 DEF Within
<1> QED BY <1>1, <1>2 DEF Trading

\* With the ring set up anew nothing is sent yet, and nothing to be forwarded.
LEMMA ExposureStartLive ==
  ASSUME Types, FileInv, Exposure, calm => Pipeline, StartLive
  PROVE  Exposure'
<1>1. PICK p, q : Paths(p, q)
  BY DEF Exposure
<1>2. /\ ~liveUp /\ orders' = <<>> /\ liveUp' = liveUp
      /\ UNCHANGED <<risk, taken, linked, out, filled, traded, sessions, lives, calm>>
  BY DEF StartLive, engine, wire, exchange, handlerVars
<1>3. Flat \in [Symbols -> Int] /\ (\A s \in Symbols : Flat[s] = 0) /\ Flat' = Flat
  BY DEF Flat
<1>4. PICK r : r = [i \in {0} |-> Flat]
  OBVIOUS
<1>5. IsPath(r, Flat, <<>>) /\ Len(<<>>) = 0 /\ r[0] = Flat
  BY <1>3, <1>4, PathEmpty
<1>6. Limit' = Limit /\ MaxPos \in Nat
  BY <1>2, LimitAssumption DEF Limit
<1>7. Sent(r)'
  <2>1. \A i \in 0 .. Len(orders'), s \in Symbols : Within(r[i][s], MaxPos)
    <3>1. Within(0, MaxPos)
      BY <1>6 DEF Within
    <3>2. 0 .. Len(orders') = {0}
      BY <1>2, <1>5
    <3> QED BY <1>3, <1>5, <3>1, <3>2
  <2>2. calm' => r[filled'] = traded'
    <3> SUFFICES ASSUME calm PROVE r[filled] = traded
      BY <1>2
    <3>1. orders = <<>>
      <4>1. Len(orders) = 0
        BY <1>2 DEF Types, TypeOK, Pipeline, Numbered
      <4> QED BY <4>1, EmptySeq DEF Types
    <3>2. filled = 0
      BY <1>5, <3>1, Counts
    <3>3. p[0] = Flat /\ p[filled] = traded
      BY <1>1 DEF Paths, Sent, IsPath
    <3> QED BY <1>5, <3>2, <3>3
  <2> QED BY <1>2, <1>3, <1>5, <2>1, <2>2 DEF Sent
<1>8. Trading(q)'
  BY <1>1, <1>2, <1>6 DEF Paths, Trading
<1>9. Linked(r, q)'
  <2>1. CASE lives # 0
    BY <1>2, <2>1 DEF Linked, Forwarding
  <2>2. CASE lives = 0
    <3>1. orders = <<>> /\ taken = 0 /\ p[0] = Flat
      BY <1>1, <2>2 DEF Exposure, Unborn, Paths, Sent, IsPath
    <3>2. p[taken] = r[taken]
      BY <1>5, <3>1
    <3>3. linked => \A s \in Symbols :
            IF taken <= Len(orders) THEN Within(q[Len(out)][s] - p[taken][s], Limit - MaxPos)
            ELSE Within(q[Len(out)][s], Limit - 2 * MaxPos)
      BY <1>1, <2>2 DEF Paths, Linked, Forwarding
    <3> QED BY <1>2, <1>6, <3>1, <3>2, <3>3 DEF Linked, Forwarding
  <2> QED BY <2>1, <2>2
<1>10. Unborn'
  BY <1>2 DEF Exposure, Unborn, Flat
<1> QED BY <1>7, <1>8, <1>9, <1>10 DEF Exposure, Paths

\* A live engine that comes to its loop has sent nothing; what its predecessor
\* has left to an engine that is connected becomes a part of the limit.
LEMMA ExposureOpen ==
  ASSUME Types, FileInv, Exposure, OpenReports, reportFile
  PROVE  Exposure'
<1>1. PICK p, q : Paths(p, q)
  BY DEF Exposure
<1>2. /\ opening /\ liveUp' = TRUE /\ lives' = lives + 1
      /\ UNCHANGED <<risk, orders, taken, linked, out, filled, traded, sessions, calm>>
  BY DEF OpenReports, engine, wire, exchange, handlerVars
<1>3. ~liveUp /\ orders = <<>> /\ risk = Flat /\ Len(orders) = 0
  BY <1>2, EmptySeq DEF Types, TypeOK
<1>4. Limit \in Nat /\ MaxPos \in Nat /\ Limit' \in Nat /\ Limit <= Limit' /\ lives \in Nat
      /\ (lives # 0 => Limit' = Limit + 2 * MaxPos) /\ (lives = 0 => Limit' = Limit)
  BY <1>2, LimitGrows DEF Types, FileInv
<1>5. p[0] = Flat /\ \A s \in Symbols : p[0][s] = 0
  BY <1>1 DEF Paths, Sent, IsPath, Flat
<1>6. Sent(p)'
  BY <1>1, <1>2, <1>3, <1>5 DEF Paths, Sent, Flat
<1>7. Trading(q)'
  BY <1>1, <1>2, <1>4, TradingWider DEF Paths
<1>8. Linked(p, q)'
  <2> SUFFICES ASSUME linked, NEW s \in Symbols
               PROVE  IF taken <= Len(orders) THEN Within(q[Len(out)][s] - p[taken][s], Limit' - MaxPos)
                      ELSE Within(q[Len(out)][s], Limit' - 2 * MaxPos)
    BY <1>2 DEF Linked, Forwarding
  <2>1. CASE lives = 0
    <3>1. taken = 0
      BY <2>1 DEF Exposure, Unborn
    <3>2. Within(q[Len(out)][s] - p[taken][s], Limit - MaxPos)
      BY <1>1, <1>3, <2>1, <3>1 DEF Paths, Linked, Forwarding
    <3> QED BY <1>3, <1>4, <2>1, <3>1, <3>2
  <2>2. CASE lives # 0
    <3>1. Len(out) \in 0 .. Len(out) /\ taken \in Nat
      BY LenProperties DEF Types, TypeOK
    <3>2. q[Len(out)][s] \in Int /\ Within(q[Len(out)][s], Limit)
      BY <1>1, <3>1 DEF Paths, Trading, IsPath
    <3>3. Within(q[Len(out)][s], Limit' - 2 * MaxPos) /\ Within(q[Len(out)][s] - 0, Limit' - MaxPos)
      BY <1>4, <2>2, <3>2 DEF Within
    <3>4. CASE taken = 0
      BY <1>3, <1>5, <3>3, <3>4
    <3>5. CASE taken # 0
      BY <1>3, <3>1, <3>3, <3>5
    <3> QED BY <3>4, <3>5
  <2> QED BY <2>1, <2>2
<1>9. Unborn'
  BY <1>2, <1>4 DEF Unborn
<1> QED BY <1>6, <1>7, <1>8, <1>9 DEF Exposure, Paths

\* A new connection begins with the first order of the ring again, and with
\* nothing on its way.
LEMMA ExposureStartEngine ==
  ASSUME Types, FileInv, Exposure, StartEngine
  PROVE  Exposure'
<1>1. PICK p, q : Paths(p, q)
  BY DEF Exposure
<1>2. /\ taken' = 0 /\ linked' = (sim = "listening")
      /\ sessions' = (IF sim = "down" THEN sessions ELSE sessions + 1)
      /\ UNCHANGED <<orders, out, filled, traded, liveUp, risk, lives, calm>>
  BY DEF StartEngine, wire, exchange, handlerVars
<1>3. Limit \in Nat /\ MaxPos \in Nat /\ Limit' \in Nat /\ Limit <= Limit'
      /\ (sim # "down" => Limit' = Limit + MaxPos)
  BY <1>2, LimitGrows DEF Types
<1>4. Sent(p)'
  BY <1>1, <1>2 DEF Paths, Sent, Flat
<1>5. Trading(q)'
  BY <1>1, <1>2, <1>3, TradingWider DEF Paths
<1>6. Linked(p, q)'
  <2> SUFFICES ASSUME linked', NEW s \in Symbols
               PROVE  IF 0 <= Len(orders) THEN Within(q[Len(out)][s] - p[0][s], Limit' - MaxPos)
                      ELSE Within(q[Len(out)][s], Limit' - 2 * MaxPos)
    BY <1>2 DEF Linked, Forwarding
  <2>1. sim = "listening" /\ out = <<>>
    BY <1>2 DEF Types
  <2>2. Len(out) = 0 /\ 0 <= Len(orders) /\ 0 \in 0 .. Len(out)
    BY <2>1, EmptySeq, LenProperties DEF Types
  <2>3. q[0][s] \in Int /\ Within(q[0][s], Limit) /\ p[0][s] = 0
    BY <1>1, <2>2 DEF Paths, Trading, Sent, IsPath, Flat
  <2>4. Within(q[0][s] - p[0][s], Limit' - MaxPos)
    BY <1>3, <2>1, <2>3 DEF Within
  <2> QED BY <2>2, <2>4
<1>7. Unborn'
  BY <1>2 DEF Exposure, Unborn, Flat
<1> QED BY <1>4, <1>5, <1>6, <1>7 DEF Exposure, Paths

\* What is on its way to an exchange that ends is lost.
LEMMA ExposureEndSim ==
  ASSUME Types, FileInv, Exposure, EndSim
  PROVE  Exposure'
<1>1. PICK p, q : Paths(p, q)
  BY DEF Exposure
<1>2. /\ out' = <<>> /\ linked' = FALSE
      /\ UNCHANGED <<orders, taken, sessions, filled, traded, liveUp, risk, lives>> /\ calm' = FALSE
  BY DEF EndSim, gateway, engine, exchange, counts, handlerVars
<1>3. traded \in [Symbols -> Int] /\ q[0] = traded /\ 0 \in 0 .. Len(out)
  BY <1>1, LenProperties DEF Types, TypeOK, Paths, Trading, IsPath
<1>4. PICK r : r = [i \in {0} |-> traded]
  OBVIOUS
<1>5. IsPath(r, traded, <<>>) /\ Len(<<>>) = 0 /\ r[0] = traded
  BY <1>3, <1>4, PathEmpty
<1>6. Limit' = Limit
  BY <1>2 DEF Limit
<1>7. Sent(p)'
  BY <1>1, <1>2 DEF Paths, Sent, Flat
<1>8. Trading(r)'
  <2>1. \A s \in Symbols : Within(traded[s], Limit)
    BY <1>1, <1>3 DEF Paths, Trading
  <2>2. \A i \in 0 .. Len(out'), s \in Symbols : Within(r[i][s], Limit')
    <3>1. 0 .. Len(out') = {0}
      BY <1>2, <1>5
    <3> QED BY <1>5, <1>6, <2>1, <3>1
  <2> QED BY <1>2, <1>5, <2>2 DEF Trading
<1>9. Linked(p, r)'
  BY <1>2 DEF Linked, Forwarding
<1>10. Unborn'
  BY <1>2 DEF Exposure, Unborn, Flat
<1> QED BY <1>7, <1>8, <1>9, <1>10 DEF Exposure, Paths

\* The risk check keeps the path of what has been sent within its limit.
LEMMA ExposureTrade ==
  ASSUME Types, FileInv, Exposure, calm => Pipeline, liveUp,
         NEW s \in Symbols, NEW b \in Bids, NEW a \in Asks, NEW side \in {"Buy", "Sell"},
         Trade(s, b, a, side), SendOrder(OrderOf(s, b, a, side)),
         UNCHANGED <<liveUp, taken, linked, out, filled, traded, lives, sessions, calm>>
  PROVE  Exposure'
<1>1. PICK p, q : Paths(p, q)
  BY DEF Exposure
<1>2. PICK o : o = OrderOf(s, b, a, side)
  OBVIOUS
<1>3. o \in OrderMessage /\ o.symbol = s /\ o.side = side
  BY <1>2, OrderType DEF Types, TypeOK
<1>4. risk' = After(risk, o) /\ risk' \in [Symbols -> -MaxPos .. MaxPos]
  <2>1. risk' = [risk EXCEPT ![s] = @ + Delta(side)] /\ HandlerTypeOK'
    BY TradeType DEF Types, TypeOK
  <2> QED BY <1>3, <2>1 DEF After, HandlerTypeOK
<1>5. orders \in Seq(OrderMessage) /\ orders' = Append(orders, o)
  BY <1>2 DEF Types, SendOrder
<1>6. PICK n : n = Len(orders)
  OBVIOUS
<1>7. n \in Nat /\ Len(orders') = n + 1 /\ taken \in Nat
  BY <1>3, <1>5, <1>6, LenProperties, AppendProperties DEF Types, TypeOK
<1>8. IsPath(p, Flat, orders) /\ p[n] = risk
  BY <1>1, <1>6 DEF Paths, Sent
<1>9. PICK r : /\ IsPath(r, Flat, orders') /\ r[n + 1] = After(p[n], o)
               /\ \A i \in 0 .. n : r[i] = p[i]
  BY <1>3, <1>5, <1>6, <1>8, PathAppend
<1>10. Limit' = Limit /\ Limit \in Nat /\ MaxPos \in Nat
  BY LimitGrows DEF Types
<1>11. r[n + 1] = risk'
  BY <1>4, <1>8, <1>9
<1>12. \A i \in 0 .. n + 1, t \in Symbols : r[i][t] \in Int /\ Within(r[i][t], MaxPos)
  <2> SUFFICES ASSUME NEW i \in 0 .. n + 1, NEW t \in Symbols
               PROVE  r[i][t] \in Int /\ Within(r[i][t], MaxPos)
    OBVIOUS
  <2>1. CASE i = n + 1
    <3>1. r[i][t] \in -MaxPos .. MaxPos
      BY <1>4, <1>11, <2>1
    <3> QED BY <1>10, <3>1 DEF Within
  <2>2. CASE i \in 0 .. n
    BY <1>1, <1>6, <1>8, <1>9, <2>2 DEF Paths, Sent, IsPath
  <2> QED BY <1>7, <2>1, <2>2
<1>13. Sent(r)'
  <2>1. calm' => r[filled'] = traded'
    <3> SUFFICES ASSUME calm PROVE r[filled] = traded
      OBVIOUS
    <3>1. filled \in 0 .. n
      BY <1>6, Counts
    <3> QED BY <1>1, <1>9, <3>1 DEF Paths, Sent
  <2>2. Flat' = Flat
    BY DEF Flat
  <2> QED BY <1>7, <1>9, <1>11, <1>12, <2>1, <2>2 DEF Sent
<1>14. Trading(q)'
  BY <1>1, <1>10, TradingWider DEF Paths
<1>15. Linked(r, q)'
  <2> SUFFICES ASSUME linked, NEW t \in Symbols
               PROVE  IF taken <= n + 1 THEN Within(q[Len(out)][t] - r[taken][t], Limit - MaxPos)
                      ELSE Within(q[Len(out)][t], Limit - 2 * MaxPos)
    BY <1>7, <1>10 DEF Linked, Forwarding
  <2>1. IF taken <= n THEN Within(q[Len(out)][t] - p[taken][t], Limit - MaxPos)
        ELSE Within(q[Len(out)][t], Limit - 2 * MaxPos)
    BY <1>1, <1>6 DEF Paths, Linked, Forwarding
  <2>2. CASE taken <= n
    <3>1. taken \in 0 .. n /\ taken <= n + 1
      BY <1>7, <2>2
    <3> QED BY <1>9, <2>1, <2>2, <3>1
  <2>3. CASE taken = n + 1
    <3>1. ~(taken <= n) /\ taken \in 0 .. n + 1 /\ taken <= n + 1
      BY <1>7, <2>3
    <3>2. q[Len(out)][t] \in Int
      BY <1>1, LenProperties DEF Types, Paths, Trading, IsPath
    <3>3. r[taken][t] \in Int /\ Within(r[taken][t], MaxPos)
      BY <1>12, <3>1
    <3>4. Within(q[Len(out)][t], Limit - 2 * MaxPos)
      BY <2>1, <3>1
    <3>5. Within(q[Len(out)][t] - r[taken][t], Limit - MaxPos)
      BY <1>10, <3>2, <3>3, <3>4 DEF Within
    <3> QED BY <3>1, <3>5
  <2>4. CASE taken > n + 1
    <3>1. ~(taken <= n) /\ ~(taken <= n + 1)
      BY <1>7, <2>4
    <3> QED BY <2>1, <3>1
  <2> QED BY <1>7, <2>2, <2>3, <2>4
<1>16. Unborn'
  BY DEF Exposure, Unborn
<1> QED BY <1>13, <1>14, <1>15, <1>16 DEF Exposure, Paths

\* Forwarding an order moves both paths by the same.
LEMMA ExposureForward ==
  ASSUME Types, FileInv, Exposure, Forward
  PROVE  Exposure'
<1>1. PICK p, q : Paths(p, q)
  BY DEF Exposure
<1>2. /\ taken < Len(orders) /\ taken' = taken + 1
      /\ out' = IF linked THEN Append(out, orders[taken + 1]) ELSE out
      /\ UNCHANGED <<orders, linked, sessions, filled, traded, liveUp, risk, lives, calm>>
  BY DEF Forward, gateway, exchange, counts, handlerVars
<1>3. taken \in Nat /\ Len(orders) \in Nat /\ taken + 1 \in 1 .. Len(orders)
      /\ taken \in 0 .. Len(orders) /\ taken + 1 \in 0 .. Len(orders)
  BY <1>2, LenProperties DEF Types, TypeOK
<1>4. Limit' = Limit /\ Limit \in Nat /\ MaxPos \in Nat
  BY <1>2, LimitGrows DEF Types
<1>5. Sent(p)'
  BY <1>1, <1>2 DEF Paths, Sent, Flat
<1>6. orders # <<>>
  BY <1>3, EmptySeq
<1>7. Unborn'
  BY <1>2, <1>6 DEF Exposure, Unborn
<1>8. CASE ~linked
  <2>1. Trading(q)'
    BY <1>1, <1>2, <1>4, <1>8, TradingWider DEF Paths
  <2>2. Linked(p, q)'
    BY <1>2, <1>8 DEF Linked, Forwarding
  <2> QED BY <1>5, <1>7, <2>1, <2>2 DEF Exposure, Paths
<1>9. CASE linked
  <2>1. PICK o : o = orders[taken + 1]
    OBVIOUS
  <2>2. o \in OrderMessage /\ out \in Seq(OrderMessage) /\ out' = Append(out, o)
    BY <1>2, <1>3, <1>9, <2>1, ElementOfSeq DEF Types
  <2>3. PICK n : n = Len(out)
    OBVIOUS
  <2>4. n \in Nat /\ Len(out') = n + 1
    BY <2>2, <2>3, LenProperties, AppendProperties
  <2>5. IsPath(q, traded, out)
    BY <1>1 DEF Paths, Trading
  <2>6. PICK r : /\ IsPath(r, traded, out') /\ r[n + 1] = After(q[n], o)
                 /\ \A i \in 0 .. n : r[i] = q[i]
    BY <2>2, <2>3, <2>5, PathAppend
  <2>7. /\ p[taken + 1] = After(p[taken], o)
        /\ p[taken] \in [Symbols -> Int] /\ p[taken + 1] \in [Symbols -> Int]
        /\ q[n] \in [Symbols -> Int]
    <3>1. IsPath(p, Flat, orders) /\ (taken + 1) - 1 = taken /\ n \in 0 .. n
      BY <1>1, <1>3, <2>4 DEF Paths, Sent
    <3> QED BY <1>3, <2>1, <2>3, <2>5, <3>1 DEF IsPath
  <2>8. ASSUME NEW s \in Symbols
        PROVE  /\ Within(r[n + 1][s] - p[taken + 1][s], Limit - MaxPos)
               /\ Within(r[n + 1][s], Limit)
    <3>1. Within(q[n][s] - p[taken][s], Limit - MaxPos)
      BY <1>1, <1>2, <1>3, <1>6, <1>9, <2>3 DEF Paths, Linked, Forwarding
    <3>2. Within(p[taken + 1][s], MaxPos)
      BY <1>1, <1>3 DEF Paths, Sent
    <3>3. PICK d \in Int : d = IF s = o.symbol THEN Delta(o.side) ELSE 0
      BY LimitAssumption DEF Delta
    <3>4. r[n + 1][s] = q[n][s] + d /\ p[taken + 1][s] = p[taken][s] + d
      BY <2>6, <2>7, <3>3 DEF After
    <3>5. q[n][s] \in Int /\ p[taken][s] \in Int
      BY <2>7
    <3> QED BY <1>4, <3>1, <3>2, <3>3, <3>4, <3>5 DEF Within
  <2>9. Trading(r)'
    <3>1. ASSUME NEW i \in 0 .. n + 1, NEW s \in Symbols PROVE Within(r[i][s], Limit)
      <4>1. CASE i = n + 1
        BY <2>8, <4>1
      <4>2. CASE i \in 0 .. n
        BY <1>1, <2>3, <2>6, <4>2 DEF Paths, Trading
      <4> QED BY <2>4, <4>1, <4>2
    <3> QED BY <1>2, <1>4, <2>4, <2>6, <3>1 DEF Trading
  <2>10. Linked(p, r)'
    <3>1. taken' <= Len(orders')
      BY <1>2, <1>3
    <3> QED BY <1>2, <1>4, <2>4, <2>8, <3>1 DEF Linked, Forwarding
  <2> QED BY <1>5, <1>7, <2>9, <2>10 DEF Exposure, Paths
<1> QED BY <1>8, <1>9

\* A fill is the next step of the path of what is on its way.
LEMMA ExposureFill ==
  ASSUME Types, FileInv, Exposure, calm => Pipeline, FillOrder
  PROVE  Exposure'
<1>1. PICK p, q : Paths(p, q)
  BY DEF Exposure
<1>2. PICK o : o = Head(out)
  OBVIOUS
<1>3. /\ out # <<>> /\ o \in OrderMessage /\ o = out[1] /\ out' = Tail(out) /\ filled' = filled + 1
      /\ traded' = After(traded, o)
      /\ UNCHANGED <<orders, taken, linked, sessions, liveUp, risk, lives, calm>>
  BY <1>2, FillIs DEF gateway, engine, counts, handlerVars
<1>4. PICK n : n = Len(out)
  OBVIOUS
<1>5. out \in Seq(OrderMessage) /\ IsPath(q, traded, out)
  BY <1>1 DEF Types, Paths, Trading
<1>6. n \in Nat \ {0} /\ Len(out') = n - 1
  BY <1>3, <1>4, <1>5, PathTail
<1>7. PICK r : IsPath(r, traded', out') /\ \A i \in 0 .. n - 1 : r[i] = q[i + 1]
  BY <1>2, <1>3, <1>4, <1>5, PathTail
<1>8. Limit' = Limit
  BY <1>3 DEF Limit
<1>9. Sent(p)'
  <2>1. calm' => p[filled'] = traded'
    <3> SUFFICES ASSUME calm PROVE p[filled + 1] = After(traded, o)
      BY <1>3
    <3>1. filled + 1 \in 1 .. Len(orders) /\ filled \in Nat /\ 1 \in 1 .. Len(out)
      BY <1>4, <1>6, Counts DEF Pipeline, Forwarded
    <3>2. o = orders[filled + 1]
      BY <1>3, <3>1 DEF Pipeline, Forwarded
    <3>3. p[filled + 1] = After(p[(filled + 1) - 1], orders[filled + 1])
      BY <1>1, <3>1 DEF Paths, Sent, IsPath
    <3>4. (filled + 1) - 1 = filled /\ p[filled] = traded
      BY <1>1, <3>1 DEF Paths, Sent
    <3> QED BY <3>2, <3>3, <3>4
  <2> QED BY <1>1, <1>3, <2>1 DEF Paths, Sent, Flat
<1>10. Trading(r)'
  <2>1. ASSUME NEW i \in 0 .. n - 1, NEW s \in Symbols PROVE Within(r[i][s], Limit)
    <3>1. i + 1 \in 0 .. n
      BY <1>6
    <3> QED BY <1>1, <1>4, <1>7, <3>1 DEF Paths, Trading
  <2> QED BY <1>6, <1>7, <1>8, <2>1 DEF Trading
<1>11. Linked(p, r)'
  <2>1. r[n - 1] = q[n]
    <3>1. n - 1 \in 0 .. n - 1 /\ (n - 1) + 1 = n
      BY <1>6
    <3> QED BY <1>7, <3>1
  <2> QED BY <1>1, <1>3, <1>4, <1>6, <1>8, <2>1 DEF Paths, Linked, Forwarding
<1>12. Unborn'
  BY <1>3 DEF Exposure, Unborn
<1> QED BY <1>9, <1>10, <1>11, <1>12 DEF Exposure, Paths

LEMMA ExposureStep ==
  ASSUME Types, FileInv, Exposure, calm => Pipeline, [Next]_vars PROVE Exposure'
<1>1. CASE StartLive
  BY <1>1, ExposureStartLive
<1>2. CASE StartEngine
  BY <1>2, ExposureStartEngine
<1>3. CASE EndSim
  BY <1>3, ExposureEndSim
<1>4. CASE StartSim \/ EndLive \/ EndEngine
  <2>1. /\ UNCHANGED <<orders, out, traded, lives, sessions, filled>>
        /\ calm' => calm
        /\ liveUp' => liveUp /\ risk' = risk
        /\ linked' => linked /\ taken' = taken
        /\ taken' \in {0, taken}
    BY <1>4 DEF StartSim, EndLive, EndEngine, handlerVars, gateway, engine, wire, exchange, counts
  <2> QED BY <2>1, ExposureSame
<1>5. CASE Packet
  <2>1. liveUp /\ UNCHANGED <<liveUp, taken, linked, out, filled, traded, lives, sessions, calm>>
    BY <1>5 DEF Packet, gateway, engine, wire, exchange, counts
  <2>2. CASE UNCHANGED <<orders, risk>>
    BY <2>1, <2>2, ExposureSame
  <2>3. ASSUME NEW s \in Symbols, NEW b \in Bids, NEW a \in Asks, NEW side \in {"Buy", "Sell"},
               Trade(s, b, a, side), SendOrder(OrderOf(s, b, a, side))
        PROVE  Exposure'
    BY <2>1, <2>3, ExposureTrade
  <2>4. \/ UNCHANGED <<orders, risk>>
        \/ \E s \in Symbols, b \in Bids, a \in Asks : \E side \in {"Buy", "Sell"} :
             Trade(s, b, a, side) /\ SendOrder(OrderOf(s, b, a, side))
    BY <1>5 DEF Packet, IgnorePacket, HandleStockDirectory, Quiet
  <2> QED BY <2>2, <2>3, <2>4
<1>6. CASE PollReport \/ PollEmpty \/ Publish
  <2>1. UNCHANGED <<orders, out, traded, lives, sessions, filled, calm, liveUp, risk, linked, taken>>
    BY <1>6 DEF PollReport, PollEmpty, Publish, Confirm, PollDone, handlerVars, gateway, engine,
                wire, exchange, counts
  <2> QED BY <2>1, ExposureSame
<1>7. CASE Forward
  BY <1>7, ExposureForward
<1>8. CASE FillOrder
  BY <1>8, ExposureFill
<1>9. CASE UNCHANGED vars
  <2>1. UNCHANGED <<orders, out, traded, lives, sessions, filled, calm, liveUp, risk, linked, taken>>
    BY <1>9 DEF vars, handlerVars, gateway, engine, wire, exchange, counts
  <2> QED BY <2>1, ExposureSame
<1>10. CASE OpenReports /\ reportFile
  BY <1>10, ExposureOpen
<1>11. CASE OpenReports /\ ~reportFile
  <2>1. UNCHANGED <<orders, out, traded, lives, sessions, filled, calm, risk, linked, taken>>
        /\ ~liveUp'
    BY <1>11 DEF OpenReports, handlerVars, engine, wire, exchange
  <2> QED BY <2>1, ExposureSame
<1> QED BY <1>1, <1>2, <1>3, <1>4, <1>5, <1>6, <1>7, <1>8, <1>9, <1>10, <1>11
        DEF Next, Live, Engine

LEMMA ExposureBound == Types /\ Exposure => ExposureOverRestarts
<1> SUFFICES ASSUME Types, Exposure, NEW s \in Symbols, traded[s] # 0,
                    NEW limit, limit = MaxPos * (sessions + 2 * (lives - 1))
             PROVE  traded[s] \in -limit .. limit
  BY DEF ExposureOverRestarts
<1>1. PICK p, q : Paths(p, q)
  BY DEF Exposure
<1>2. lives # 0
  BY DEF Exposure, Unborn, Flat
<1>3. Limit = limit
  BY <1>2 DEF Limit
<1>4. q[0] = traded /\ 0 \in 0 .. Len(out) /\ traded[s] \in Int
  BY <1>1, LenProperties DEF Types, TypeOK, Paths, Trading, IsPath
<1>5. Within(traded[s], limit)
  BY <1>1, <1>3, <1>4 DEF Paths, Trading
<1> QED BY <1>4, <1>5 DEF Within

\* The whole of what holds between any two steps.
LiveInv == Types /\ FileInv /\ Exposure /\ (calm => Pipeline)

LEMMA LiveInvariance == Spec => []LiveInv
<1>1. Init => LiveInv
  <2>1. Init => FileInv
    BY DEF Init, FileInv
  <2> QED BY <2>1, TypesInit, PipelineInit, ExposureInit DEF LiveInv
<1>2. LiveInv /\ [Next]_vars => LiveInv'
  BY TypesStep, StepKeepsFiles, CalmStep, PipelineStep, ExposureStep DEF LiveInv
<1> QED BY <1>1, <1>2, PTL DEF Spec

\* However often the processes end and start again, the position at the
\* exchange is within MaxPos for each connection of the execution engine and
\* twice that for each further life of the live engine.
THEOREM ExposureHolds == Spec => []ExposureOverRestarts
<1>1. LiveInv => ExposureOverRestarts
  BY ExposureBound DEF LiveInv
<1> QED BY <1>1, LiveInvariance, PTL

----------------------------------------------------------------------------
(* The refinement.                                                         *)

confirmedBar == nextId - Cardinality(UNION {tracker[s] : s \in Symbols})
ledgerVars == <<nextId, filled, confirmedBar, risk, traded, ~calm>>

\* The orders that are tracked are those whose report has not been read.
LEMMA ConfirmedIs == Types /\ Pipeline => confirmedBar = nextSeq
<1> SUFFICES ASSUME Types, Pipeline PROVE confirmedBar = nextSeq
  OBVIOUS
<1>1. nextSeq \in Nat /\ nextId \in Nat /\ nextSeq <= nextId /\ Len(orders) = nextId
  BY Counts
<1>2. UNION {tracker[s] : s \in Symbols} = nextSeq .. nextId - 1
  <2>1. \A s \in Symbols : tracker[s] = {n \in nextSeq .. nextId - 1 : orders[n + 1].symbol = s}
    BY DEF Pipeline, Tracked
  <2>2. ASSUME NEW n \in nextSeq .. nextId - 1 PROVE orders[n + 1].symbol \in Symbols
    <3>1. n + 1 \in 1 .. Len(orders)
      BY <1>1
    <3>2. orders[n + 1] \in OrderMessage
      BY <3>1, ElementOfSeq DEF Types
    <3> QED BY <3>2 DEF OrderMessage
  <2> QED BY <2>1, <2>2
<1>3. Cardinality(nextSeq .. nextId - 1)
      = IF nextSeq > nextId - 1 THEN 0 ELSE (nextId - 1) - nextSeq + 1
  BY <1>1, FS_Interval
<1>4. Cardinality(nextSeq .. nextId - 1) = nextId - nextSeq
  BY <1>1, <1>3
<1>5. Cardinality(UNION {tracker[s] : s \in Symbols}) = nextId - nextSeq
  BY <1>2, <1>4, Zenon
<1>6. nextId - (nextId - nextSeq) = nextSeq
  BY <1>1
<1> QED BY <1>5, <1>6, Zenon DEF confirmedBar

LEMMA LedgerInit == Init => Ledger!Init
<1> SUFFICES ASSUME Init PROVE Ledger!Init
  OBVIOUS
<1>1. nextId = 0 /\ filled = 0 /\ nextSeq = 0
  BY DEF Init, HandlerInit
<1>2. confirmedBar = 0
  BY <1>1, TypesInit, PipelineInit, ConfirmedIs
<1>3. nextId - Cardinality(UNION {tracker[s] : s \in Symbols}) = 0
  BY <1>2 DEF confirmedBar
<1>4. risk = [s \in Symbols |-> 0] /\ traded = [s \in Symbols |-> 0]
  BY DEF Init, HandlerInit
<1>5. (~calm) \in BOOLEAN
  OBVIOUS
<1> QED BY <1>1, <1>3, <1>4, <1>5, Zenon DEF Ledger!Init

\* An order that goes out.
LEMMA LedgerSend ==
  ASSUME Types, Types', confirmedBar' = confirmedBar, UNCHANGED <<filled, traded, calm>>,
         NEW s \in Symbols, NEW b \in Bids, NEW a \in Asks, NEW side \in {"Buy", "Sell"},
         Trade(s, b, a, side)
  PROVE  Ledger!Send /\ UNCHANGED calm
<1>1. nextId' = nextId + 1 /\ risk' = [risk EXCEPT ![s] = @ + Delta(side)]
  BY TradeType DEF Types, TypeOK
<1>2. Delta(side) \in {Lot, -Lot} /\ risk' \in [Symbols -> -MaxPos .. MaxPos]
  BY DEF Delta, Types, TypeOK, HandlerTypeOK
<1>3. Ledger!OneLot(risk, s, risk')
  BY <1>1, <1>2 DEF Ledger!OneLot, Ledger!Allowed
<1>4. UNCHANGED <<filled, nextId - Cardinality(UNION {tracker[t] : t \in Symbols}), traded>>
  BY DEF confirmedBar
<1> QED BY <1>1, <1>3, <1>4 DEF Ledger!Send

\* One that is filled: its effect is on the path of what was sent, and at the
\* end of the path is what the risk check believes.
LEMMA LedgerFill ==
  ASSUME LiveInv, LiveInv', calm, confirmedBar' = confirmedBar, FillOrder
  PROVE  Ledger!Fill /\ UNCHANGED calm
<1>1. Types /\ Pipeline /\ Exposure
  BY DEF LiveInv
<1>2. PICK p, q : Paths(p, q)
  BY <1>1 DEF Exposure
<1>3. PICK o : o = Head(out)
  OBVIOUS
<1>4. /\ out # <<>> /\ o \in OrderMessage /\ o = out[1] /\ filled' = filled + 1
      /\ traded' = After(traded, o) /\ UNCHANGED <<nextId, risk, orders, liveUp, calm>>
  BY <1>1, <1>3, FillIs DEF gateway, handlerVars
<1>5. Len(out) \in Nat \ {0}
  BY <1>1, <1>4, HeadTailIs DEF Types
<1>6. filled \in Nat /\ filled < nextId /\ nextId \in Nat /\ Len(orders) = nextId
      /\ filled + 1 \in 1 .. Len(orders) /\ filled + 1 \in 0 .. Len(orders) /\ 1 \in 1 .. Len(out)
      /\ (filled + 1) - 1 = filled
  BY <1>1, <1>5, Counts DEF Pipeline, Forwarded
<1>7. traded' = p[filled + 1]
  <2>1. o = orders[filled + 1]
    BY <1>1, <1>4, <1>6 DEF Pipeline, Forwarded
  <2>2. IsPath(p, Flat, orders) /\ p[filled] = traded
    BY <1>2 DEF Paths, Sent
  <2>3. p[filled + 1] = After(p[(filled + 1) - 1], orders[filled + 1])
    BY <1>6, <2>2 DEF IsPath
  <2> QED BY <1>4, <1>6, <2>1, <2>2, <2>3
<1>8. traded' \in [Symbols -> -MaxPos .. MaxPos]
  <2>1. p[filled + 1] \in [Symbols -> Int]
    BY <1>2, <1>6 DEF Paths, Sent, IsPath
  <2>2. \A s \in Symbols : p[filled + 1][s] \in -MaxPos .. MaxPos
    BY <1>2, <1>6, <2>1, LimitAssumption DEF Paths, Sent, Within
  <2> QED BY <1>7, <2>1, <2>2
<1>9. o.symbol \in Symbols /\ Delta(o.side) \in {Lot, -Lot}
      /\ traded' = [traded EXCEPT ![o.symbol] = @ + Delta(o.side)]
  BY <1>4 DEF OrderMessage, Delta, After
<1>10. Ledger!OneLot(traded, o.symbol, traded')
  BY <1>8, <1>9 DEF Ledger!OneLot, Ledger!Allowed
<1>11. Ledger!Settled
  <2> SUFFICES ASSUME filled' = nextId' PROVE traded' = risk'
    BY DEF Ledger!Settled
  <2>1. Len(orders) = filled + 1
    BY <1>4, <1>6
  <2>2. liveUp
    BY <1>1, <1>6 DEF Types, TypeOK
  <2>3. p[Len(orders)] = risk
    BY <1>2, <2>2 DEF Paths, Sent
  <2> QED BY <1>4, <1>7, <2>1, <2>3
<1>12. UNCHANGED <<nextId, nextId - Cardinality(UNION {tracker[t] : t \in Symbols}), risk>>
  BY <1>4 DEF confirmedBar
<1> QED BY <1>4, <1>6, <1>9, <1>10, <1>11, <1>12 DEF Ledger!Fill

\* A packet with an order is a Send, a fill a Fill, a report that is read a
\* Confirm; the end of a process makes the promise void.
LEMMA LedgerStep == LiveInv /\ LiveInv' /\ [Next]_vars => [Ledger!Next]_ledgerVars
<1> SUFFICES ASSUME LiveInv, LiveInv', [Next]_vars PROVE [Ledger!Next]_ledgerVars
  OBVIOUS
<1>1. CASE ~calm'
  BY <1>1 DEF Ledger!Next
<1>2. CASE calm'
  <2>1. calm /\ Types /\ Types' /\ Pipeline /\ Pipeline'
    BY <1>2, CalmStep DEF LiveInv
  <2>2. confirmedBar = nextSeq /\ confirmedBar' = nextSeq'
    <3>1. confirmedBar = nextSeq
      BY <2>1, ConfirmedIs
    <3>2. (Types /\ Pipeline => confirmedBar = nextSeq)'
      BY ConfirmedIs, PTL
    <3> QED BY <2>1, <3>1, <3>2
  <2>3. ASSUME Ledger!Kept, UNCHANGED calm PROVE Ledger!Next
    BY <2>1, <2>3 DEF Ledger!Next
  <2>4. CASE UNCHANGED <<nextId, filled, nextSeq, risk, traded, calm>>
    BY <2>2, <2>4 DEF ledgerVars
  <2>5. CASE Packet
    <3>1. UNCHANGED <<filled, nextSeq, traded, calm>>
      BY <2>5 DEF Packet, gateway, exchange
    <3>2. CASE UNCHANGED <<nextId, risk>>
      BY <2>4, <3>1, <3>2
    <3>3. ASSUME NEW s \in Symbols, NEW b \in Bids, NEW a \in Asks, NEW side \in {"Buy", "Sell"},
                 Trade(s, b, a, side)
          PROVE  Ledger!Next
      <4>1. Ledger!Send /\ UNCHANGED calm
        BY <2>1, <2>2, <3>1, <3>3, LedgerSend
      <4> QED BY <2>1, <4>1 DEF Ledger!Next, Ledger!Kept
    <3>4. \/ UNCHANGED <<nextId, risk>>
          \/ \E s \in Symbols, b \in Bids, a \in Asks : \E side \in {"Buy", "Sell"} :
               Trade(s, b, a, side)
      BY <2>5 DEF Packet, IgnorePacket, HandleStockDirectory, Quiet
    <3> QED BY <3>2, <3>3, <3>4
  <2>6. CASE PollReport
    <3>1. nextSeq < Len(reports) /\ nextSeq' = nextSeq + 1
          /\ UNCHANGED <<nextId, filled, risk, traded, calm>>
      BY <2>6 DEF PollReport, exchange, Confirm
    <3>2. confirmedBar < filled /\ confirmedBar' = confirmedBar + 1
      <4>1. nextSeq \in Nat /\ filled \in Nat /\ Len(reports) \in Nat /\ Len(reports) <= filled
        BY <2>1, Counts
      <4> QED BY <2>2, <3>1, <4>1
    <3>3. Ledger!Confirm
      BY <3>1, <3>2 DEF Ledger!Confirm, confirmedBar
    <3> QED BY <2>1, <3>1, <3>3 DEF Ledger!Next, Ledger!Kept
  <2>7. CASE FillOrder
    <3>1. nextSeq' = nextSeq
      BY <2>7 DEF FillOrder, gateway
    <3>2. Ledger!Fill /\ UNCHANGED calm
      BY <2>1, <2>2, <2>7, <3>1, LedgerFill
    <3> QED BY <2>1, <3>2 DEF Ledger!Next, Ledger!Kept
  <2>8. CASE \/ StartLive \/ OpenReports \/ StartEngine \/ StartSim \/ PollEmpty \/ Forward \/ Publish
             \/ UNCHANGED vars
    <3>1. UNCHANGED <<nextId, filled, nextSeq, risk, traded, calm>>
      BY <2>8 DEF StartLive, OpenReports, StartEngine, StartSim, PollEmpty, PollDone, Forward, Publish, vars,
                  handlerVars, gateway, exchange
    <3> QED BY <2>4, <3>1
  <2>9. CASE EndLive \/ EndEngine \/ EndSim
    BY <1>2, <2>9 DEF EndLive, EndEngine, EndSim
  <2> QED BY <2>5, <2>6, <2>7, <2>8, <2>9 DEF Next, Live, Engine
<1> QED BY <1>1, <1>2

\* As long as no process has ended the live system keeps the promise of the
\* order ledger.
THEOREM LiveKeepsLedger == Spec => KeepsLedger
<1>1. LiveInv /\ LiveInv' /\ [Next]_vars => [Ledger!Next]_(Ledger!vars)
  BY LedgerStep DEF Ledger!vars, ledgerVars, confirmedBar
<1> QED BY LedgerInit, LiveInvariance, <1>1, PTL DEF Spec, KeepsLedger, Ledger!Spec

=============================================================================
