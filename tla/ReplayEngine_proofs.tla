------------------------- MODULE ReplayEngine_proofs -------------------------
(***************************************************************************)
(* Proofs about ReplayEngine, for any symbols, quotes, lot, limits and     *)
(* number of orders.                                                       *)
(***************************************************************************)
EXTENDS ReplayEngine, TLAPS

EmptyTracker == [s \in Symbols |-> {}]

LEMMA InitInv == Init => IInv
<1> SUFFICES ASSUME Init PROVE IInv
  OBVIOUS
<1>1. TypeOK
  BY LimitAssumption DEF Init, HandlerInit, TypeOK, HandlerTypeOK, NoRecord
<1>2. RiskIsPosition
  BY DEF Init, HandlerInit, RiskIsPosition
<1>3. OneAtATime
  BY DEF Init, HandlerInit, OneAtATime
<1>4. MidpointsAgree
  <2>1. \A s \in Symbols : mid[s] = 0 /\ lastMid[s] = 0 /\ telemetry[s].mid = 0
    BY DEF Init, HandlerInit, NoRecord
  <2>2. 0 \div 2 = 0
    OBVIOUS
  <2> QED BY <2>1, <2>2 DEF MidpointsAgree
<1> QED BY <1>1, <1>2, <1>3, <1>4 DEF IInv

\* The quotes of both sides are records, at prices above 0.
LEMMA QuoteType ==
  ASSUME NEW b \in Bids, NEW a \in Asks, TwoSided(b, a)
  PROVE  /\ b \in [px : Nat \ {0}, qty : Nat]
         /\ a \in [px : Nat \ {0}, qty : Nat]
  BY LevelAssumption DEF TwoSided, Levels

\* A midpoint is found when, and only when, both sides are quoted.
LEMMA MidpointType ==
  ASSUME NEW b \in Bids, NEW a \in Asks
  PROVE  /\ Midpoint(b, a) \in Nat
         /\ TwoSided(b, a) => Midpoint(b, a) > 0 /\ Midpoint(b, a) = (b.px + a.px) \div 2
         /\ ~TwoSided(b, a) => Midpoint(b, a) = 0
<1>1. CASE TwoSided(b, a)
  <2>1. b.px \in Nat \ {0} /\ a.px \in Nat \ {0}
    BY <1>1, QuoteType
  <2>2. PriceOr0(b) > 0 /\ PriceOr0(a) > 0
    BY <1>1, <2>1 DEF TwoSided, PriceOr0
  <2>3. Midpoint(b, a) = (b.px + a.px) \div 2
    BY <2>2 DEF Midpoint
  <2>4. (b.px + a.px) \div 2 \in Nat /\ (b.px + a.px) \div 2 > 0
    BY <2>1
  <2> QED BY <1>1, <2>3, <2>4
<1>2. CASE ~TwoSided(b, a)
  BY <1>2 DEF TwoSided, PriceOr0, Midpoint
<1> QED BY <1>1, <1>2

\* A quote moves the strategy's midpoint and the handler's together.
LEMMA MidStep ==
  ASSUME TypeOK, MidpointsAgree, NEW s \in Symbols, NEW b \in Bids, NEW a \in Asks,
         Observe(s, b, a)
  PROVE  /\ mid' \in [Symbols -> Nat]
         /\ lastMid' \in [Symbols -> Nat]
         /\ \A t \in Symbols : lastMid'[t] = mid'[t] \div 2
<1>1. /\ mid \in [Symbols -> Nat] /\ lastMid \in [Symbols -> Nat]
      /\ \A t \in Symbols : lastMid[t] = mid[t] \div 2
  BY DEF TypeOK, HandlerTypeOK, MidpointsAgree
<1>2. CASE TwoSided(b, a)
  <2>1. b.px \in Nat /\ a.px \in Nat
    BY <1>2, QuoteType
  <2>2. b.px + a.px \in Nat
    BY <2>1
  <2>3. Midpoint(b, a) \in Nat /\ Midpoint(b, a) > 0 /\ Midpoint(b, a) = (b.px + a.px) \div 2
    BY <1>2, MidpointType
  <2>4. mid' = [mid EXCEPT ![s] = b.px + a.px]
    BY <1>2 DEF Observe
  <2>5. lastMid' = [lastMid EXCEPT ![s] = Midpoint(b, a)]
    BY <1>1, <2>3 DEF Observe, Moves
  <2> QED BY <1>1, <2>2, <2>3, <2>4, <2>5
<1>3. CASE ~TwoSided(b, a)
  <2>1. ~Moves(s, b, a)
    BY <1>3, MidpointType DEF Moves
  <2> QED BY <1>1, <1>3, <2>1 DEF Observe
<1> QED BY <1>2, <1>3

\* And the dashboard with them.
LEMMA TelemetryStep ==
  ASSUME TypeOK, MidpointsAgree, NEW s \in Symbols, NEW b \in Bids, NEW a \in Asks,
         Observe(s, b, a), SendTelemetry(s, b, a),
         positions' \in [Symbols -> Int], cash' \in [Symbols -> Int]
  PROVE  /\ telemetry' \in [Symbols -> [mid : Nat, position : Int, equity : Int]]
         /\ MidpointsAgree'
<1>1. /\ \A t \in Symbols : lastMid'[t] = mid'[t] \div 2
      /\ lastMid' = IF Moves(s, b, a) THEN [lastMid EXCEPT ![s] = Midpoint(b, a)] ELSE lastMid
  BY MidStep DEF Observe
<1>2. /\ lastMid \in [Symbols -> Nat]
      /\ telemetry \in [Symbols -> [mid : Nat, position : Int, equity : Int]]
      /\ \A t \in Symbols : telemetry[t].mid = lastMid[t]
  BY DEF TypeOK, HandlerTypeOK, MidpointsAgree
<1>3. CASE ~Moves(s, b, a)
  BY <1>1, <1>2, <1>3 DEF SendTelemetry, MidpointsAgree
<1>4. CASE Moves(s, b, a)
  <2> DEFINE rec == [mid |-> Midpoint(b, a), position |-> positions'[s],
                     equity |-> cash'[s] + positions'[s] * Midpoint(b, a)]
  <2>1. telemetry' = [telemetry EXCEPT ![s] = rec]
    BY <1>4 DEF SendTelemetry
  <2>2. Midpoint(b, a) \in Nat
    BY MidpointType
  <2>3. cash'[s] + positions'[s] * Midpoint(b, a) \in Int
    BY <2>2
  <2>4. rec \in [mid : Nat, position : Int, equity : Int] /\ rec.mid = Midpoint(b, a)
    BY <2>2, <2>3
  <2> HIDE DEF rec
  <2>5. \A t \in Symbols : telemetry'[t].mid = lastMid'[t]
    BY <1>1, <1>2, <1>4, <2>1, <2>4
  <2> QED BY <1>1, <1>2, <2>1, <2>4, <2>5 DEF MidpointsAgree
<1> QED BY <1>3, <1>4

\* What an order that goes out does, beyond the midpoint.
LEMMA TradeInv ==
  ASSUME IInv, NEW s \in Symbols, NEW b \in Bids, NEW a \in Asks,
         NEW side \in {"Buy", "Sell"},
         Trade(s, b, a, side), SendOrder(OrderOf(s, b, a, side)), SendTelemetry(s, b, a)
  PROVE  IInv'
<1> USE LimitAssumption DEF IInv
<1> DEFINE r == Fill(OrderOf(s, b, a, side))
<1>1. /\ TwoSided(b, a) /\ phase = "idle" /\ s \in mapped
      /\ nextId < MaxOrders /\ nextId' = nextId + 1
      /\ phase' = "polling" /\ mapped' = mapped /\ position' = position
      /\ risk[s] + Delta(side) \in -MaxPos .. MaxPos
      /\ risk' = [risk EXCEPT ![s] = @ + Delta(side)]
      /\ tracker' = [tracker EXCEPT ![s] = @ \union {nextId}]
      /\ pending' = Append(pending, r)
      /\ positions' = [positions EXCEPT ![s] =
                         IF side = "Buy" THEN @ + Lot ELSE @ - Lot]
      /\ cash' = [cash EXCEPT ![s] =
                    IF side = "Buy" THEN @ - Lot * Price(side, b, a)
                    ELSE @ + Lot * Price(side, b, a)]
  BY DEF Trade, Observe, Signals, Passes, SendOrder, OrderOf
<1>2. b.px \in Nat /\ a.px \in Nat
  BY <1>1, QuoteType
<1>3. nextId \in Nat
  BY DEF TypeOK, HandlerTypeOK
<1>4. Price(side, b, a) \in Nat
  BY <1>2 DEF Price
<1>5. r \in Report /\ r.id = nextId /\ r.symbol = s
  BY <1>3, <1>4 DEF Report, Fill, OrderOf
<1>6. pending = <<>> /\ tracker = [t \in Symbols |-> {}]
  BY <1>1 DEF OneAtATime
<1>7. OneAtATime'
  <2>1. pending' = <<r>>
    BY <1>1, <1>5, <1>6
  <2>2. tracker' = [t \in Symbols |-> IF t = r.symbol THEN {r.id} ELSE {}]
    BY <1>1, <1>5, <1>6
  <2> HIDE DEF r
  <2> QED BY <1>1, <1>5, <2>1, <2>2 DEF OneAtATime, Report
<1>8. mid' \in [Symbols -> Nat] /\ lastMid' \in [Symbols -> Nat]
  BY MidStep DEF Trade
<1>9. risk' \in [Symbols -> -MaxPos .. MaxPos]
  BY <1>1 DEF TypeOK, HandlerTypeOK
<1>10. tracker' \in [Symbols -> SUBSET (0 .. nextId' - 1)]
  BY <1>1, <1>3, <1>6
<1>11. RiskIsPosition'
  <2>1. risk[s] \in Int /\ Lot \in Int
    BY DEF TypeOK, HandlerTypeOK
  <2> QED BY <1>1, <2>1 DEF RiskIsPosition, Delta, TypeOK, HandlerTypeOK
<1>12. positions' \in [Symbols -> Int]
  BY <1>9, <1>11 DEF RiskIsPosition
<1>13. pending' \in Seq(Report)
  BY <1>1, <1>5 DEF TypeOK
<1>14. cash' \in [Symbols -> Int]
  <2>1. Lot * Price(side, b, a) \in Nat
    BY <1>4
  <2> HIDE DEF r
  <2> QED BY <1>1, <2>1 DEF TypeOK
<1>15. /\ telemetry' \in [Symbols -> [mid : Nat, position : Int, equity : Int]]
       /\ MidpointsAgree'
  BY <1>12, <1>14, TelemetryStep DEF Trade
<1>16. TypeOK'
  <2>1. nextId' \in 0 .. MaxOrders
    BY <1>1 DEF TypeOK, HandlerTypeOK
  <2>2. phase' \in {"idle", "polling"} /\ mapped' \subseteq Symbols
        /\ position' \in [Symbols -> Nat]
    BY <1>1 DEF TypeOK, HandlerTypeOK
  <2>3. HandlerTypeOK'
    BY <1>8, <1>9, <1>10, <2>1, <2>2 DEF HandlerTypeOK
  <2> HIDE DEF r
  <2> QED BY <1>12, <1>13, <1>14, <1>15, <2>3 DEF TypeOK, Report
<1> QED BY <1>7, <1>11, <1>15, <1>16

LEMMA StepInv == IInv /\ [Next]_vars => IInv'
<1> SUFFICES ASSUME IInv, [Next]_vars PROVE IInv'
  OBVIOUS
<1> USE LimitAssumption DEF IInv
<1>1. CASE IgnorePacket /\ UNCHANGED <<gatewayVars, telemetry>>
  BY <1>1 DEF IgnorePacket, gatewayVars, MidpointsAgree, TypeOK, HandlerTypeOK, RiskIsPosition,
              OneAtATime, Report
<1>2. ASSUME NEW s \in Symbols, HandleStockDirectory(s),
             UNCHANGED <<gatewayVars, telemetry>>
      PROVE  IInv'
  BY <1>2 DEF HandleStockDirectory, gatewayVars, MidpointsAgree, TypeOK, HandlerTypeOK,
              RiskIsPosition, OneAtATime, Report
<1>3. ASSUME NEW s \in Symbols, NEW b \in Bids, NEW a \in Asks,
             Quiet(s, b, a), UNCHANGED gatewayVars, SendTelemetry(s, b, a)
      PROVE  IInv'
  <2>1. mid' \in [Symbols -> Nat] /\ lastMid' \in [Symbols -> Nat]
    BY <1>3, MidStep DEF Quiet
  <2>2. /\ telemetry' \in [Symbols -> [mid : Nat, position : Int, equity : Int]]
        /\ MidpointsAgree'
    BY <1>3, TelemetryStep DEF Quiet, gatewayVars, TypeOK
  <2> QED BY <1>3, <2>1, <2>2 DEF Quiet, Observe, gatewayVars, TypeOK, HandlerTypeOK,
             RiskIsPosition, OneAtATime, Report
<1>4. CASE PollFill
  <2>1. PICK r \in Report :
          /\ pending = <<r>> /\ phase = "polling"
          /\ r.symbol \in mapped
          /\ tracker = [s \in Symbols |-> IF s = r.symbol THEN {r.id} ELSE {}]
    BY <1>4 DEF PollFill, OneAtATime
  <2>2. Head(pending) = r /\ Tail(pending) = <<>>
    BY <2>1
  <2>3. Expected(r)
    BY <2>1 DEF Expected, Report
  <2>4. /\ position' = [position EXCEPT ![r.symbol] = @ + r.qty]
        /\ tracker' = [tracker EXCEPT ![r.symbol] = @ \ {r.id}]
        /\ pending' = <<>>
        /\ UNCHANGED <<phase, mapped, mid, lastMid, risk, nextId, positions, cash, telemetry>>
    BY <1>4, <2>2, <2>3 DEF PollFill, Confirm
  <2>5. tracker' = [s \in Symbols |-> {}]
    BY <2>1, <2>4
  <2>6. position' \in [Symbols -> Nat]
    BY <2>4 DEF TypeOK, HandlerTypeOK, Report
  <2>7. TypeOK'
    <3>1. HandlerTypeOK'
      BY <2>4, <2>5, <2>6 DEF TypeOK, HandlerTypeOK
    <3>2. pending' \in Seq(Report)
      BY <2>4
    <3> QED BY <2>4, <3>1, <3>2 DEF TypeOK, Report
  <2>8. OneAtATime'
    BY <2>4, <2>5 DEF OneAtATime
  <2>9. RiskIsPosition' /\ MidpointsAgree'
    BY <2>4 DEF RiskIsPosition, MidpointsAgree
  <2> QED BY <2>7, <2>8, <2>9
<1>5. CASE PollNothing
  BY <1>5 DEF PollNothing, PollDone, gatewayVars, MidpointsAgree, TypeOK, HandlerTypeOK,
              RiskIsPosition, OneAtATime, Report
<1>6. CASE UNCHANGED vars
  BY <1>6 DEF vars, gatewayVars, MidpointsAgree, TypeOK, HandlerTypeOK, RiskIsPosition, OneAtATime, Report
<1> QED BY <1>1, <1>2, <1>3, <1>4, <1>5, <1>6, TradeInv DEF Next, Packet, Event

----------------------------------------------------------------------------
(* The theorems.                                                           *)

THEOREM Invariance == Spec => []IInv
  BY InitInv, StepInv, PTL DEF Spec

\* Types, and the inventory limit on what the risk engine believes.
THEOREM TypeCorrect == Spec => []TypeOK
<1>1. IInv => TypeOK
  BY DEF IInv
<1> QED BY Invariance, <1>1, PTL

\* What the risk engine believes is what the gateway booked.
THEOREM RiskTracksPosition == Spec => []RiskIsPosition
<1>1. IInv => RiskIsPosition
  BY DEF IInv
<1> QED BY Invariance, <1>1, PTL

\* The inventory limit holds for what was really traded.
THEOREM ExposureLimit == Spec => []ExposureBounded
<1>1. IInv => ExposureBounded
  BY DEF IInv, RiskIsPosition, ExposureBounded, TypeOK, HandlerTypeOK
<1> QED BY Invariance, <1>1, PTL

\* Every order has been reported when its packet is done.
THEOREM EveryPacketSettles == Spec => []PacketSettles
<1>1. IInv => PacketSettles
  BY DEF IInv, OneAtATime, PacketSettles
<1> QED BY Invariance, <1>1, PTL

\* No report that waits would be ignored, and none is missing.
THEOREM ReportsAreExpected == Spec => []ReportsMatchTracker
<1>1. IInv => ReportsMatchTracker
  <2> SUFFICES ASSUME IInv PROVE ReportsMatchTracker
    OBVIOUS
  <2>1. CASE pending = <<>> /\ tracker = [s \in Symbols |-> {}]
    BY <2>1 DEF ReportsMatchTracker
  <2>2. ASSUME NEW r \in Report, pending = <<r>>, r.symbol \in mapped,
               tracker = [s \in Symbols |-> IF s = r.symbol THEN {r.id} ELSE {}]
        PROVE  ReportsMatchTracker
    <3>1. DOMAIN pending = {1} /\ pending[1] = r /\ r.symbol \in Symbols
      BY <2>2 DEF Report
    <3>2. Expected(r)
      BY <2>2, <3>1 DEF Expected
    <3>3. \A s \in Symbols : \A id \in tracker[s] : r.id = id /\ r.symbol = s
      BY <2>2
    <3> QED BY <3>1, <3>2, <3>3 DEF ReportsMatchTracker
  <2> QED BY <2>1, <2>2 DEF IInv, OneAtATime
<1> QED BY Invariance, <1>1, PTL

\* The strategy's position moves only with a report, and by one lot.
THEOREM StrategyToldOnce == Spec => ToldOnce
<1> DEFINE Told ==
      \A s \in Symbols :
        position'[s] # position[s] =>
          /\ position'[s] = position[s] + Lot
          /\ \E id \in tracker[s] : tracker'[s] = tracker[s] \ {id}
<1>1. IInv /\ [Next]_vars => [Told]_vars
  <2> SUFFICES ASSUME IInv, Next PROVE Told
    OBVIOUS
  <2>1. CASE Packet \/ PollNothing
    <3>1. position' = position
      BY <2>1 DEF Packet, PollNothing, PollDone, IgnorePacket, HandleStockDirectory,
                  Event, Quiet, Trade, Observe
    <3> QED BY <3>1
  <2>2. CASE PollFill
    <3> DEFINE r == Head(pending)
    <3>1. CASE ~Expected(r)
      BY <2>2, <3>1 DEF PollFill, Confirm
    <3>2. CASE Expected(r)
      <4>1. /\ position' = [position EXCEPT ![r.symbol] = @ + r.qty]
            /\ tracker' = [tracker EXCEPT ![r.symbol] = @ \ {r.id}]
        BY <2>2, <3>2 DEF PollFill, Confirm
      <4>2. r.id \in tracker[r.symbol] /\ r.qty = Lot
        <5>1. PICK q \in Report : pending = <<q>>
          BY <2>2 DEF PollFill, IInv, OneAtATime
        <5>2. r = q
          BY <5>1
        <5> QED BY <3>2, <5>1, <5>2 DEF Report, Expected
      <4> HIDE DEF r
      <4> QED BY <4>1, <4>2 DEF IInv, TypeOK, HandlerTypeOK
    <3> QED BY <3>1, <3>2
  <2> QED BY <2>1, <2>2 DEF Next
<1> QED BY Invariance, <1>1, PTL DEF Spec, ToldOnce

\* The strategy's midpoint, the handler's and the dashboard's agree.
THEOREM MidpointsStayTogether == Spec => []MidpointsAgree
<1>1. IInv => MidpointsAgree
  BY DEF IInv
<1> QED BY Invariance, <1>1, PTL

\* What a lot bought at or above m, or sold at or below it, is worth at m.
LEMMA AtMidpoint ==
  ASSUME NEW c \in Int, NEW p \in Int, NEW n \in Nat, NEW x \in Nat, NEW y \in Nat,
         NEW m \in Nat, x <= m, m <= y
  PROVE  /\ (c - n * y) + (p + n) * m <= c + p * m
         /\ (c + n * x) + (p - n) * m <= c + p * m
<1>1. n * m <= n * y /\ n * x <= n * m
  BY Z3
<1>2. (p + n) * m = p * m + n * m
  BY Z3
<1>3. (p - n) * m = p * m - n * m
  BY Z3
<1> DEFINE w == p * m
           nm == n * m
           nx == n * x
           ny == n * y
<1>4. w \in Int /\ nm \in Int /\ nx \in Int /\ ny \in Int
  OBVIOUS
<1>5. nm <= ny /\ nx <= nm
  BY <1>1
<1> HIDE DEF w, nm, nx, ny
<1>6. (c - ny) + (w + nm) <= c + w
  BY <1>4, <1>5
<1>7. (c + nx) + (w - nm) <= c + w
  BY <1>4, <1>5
<1> QED BY <1>2, <1>3, <1>6, <1>7 DEF w, nm, nx, ny

\* An order that the dashboard does not show costs the account, at the midpoint
\* shown, unless the book is crossed.
LEMMA UnshownCosts ==
  ASSUME IInv, NEW s \in Symbols, NEW b \in Bids, NEW a \in Asks,
         NEW side \in {"Buy", "Sell"},
         Trade(s, b, a, side), SendOrder(OrderOf(s, b, a, side)),
         telemetry' = telemetry, telemetry[s].mid = (b.px + a.px) \div 2, b.px <= a.px
  PROVE  Excess(s)' >= Excess(s)
<1> DEFINE m == telemetry[s].mid
           e == telemetry[s].equity
<1>1. TwoSided(b, a)
  BY DEF Trade, Signals
<1>2. b.px \in Nat /\ a.px \in Nat
  BY <1>1, QuoteType
<1>3. positions[s] \in Int /\ cash[s] \in Int /\ Lot \in Nat /\ e \in Int /\ m \in Nat
      /\ positions \in [Symbols -> Int] /\ cash \in [Symbols -> Int]
  BY LimitAssumption DEF IInv, TypeOK
<1>4. b.px <= m /\ m <= a.px
  BY <1>2
<1> HIDE DEF m, e
<1>5. Excess(s) = e - (cash[s] + positions[s] * m)
  BY DEF Excess, m, e
<1>6. Excess(s)' = e - (cash'[s] + positions'[s] * m)
  BY DEF Excess, m, e
<1>7. cash'[s] + positions'[s] * m <= cash[s] + positions[s] * m
  <2>1. CASE side = "Buy"
    <3>1. positions'[s] = positions[s] + Lot /\ cash'[s] = cash[s] - Lot * a.px
      BY <1>3, <2>1 DEF SendOrder, OrderOf, Price
    <3> QED BY <1>2, <1>3, <1>4, <3>1, AtMidpoint
  <2>2. CASE side = "Sell"
    <3>1. positions'[s] = positions[s] - Lot /\ cash'[s] = cash[s] + Lot * b.px
      BY <1>3, <2>2 DEF SendOrder, OrderOf, Price
    <3> QED BY <1>2, <1>3, <1>4, <3>1, AtMidpoint
  <2> QED BY <2>1, <2>2
<1>8. positions'[s] \in Int /\ cash'[s] \in Int
  <2>1. Lot * a.px \in Int /\ Lot * b.px \in Int
    BY <1>2, <1>3
  <2> QED BY <1>3, <2>1 DEF SendOrder, OrderOf, Price
<1>9. positions[s] * m \in Int /\ positions'[s] * m \in Int
  BY <1>3, <1>8
<1> QED BY <1>3, <1>5, <1>6, <1>7, <1>8, <1>9

\* The dashboard shows the account whenever the midpoint has moved by a tick,
\* and is never too low in between.
THEOREM DashboardIsCurrent == Spec => DashboardCurrent
<1> DEFINE Late(s) ==
      /\ mid'[s] \div 2 = mid[s] \div 2
      /\ Excess(s)' < Excess(s) =>
           \E b \in Bids, a \in Asks : TwoSided(b, a) /\ b.px > a.px /\ Event(s, b, a)
      Current ==
        \A s \in Symbols :
          \/ Shown(s)'
          \/ /\ mid'[s] \div 2 = mid[s] \div 2
             /\ Excess(s)' < Excess(s) =>
                  \E b \in Bids, a \in Asks : TwoSided(b, a) /\ b.px > a.px /\ Event(s, b, a)
<1>1. ASSUME IInv, Next, NEW s \in Symbols PROVE Shown(s)' \/ Late(s)
  <2>1. /\ mid \in [Symbols -> Nat] /\ lastMid \in [Symbols -> Nat]
        /\ positions \in [Symbols -> Int] /\ cash \in [Symbols -> Int]
        /\ telemetry \in [Symbols -> [mid : Nat, position : Int, equity : Int]]
        /\ \A t \in Symbols : lastMid[t] = mid[t] \div 2 /\ telemetry[t].mid = lastMid[t]
    BY <1>1 DEF IInv, TypeOK, HandlerTypeOK, MidpointsAgree
  <2>2. positions[s] * telemetry[s].mid \in Int
    BY <2>1
  <2>3. Excess(s) \in Int
    BY <2>1, <2>2 DEF Excess
  <2>4. ASSUME mid'[s] = mid[s], cash'[s] = cash[s], positions'[s] = positions[s],
               telemetry'[s] = telemetry[s]
        PROVE  Late(s)
    BY <2>3, <2>4 DEF Excess
  <2>5. CASE IgnorePacket /\ UNCHANGED <<gatewayVars, telemetry>>
    BY <2>4, <2>5 DEF IgnorePacket, gatewayVars
  <2>6. ASSUME NEW t \in Symbols, HandleStockDirectory(t), UNCHANGED <<gatewayVars, telemetry>>
        PROVE  Late(s)
    BY <2>4, <2>6 DEF HandleStockDirectory, gatewayVars
  <2>7. CASE PollFill
    BY <2>4, <2>7 DEF PollFill, Confirm
  <2>8. CASE PollNothing
    BY <2>4, <2>8 DEF PollNothing, PollDone, gatewayVars
  <2>9. ASSUME NEW t \in Symbols, NEW b \in Bids, NEW a \in Asks, Event(t, b, a)
        PROVE  Shown(s)' \/ Late(s)
    <3>1. Observe(t, b, a) /\ SendTelemetry(t, b, a)
      BY <2>9 DEF Event, Quiet, Trade
    <3>2. \/ Quiet(t, b, a) /\ UNCHANGED gatewayVars
          \/ \E side \in {"Buy", "Sell"} :
               Trade(t, b, a, side) /\ SendOrder(OrderOf(t, b, a, side))
      BY <2>9 DEF Event
    <3>3. CASE t # s
      <4>1. mid'[s] = mid[s] /\ telemetry'[s] = telemetry[s]
        BY <2>1, <3>1, <3>3 DEF Observe, SendTelemetry
      <4>2. positions'[s] = positions[s] /\ cash'[s] = cash[s]
        BY <2>1, <3>2, <3>3 DEF gatewayVars, SendOrder, OrderOf
      <4> QED BY <2>4, <4>1, <4>2
    <3>4. CASE t = s /\ Moves(s, b, a)
      <4>1. telemetry'[s] = [mid |-> Midpoint(b, a), position |-> positions'[s],
                             equity |-> cash'[s] + positions'[s] * Midpoint(b, a)]
        BY <2>1, <3>1, <3>4 DEF SendTelemetry
      <4>2. positions'[s] \in Int /\ cash'[s] \in Int
        BY <1>1, StepInv DEF IInv, TypeOK
      <4>3. Midpoint(b, a) \in Nat
        BY MidpointType
      <4>4. cash'[s] + positions'[s] * Midpoint(b, a) \in Int
        BY <4>2, <4>3
      <4>5. Excess(s)' = 0
        BY <4>1, <4>4 DEF Excess
      <4> QED BY <4>1, <4>5 DEF Shown
    <3>5. CASE t = s /\ ~Moves(s, b, a)
      <4>1. telemetry' = telemetry /\ lastMid' = lastMid
        BY <3>1, <3>5 DEF SendTelemetry, Observe
      <4>2. lastMid'[s] = mid'[s] \div 2
        BY <1>1, <3>1, <3>5, MidStep DEF IInv
      <4>3. mid'[s] \div 2 = mid[s] \div 2
        BY <2>1, <4>1, <4>2
      <4>4. CASE UNCHANGED gatewayVars
        <5>1. Excess(s)' = Excess(s)
          BY <4>1, <4>4 DEF Excess, gatewayVars
        <5> QED BY <2>3, <4>3, <5>1
      <4>5. ASSUME NEW side \in {"Buy", "Sell"}, Trade(s, b, a, side),
                   SendOrder(OrderOf(s, b, a, side)), TwoSided(b, a) => b.px <= a.px
            PROVE  Excess(s)' >= Excess(s)
        <5>1. TwoSided(b, a)
          BY <4>5 DEF Trade, Signals
        <5>2. mid'[s] = b.px + a.px
          BY <2>1, <3>1, <3>5, <5>1 DEF Observe
        <5>3. telemetry[s].mid = (b.px + a.px) \div 2
          BY <2>1, <4>1, <4>2, <5>2
        <5> QED BY <1>1, <4>1, <4>5, <5>1, <5>3, UnshownCosts
      <4>6. ASSUME NEW side \in {"Buy", "Sell"}, Trade(s, b, a, side),
                   SendOrder(OrderOf(s, b, a, side)), TwoSided(b, a), b.px > a.px
            PROVE  Late(s)
        BY <2>9, <3>5, <4>3, <4>6
      <4>7. ASSUME NEW side \in {"Buy", "Sell"}, Trade(s, b, a, side),
                   SendOrder(OrderOf(s, b, a, side))
            PROVE  Late(s)
        <5>1. CASE TwoSided(b, a) /\ b.px > a.px
          BY <4>6, <4>7, <5>1
        <5>2. CASE TwoSided(b, a) => b.px <= a.px
          <6>1. Excess(s)' >= Excess(s)
            BY <4>5, <4>7, <5>2
          <6>2. Excess(s)' \in Int
            <7>1. positions'[s] \in Int /\ cash'[s] \in Int
              BY <1>1, StepInv DEF IInv, TypeOK
            <7>2. positions'[s] * telemetry[s].mid \in Int
              BY <2>1, <7>1
            <7> QED BY <2>1, <4>1, <7>1, <7>2 DEF Excess
          <6> QED BY <2>3, <4>3, <6>1, <6>2
        <5>3. TwoSided(b, a) => b.px \in Nat /\ a.px \in Nat
          BY QuoteType
        <5> QED BY <5>1, <5>2, <5>3
      <4> QED BY <3>2, <3>5, <4>4, <4>7
    <3> QED BY <3>3, <3>4, <3>5
  <2> QED BY <1>1, <2>5, <2>6, <2>7, <2>8, <2>9 DEF Next, Packet
<1>2. IInv /\ [Next]_vars => [Current]_vars
  BY <1>1
<1> QED BY Invariance, <1>2, PTL DEF Spec, DashboardCurrent

\* What a lot bought at the ask, or sold at the bid, is worth at the midpoint.
LEMMA HalfSpread ==
  ASSUME NEW c \in Int, NEW p \in Int, NEW n \in Nat, NEW x \in Nat, NEW y \in Nat, x <= y
  PROVE  /\ 2 * (c - n * y) + (p + n) * (x + y) <= 2 * c + p * (x + y)
         /\ 2 * (c + n * x) + (p - n) * (x + y) <= 2 * c + p * (x + y)
<1>1. n * x <= n * y
  BY Z3
<1>2. (p + n) * (x + y) = p * (x + y) + n * x + n * y
  BY Z3
<1>3. (p - n) * (x + y) = p * (x + y) - n * x - n * y
  BY Z3
<1> DEFINE w == p * (x + y)
           nx == n * x
           ny == n * y
<1>4. w \in Int /\ nx \in Int /\ ny \in Int
  OBVIOUS
<1> HIDE DEF w, nx, ny
<1>5. 2 * (c - ny) + (w + nx + ny) <= 2 * c + w
  BY <1>1, <1>4 DEF nx, ny
<1>6. 2 * (c + nx) + (w - nx - ny) <= 2 * c + w
  BY <1>1, <1>4 DEF nx, ny
<1> QED BY <1>2, <1>3, <1>5, <1>6 DEF w, nx, ny

\* No order makes money by itself at a book that is not crossed.
THEOREM NoOrderMakesMoney == Spec => NoFreeMoney
<1> DEFINE Costs ==
      \A s \in Symbols : positions'[s] # positions[s] =>
        \A b \in Bids, a \in Asks :
          (Event(s, b, a) /\ TwoSided(b, a) /\ b.px <= a.px) =>
            Worth(s, b.px + a.px)' <= Worth(s, b.px + a.px)
<1>1. IInv /\ [Next]_vars => [Costs]_vars
  <2> SUFFICES ASSUME IInv, NEW s \in Symbols, positions'[s] # positions[s],
                      NEW b \in Bids, NEW a \in Asks,
                      Event(s, b, a), TwoSided(b, a), b.px <= a.px
               PROVE  Worth(s, b.px + a.px)' <= Worth(s, b.px + a.px)
    OBVIOUS
  <2>1. PICK side \in {"Buy", "Sell"} : SendOrder(OrderOf(s, b, a, side))
    BY DEF Event, gatewayVars
  <2>2. b.px \in Nat /\ a.px \in Nat
    BY QuoteType
  <2>3. /\ positions \in [Symbols -> Int] /\ cash \in [Symbols -> Int] /\ Lot \in Nat
    BY LimitAssumption DEF IInv, TypeOK
  <2>4. CASE side = "Buy"
    <3>1. positions'[s] = positions[s] + Lot /\ cash'[s] = cash[s] - Lot * a.px
      BY <2>1, <2>3, <2>4 DEF SendOrder, OrderOf, Price
    <3>2. 2 * (cash[s] - Lot * a.px) + (positions[s] + Lot) * (b.px + a.px)
            <= 2 * cash[s] + positions[s] * (b.px + a.px)
      BY <2>2, <2>3, HalfSpread
    <3> QED BY <3>1, <3>2 DEF Worth
  <2>5. CASE side = "Sell"
    <3>1. positions'[s] = positions[s] - Lot /\ cash'[s] = cash[s] + Lot * b.px
      BY <2>1, <2>3, <2>5 DEF SendOrder, OrderOf, Price
    <3>2. 2 * (cash[s] + Lot * b.px) + (positions[s] - Lot) * (b.px + a.px)
            <= 2 * cash[s] + positions[s] * (b.px + a.px)
      BY <2>2, <2>3, HalfSpread
    <3> QED BY <3>1, <3>2 DEF Worth
  <2> QED BY <2>4, <2>5
<1> QED BY Invariance, <1>1, PTL DEF Spec, NoFreeMoney

----------------------------------------------------------------------------
(* The refinement.                                                         *)

LEMMA LedgerInit == Init => Ledger!Init
<1> SUFFICES ASSUME Init PROVE Ledger!Init
  OBVIOUS
<1>1. nextId = 0 /\ pending = <<>>
  BY DEF Init, HandlerInit
<1>2. nextId - Len(pending) = 0
  <2>1. Len(pending) = 0
    BY <1>1
  <2>2. nextId = 0
    BY <1>1
  <2> QED BY <2>1, <2>2
<1>3. FALSE \in BOOLEAN
  OBVIOUS
<1>4. risk = [s \in Symbols |-> 0] /\ positions = [s \in Symbols |-> 0]
  BY DEF Init, HandlerInit
<1> QED BY <1>1, <1>2, <1>3, <1>4, Zenon DEF Ledger!Init

\* A packet with an order is a SendFilled, a report taken is a Confirm, and
\* nothing else changes the ledger.
LEMMA LedgerStep == IInv /\ IInv' /\ [Next]_vars => [Ledger!Next]_Ledger!vars
<1> SUFFICES ASSUME IInv, IInv', [Next]_vars PROVE [Ledger!Next]_Ledger!vars
  OBVIOUS
<1>1. ASSUME NEW s \in Symbols, NEW b \in Bids, NEW a \in Asks,
             NEW side \in {"Buy", "Sell"},
             Trade(s, b, a, side), SendOrder(OrderOf(s, b, a, side))
      PROVE  Ledger!SendFilled
  <2>1. pending = <<>> /\ nextId \in Nat
    BY <1>1 DEF IInv, OneAtATime, Trade, Observe, TypeOK, HandlerTypeOK
  <2>2. nextId' = nextId + 1 /\ Len(pending) = 0 /\ Len(pending') = 1
    BY <1>1, <2>1 DEF Trade, SendOrder
  <2>3. nextId' - Len(pending') = nextId - Len(pending)
    BY <2>1, <2>2
  <2>4. risk' = [risk EXCEPT ![s] = @ + Delta(side)] /\ Delta(side) \in {Lot, -Lot}
    BY <1>1 DEF Trade, Delta
  <2>5. risk' \in [Symbols -> -MaxPos .. MaxPos] /\ positions' = risk'
    BY DEF IInv, TypeOK, HandlerTypeOK, RiskIsPosition
  <2>6. Ledger!OneLot(risk, s, risk')
    BY <2>4, <2>5 DEF Ledger!OneLot, Ledger!Allowed
  <2> QED BY <2>2, <2>3, <2>5, <2>6 DEF Ledger!SendFilled
<1>2. CASE PollFill
  <2>1. PICK r \in Report : pending = <<r>>
    BY <1>2 DEF PollFill, IInv, OneAtATime
  <2>2. pending' = <<>> /\ UNCHANGED <<nextId, risk, positions>> /\ nextId \in Nat
    BY <1>2, <2>1 DEF PollFill, Confirm, IInv, TypeOK, HandlerTypeOK
  <2>3. Len(pending) = 1 /\ Len(pending') = 0
    BY <2>1, <2>2
  <2>4. nextId - Len(pending) < nextId /\ nextId' - Len(pending') = nextId - Len(pending) + 1
    BY <2>2, <2>3
  <2> QED BY <2>2, <2>4 DEF Ledger!Next, Ledger!Kept, Ledger!Confirm
<1>3. CASE UNCHANGED <<nextId, pending, risk, positions>>
  BY <1>3 DEF Ledger!vars
<1> QED BY <1>1, <1>2, <1>3 DEF Next, Packet, Event, IgnorePacket, HandleStockDirectory,
       Quiet, Observe, PollNothing, PollDone, gatewayVars, vars, Ledger!Next, Ledger!Kept

\* The replay engine keeps the promise of the order ledger.
THEOREM ReplayKeepsLedger == Spec => KeepsLedger
  BY LedgerInit, LedgerStep, Invariance, PTL DEF Spec, KeepsLedger, Ledger!Spec

=============================================================================
