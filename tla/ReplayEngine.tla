---------------------------- MODULE ReplayEngine ----------------------------
(***************************************************************************)
(* apps/replay-engine: the market handler run over a day's ITCH file, with *)
(* a gateway that fills every order in full as soon as it is sent.         *)
(***************************************************************************)
EXTENDS MarketHandler, Sequences

VARIABLES
  pending,    \* ReplayGateway.pending_fills
  positions,  \* ReplayGateway.positions
  cash,       \* ReplayGateway.cash_balances
  telemetry   \* for each stock, the last record in the telemetry ring

gatewayVars == <<pending, positions, cash>>
vars == <<phase, mapped, mid, position, risk, tracker, nextId, lastMid,
          pending, positions, cash, telemetry>>

NoRecord == [mid |-> 0, position |-> 0, equity |-> 0]

Init ==
  /\ HandlerInit
  /\ pending = <<>>
  /\ positions = [s \in Symbols |-> 0]
  /\ cash = [s \in Symbols |-> 0]
  /\ telemetry = [s \in Symbols |-> NoRecord]

Fill(o) == [id |-> o.id, symbol |-> o.symbol, px |-> o.px, qty |-> o.qty]

\* send_order that takes every order for a purchase.
SendUnsigned(o) ==
  /\ pending' = Append(pending, Fill(o))
  /\ positions' = [positions EXCEPT ![o.symbol] = @ + o.qty]
  /\ cash' = [cash EXCEPT ![o.symbol] = @ - o.qty * o.px]

\* send_order that books the money the wrong way round.
SendFree(o) ==
  /\ pending' = Append(pending, Fill(o))
  /\ positions' = [positions EXCEPT ![o.symbol] =
                     IF o.side = "Buy" THEN @ + o.qty ELSE @ - o.qty]
  /\ cash' = [cash EXCEPT ![o.symbol] =
                IF o.side = "Buy" THEN @ + o.qty * o.px ELSE @ - o.qty * o.px]

\* send_order: the fill is queued, and booked and paid for at once.
SendOrder(o) ==
  /\ pending' = Append(pending, Fill(o))
  /\ positions' = [positions EXCEPT ![o.symbol] =
                     IF o.side = "Buy" THEN @ + o.qty ELSE @ - o.qty]
  /\ cash' = [cash EXCEPT ![o.symbol] =
                IF o.side = "Buy" THEN @ - o.qty * o.px ELSE @ + o.qty * o.px]

\* send_telemetry before the order has gone out.
TelemetryFirst(s, b, a) ==
  telemetry' =
    IF Moves(s, b, a)
    THEN [telemetry EXCEPT ![s] =
            [mid |-> Midpoint(b, a), position |-> positions[s],
             equity |-> cash[s] + positions[s] * Midpoint(b, a)]]
    ELSE telemetry

\* send_telemetry, the end of handle_event: what the gateway has after the
\* order, at the new midpoint.
SendTelemetry(s, b, a) ==
  telemetry' =
    IF Moves(s, b, a)
    THEN [telemetry EXCEPT ![s] =
            [mid |-> Midpoint(b, a), position |-> positions'[s],
             equity |-> cash'[s] + positions'[s] * Midpoint(b, a)]]
    ELSE telemetry

Event(s, b, a) ==
  /\ \/ Quiet(s, b, a) /\ UNCHANGED gatewayVars
     \/ \E side \in {"Buy", "Sell"} :
          Trade(s, b, a, side) /\ SendOrder(OrderOf(s, b, a, side))
  /\ SendTelemetry(s, b, a)

Packet ==
  \/ IgnorePacket /\ UNCHANGED <<gatewayVars, telemetry>>
  \/ \E s \in Symbols : HandleStockDirectory(s) /\ UNCHANGED <<gatewayVars, telemetry>>
  \/ \E s \in Symbols, b \in Bids, a \in Asks : Event(s, b, a)

\* poll_confirmed_orders of the gateway returns the oldest fill.
PollFill ==
  /\ pending # <<>>
  /\ Confirm(Head(pending))
  /\ pending' = Tail(pending)
  /\ UNCHANGED <<positions, cash, telemetry>>

\* A polling loop that may stop with fills still queued.
PollGivesUp == PollDone /\ UNCHANGED <<gatewayVars, telemetry>>

\* It returns nothing.
PollNothing ==
  /\ pending = <<>>
  /\ PollDone
  /\ UNCHANGED <<gatewayVars, telemetry>>

Next == Packet \/ PollFill \/ PollNothing

Spec == Init /\ [][Next]_vars

----------------------------------------------------------------------------
(* Properties.                                                             *)

Report == [id : Nat, symbol : Symbols, px : Nat, qty : {Lot}]

\* Types, and the inventory limit as part of them: risk never leaves
\* -MaxPos .. MaxPos.
TypeOK ==
  /\ HandlerTypeOK
  /\ pending \in Seq(Report)
  /\ positions \in [Symbols -> Int]
  /\ cash \in [Symbols -> Int]
  /\ telemetry \in [Symbols -> [mid : Nat, position : Int, equity : Int]]

\* The projected position that the risk check guards and the position that
\* the gateway books are the same number, whatever was bought, sold and
\* rejected.
RiskIsPosition == positions = risk

\* The limit of LocalRisk holds for what was really traded.
ExposureBounded == \A s \in Symbols : positions[s] \in -MaxPos .. MaxPos

\* Between two packets every order sent has been reported, and its report
\* consumed.
PacketSettles == phase = "idle" => pending = <<>> /\ \A s \in Symbols : tracker[s] = {}

\* In the polling loop the reports that wait are exactly those of the orders
\* being tracked: none is missing, none would be ignored.
ReportsMatchTracker ==
  /\ \A i \in DOMAIN pending : Expected(pending[i])
  /\ \A s \in Symbols : \A id \in tracker[s] :
       \E i \in DOMAIN pending : pending[i].id = id /\ pending[i].symbol = s

\* The strategy hears of each order once: its position moves by one lot when
\* an order leaves the tracker, and at no other time.
ToldOnce ==
  [][\A s \in Symbols :
       position'[s] # position[s] =>
         /\ position'[s] = position[s] + Lot
         /\ \E id \in tracker[s] : tracker'[s] = tracker[s] \ {id}]_vars

\* The test at lib.rs:986-997: after a packet the strategy's position is the
\* risk engine's.
InSync == phase = "idle" => position = risk

\* The handler keeps a midpoint for the dashboard and the strategy keeps its
\* own: they never come apart by more than the half tick that the first rounds
\* off, and the dashboard shows the handler's.
MidpointsAgree ==
  \A s \in Symbols :
    /\ lastMid[s] = mid[s] \div 2
    /\ telemetry[s].mid = lastMid[s]

\* By how much the equity on the dashboard exceeds what the account is worth
\* at the midpoint on the dashboard.
Excess(s) == telemetry[s].equity - (cash[s] + positions[s] * telemetry[s].mid)

Shown(s) == telemetry[s].position = positions[s] /\ Excess(s) = 0

\* A record is written only when the whole midpoint moves.  Whenever the one
\* that the strategy trades on has moved by a tick, the dashboard shows the
\* account as it is after the order of that packet.  While it has not, orders
\* go out that the dashboard does not show; each leaves the account worth no
\* more than it was at the midpoint shown, so that the equity on the dashboard
\* is never too low -- unless the book is crossed.
DashboardCurrent ==
  [][\A s \in Symbols :
       \/ Shown(s)'
       \/ /\ mid'[s] \div 2 = mid[s] \div 2
          /\ Excess(s)' < Excess(s) =>
               \E b \in Bids, a \in Asks : TwoSided(b, a) /\ b.px > a.px /\ Event(s, b, a)]_vars

\* Worth of a stock's account at the doubled midpoint m, doubled.
Worth(s, m) == 2 * cash[s] + positions[s] * m

\* No order makes money by itself: at the midpoint it was sent at it costs
\* half the spread or nothing -- unless the book is crossed, as it may be once
\* a replaced order has stayed in it (Feed).
NoFreeMoney ==
  [][\A s \in Symbols : positions'[s] # positions[s] =>
       \A b \in Bids, a \in Asks :
         (Event(s, b, a) /\ TwoSided(b, a) /\ b.px <= a.px) =>
           Worth(s, b.px + a.px)' <= Worth(s, b.px + a.px)]_vars

\* Each order is sent, filled and confirmed once, within the limit.
Ledger == INSTANCE OrderLedger WITH
  sent <- nextId,
  filled <- nextId,
  confirmed <- nextId - Len(pending),
  believed <- risk,
  traded <- positions,
  void <- FALSE

KeepsLedger == Ledger!Spec

----------------------------------------------------------------------------
(* Why they hold: a packet sends at most one order, and the polling loop   *)
(* takes its report before the next packet.                                *)

OneAtATime ==
  \/ /\ pending = <<>>
     /\ tracker = [s \in Symbols |-> {}]
  \/ /\ phase = "polling"
     /\ \E r \in Report :
          /\ pending = <<r>>
          /\ r.symbol \in mapped
          /\ tracker = [s \in Symbols |-> IF s = r.symbol THEN {r.id} ELSE {}]

IInv == TypeOK /\ RiskIsPosition /\ OneAtATime /\ MidpointsAgree

=============================================================================
