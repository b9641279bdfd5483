--------------------------- MODULE MarketHandler ---------------------------
(***************************************************************************)
(* crates/market-handler: one SymbolProcessor per traded stock, driven by  *)
(* ITCH packets.  A packet is handled in two phases, on one thread: the    *)
(* event (book, strategy, risk, gateway), then a loop that polls the       *)
(* gateway for execution reports until it has none.                        *)
(*                                                                         *)
(* The gateway is a parameter of the crate (trait ExchangeGateway), so the *)
(* actions here say what the handler does with an order and with a report; *)
(* ReplayEngine adds what its gateway does with them.                      *)
(*                                                                         *)
(* An event is abstracted to the best bid and ask that it leaves in the    *)
(* book (Feed models how).  The strategy's midpoint is kept doubled, as    *)
(* the sum of the two prices; prev_mid_price is never read across calls.   *)
(***************************************************************************)
EXTENDS Integers

CONSTANTS
  Symbols,      \* target_symbols
  NoLevel,      \* None, for a side of the book that is empty
  Bids, Asks,   \* what get_best_bid and get_best_ask may return
  Lot,          \* quantity of every order of SimpleMidPoint: 100
  Skew,         \* imbalance_threshold 0.8: one side outweighs the other 4 : 1
  StrategyCap,  \* position cap in SimpleMidPoint: 5000
  MaxQty,       \* LocalRisk.max_qty_per_order: 1000
  MaxPos,       \* LocalRisk.max_absolute_position: 3500
  MaxOrders     \* bound: orders sent

Levels == (Bids \union Asks) \ {NoLevel}

ASSUME LevelAssumption == \A l \in Levels : l \in [px : Nat \ {0}, qty : Nat]
ASSUME LimitAssumption ==
  /\ Lot \in Nat /\ Skew \in Nat /\ StrategyCap \in Nat
  /\ MaxQty \in Nat /\ MaxPos \in Nat /\ MaxOrders \in Nat

VARIABLES
  phase,     \* "idle" between packets, "polling" in poll_confirmed_orders
  mapped,    \* symbols whose locate code is in lookup_table
  mid,       \* SimpleMidPoint.mid_price, doubled
  position,  \* SimpleMidPoint.position
  risk,      \* LocalRisk.current_position
  tracker,   \* order_tracker: orders sent and not yet reported
  nextId,    \* global_order_id_counter
  lastMid    \* last_midpoint: the midpoint that was last put on the dashboard

handlerVars == <<phase, mapped, mid, position, risk, tracker, nextId, lastMid>>

HandlerInit ==
  /\ phase = "idle"
  /\ mapped = {}
  /\ mid = [s \in Symbols |-> 0]
  /\ position = [s \in Symbols |-> 0]
  /\ risk = [s \in Symbols |-> 0]
  /\ tracker = [s \in Symbols |-> {}]
  /\ nextId = 0
  /\ lastMid = [s \in Symbols |-> 0]

\* The process ends, and the next one begins as MarketState::new does.
Forget ==
  /\ phase' = "idle"
  /\ mapped' = {}
  /\ mid' = [s \in Symbols |-> 0]
  /\ position' = [s \in Symbols |-> 0]
  /\ risk' = [s \in Symbols |-> 0]
  /\ tracker' = [s \in Symbols |-> {}]
  /\ nextId' = 0
  /\ lastMid' = [s \in Symbols |-> 0]

----------------------------------------------------------------------------
(* SimpleMidPoint.                                                         *)

TwoSided(b, a) == b # NoLevel /\ a # NoLevel

\* Heavy bids and a midpoint drifting up.
Buying(s, b, a) ==
  /\ b.qty > Skew * a.qty
  /\ b.px + a.px > mid[s]
  /\ position[s] <= StrategyCap

\* Heavy asks and a midpoint drifting down.
Selling(s, b, a) ==
  /\ a.qty > Skew * b.qty
  /\ b.px + a.px < mid[s]
  /\ position[s] > -StrategyCap

\* What on_book_update asks for: one side, or none.
Signals(s, b, a) ==
  {side \in {"Buy", "Sell"} :
     /\ TwoSided(b, a)
     /\ side = "Buy" => Buying(s, b, a)
     /\ side = "Sell" => Selling(s, b, a)}

\* The order takes the other side's best price.
Price(side, b, a) == IF side = "Buy" THEN a.px ELSE b.px

----------------------------------------------------------------------------
(* LocalRisk.                                                              *)

Delta(side) == IF side = "Buy" THEN Lot ELSE -Lot

\* The 2% price band around the opposite side.
InBand(side, px, b, a) ==
  /\ side = "Buy" /\ a # NoLevel => 50 * px <= 51 * a.px
  /\ side = "Sell" /\ b # NoLevel => 50 * px >= 49 * b.px

\* check() that tests the position there is, not the one the order would make.
PassesUnprojected(s, side, b, a) ==
  /\ Lot <= MaxQty
  /\ risk[s] \in -MaxPos .. MaxPos
  /\ InBand(side, Price(side, b, a), b, a)

\* check(): the order alone, the position if it fills, the price.
Passes(s, side, b, a) ==
  /\ Lot <= MaxQty
  /\ risk[s] + Delta(side) \in -MaxPos .. MaxPos
  /\ InBand(side, Price(side, b, a), b, a)

----------------------------------------------------------------------------
(* send_telemetry.                                                         *)

PriceOr0(l) == IF l = NoLevel THEN 0 ELSE l.px

\* A midpoint in whole ticks, which half a tick does not move; 0 is none.
Midpoint(b, a) ==
  IF PriceOr0(b) > 0 /\ PriceOr0(a) > 0 THEN (b.px + a.px) \div 2 ELSE 0

\* A comparison that takes an empty side for a move of the midpoint.
MovesToNone(s, b, a) == Midpoint(b, a) # lastMid[s]

\* Is there something to put on the dashboard?
Moves(s, b, a) == Midpoint(b, a) > 0 /\ Midpoint(b, a) # lastMid[s]

----------------------------------------------------------------------------
(* handle_raw_packet.                                                      *)

\* handle_event without the order; what is put on the dashboard is the
\* gateway's to say.
Observe(s, b, a) ==
  /\ phase = "idle"
  /\ s \in mapped
  /\ phase' = "polling"
  /\ mid' = IF TwoSided(b, a) THEN [mid EXCEPT ![s] = b.px + a.px] ELSE mid
  /\ lastMid' = IF Moves(s, b, a) THEN [lastMid EXCEPT ![s] = Midpoint(b, a)] ELSE lastMid
  /\ UNCHANGED <<mapped, position>>

\* handle_event when the strategy stays quiet or the risk check rejects.
Quiet(s, b, a) ==
  /\ \A side \in Signals(s, b, a) : ~Passes(s, side, b, a)
  /\ Observe(s, b, a)
  /\ UNCHANGED <<risk, tracker, nextId>>

\* The order that handle_event gives the gateway.
OrderOf(s, b, a, side) ==
  [id |-> nextId, symbol |-> s, side |-> side, px |-> Price(side, b, a), qty |-> Lot]

\* handle_event when an order goes out; the rest is the gateway's send_order.
Trade(s, b, a, side) ==
  /\ nextId < MaxOrders
  /\ side \in Signals(s, b, a)
  /\ Passes(s, side, b, a)
  /\ Observe(s, b, a)
  /\ risk' = [risk EXCEPT ![s] = @ + Delta(side)]
  /\ tracker' = [tracker EXCEPT ![s] = @ \union {nextId}]
  /\ nextId' = nextId + 1

\* A StockDirectory packet, for a symbol that is traded.
HandleStockDirectory(s) ==
  /\ phase = "idle"
  /\ phase' = "polling"
  /\ mapped' = mapped \union {s}
  /\ UNCHANGED <<mid, lastMid, position, risk, tracker, nextId>>

\* Any packet that leads nowhere: its locate code is not mapped (yet), or
\* parse_itch_message does not know its type.
IgnorePacket ==
  /\ phase = "idle"
  /\ phase' = "polling"
  /\ UNCHANGED <<mapped, mid, lastMid, position, risk, tracker, nextId>>

\* Is r a report that poll_confirmed_orders acts on?
Expected(r) == r.symbol \in mapped /\ r.id \in tracker[r.symbol]

\* poll_confirmed_orders that forgets to strike the order off.
ConfirmAgain(r) ==
  /\ phase = "polling"
  /\ position' = IF Expected(r) THEN [position EXCEPT ![r.symbol] = @ + r.qty]
                 ELSE position
  /\ UNCHANGED <<phase, mapped, mid, lastMid, risk, tracker, nextId>>

\* poll_confirmed_orders, given report r.  The strategy is always told that
\* it bought; the first report strikes the order off, whatever its exec_type
\* and quantity.
Confirm(r) ==
  /\ phase = "polling"
  /\ IF Expected(r)
     THEN /\ position' = [position EXCEPT ![r.symbol] = @ + r.qty]
          /\ tracker' = [tracker EXCEPT ![r.symbol] = @ \ {r.id}]
     ELSE UNCHANGED <<position, tracker>>
  /\ UNCHANGED <<phase, mapped, mid, lastMid, risk, nextId>>

\* poll_confirmed_orders when the gateway has no report: the packet is done.
PollDone ==
  /\ phase = "polling"
  /\ phase' = "idle"
  /\ UNCHANGED <<mapped, mid, lastMid, position, risk, tracker, nextId>>

----------------------------------------------------------------------------

HandlerTypeOK ==
  /\ phase \in {"idle", "polling"}
  /\ mapped \subseteq Symbols
  /\ mid \in [Symbols -> Nat]
  /\ position \in [Symbols -> Nat]
  /\ risk \in [Symbols -> -MaxPos .. MaxPos]
  /\ tracker \in [Symbols -> SUBSET (0 .. nextId - 1)]
  /\ nextId \in 0 .. MaxOrders
  /\ lastMid \in [Symbols -> Nat]

=============================================================================
