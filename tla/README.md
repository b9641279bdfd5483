# HftDemo: specifications, model checks and proofs

TLA+ specifications of the trading demo in `src/`: what its parts do, step by
step, checked by TLC on small instances, and theorems about them proved by
TLAPS for every value of the constants. The source is the reference; file and
line numbers below are those of `src/`.

## 1. The system

```
 ITCH over UDP ──► live-engine (Rust) ──[/dev/shm/hft_execution]──► execution-engine (C++)
                   market-handler                                        │ ▲
                   orderbook, strategies, risk-engine            orders  ▼ │ reports   (TCP)
                     ▲                                             execution-sim (Python)
                     └──────[/dev/shm/hft_exchange_info]──◄── execution-engine

 ITCH file ──► replay-engine (Rust): same market-handler, simulated gateway
                   └──[/dev/shm/hft_telemetry]──► visualiser (Rust) ──HTTP──► InfluxDB
```

Each application is one process with one thread that spins. They share nothing
but the three ring files and the TCP connection, so concurrency is between
processes, without locks.

### Inventory

| component | state | operations | interacts with | what is hard |
|---|---|---|---|---|
| `crates/shm-ring-buffer` | mapping: magic number, `head`, slots; the reader's cursor is its caller's | `create_producer`, `create_consumer`, `write`, `read` | live engine, execution engine, replay engine, visualiser through a shared file | a copy racing a store; a producer that never waits; crash and re-creation while readers keep cursors; the geometry of the mapping |
| `crates/itch-parser` | none | `parse_itch_message` | market-handler | message types without an arm are dropped; each field is read at an offset of its own |
| `crates/orderbook` | `orders` (L3), `bids`, `asks` (L2 totals) | `add_order`, `cancel_order`, best bid and ask | called by market-handler | two copies of one truth; unsigned subtraction; lost and unparsed feed messages |
| `crates/ticker` | trades, volume, last price | `add_trade` | called by market-handler | an execution takes its side and price from the book |
| `crates/strategies` | midpoint, position | `on_book_update`, `on_trade` | called by market-handler | its position is told by reports, not by orders |
| `crates/risk-engine` | `current_position` | `check` (tests and commits) | called by market-handler | commits before the order is sent, never takes back; forgets at a restart |
| `crates/market-handler` | per stock: book, ticker, strategy, risk, `order_tracker`, `last_midpoint`; `lookup_table`, order id counter | `handle_raw_packet` → `handle_event`, `handle_stock_directory`, `poll_confirmed_orders`, `send_telemetry` | parser, the five above, `ExchangeGateway`, `TelemetryWriter` | reports must match tracked orders; positions must agree; a start in the middle of the day |
| `crates/common` | declarations | | | |
| `apps/live-engine` | two rings, read cursor | `ShmGateway::new`, UDP loop, `send_order`, `poll_confirmed_orders` | execution engine | who starts first; panics when overrun; restarts with nothing remembered |
| `apps/replay-engine` | queued fills, positions, cash | packet loop, `send_order`, polling, telemetry | market-handler, visualiser | every order filled at once; the dashboard must show the account after the order |
| `apps/execution-engine` | ring cursors, receive buffer | startup; loop: order → `send`, `recv` → reports | both rings, TCP | TCP has no message boundaries; blocking `send`; no lap check; restarts at sequence 0 |
| `apps/execution-sim` | none between orders | `accept`, `recv(19)`, `sendall` | TCP | a short read ends it; serves one connection |
| `apps/visualiser` | cursor, batch | wait for the file, attach, read loop, `flush_to_influx` | telemetry ring, InfluxDB | startup against a producer that is creating the ring; overruns; failed flushes; the last records of a day |
| `apps/itch-packet-sim` | none | sends a fixed list of packets | live engine | |

What makes each correct, in short: the ring delivers whole messages in order or
says that it skipped some; the book's halves agree and mirror the exchange, and
never show less than there is; the exposure leaves its limit by no more than
restarts allow; every order is sent, filled and confirmed once; no order makes
money by itself; the byte streams are cut back into the structs that went in;
the dashboard lags behind the account only while the whole midpoint stays, and
never shows it worth too little; every record of it is accounted for once; nobody waits for ever.

## 2. Modules

| module | models | how |
|---|---|---|
| `ShmRing` | shm-ring-buffer and the loops of its callers | `write` is a step per piece of the slot (`StorePart`) and `Publish`; `read` is `ReadBegin`, a step per piece (`CopyPart`) and `ReadEnd`; `create_producer` is `CreateProducer`, a step per page (`TouchPage`), `ResetHead` and `StoreMagic`; `Crash`, `Attach`, `Die` are processes ending and starting |
| `BroadcastLog` | what the ring promises | abstract specification, implemented by `ShmRing` (`Log`) |
| `OrderBook` | orderbook | operators on a book: `AddOrder`, `CancelOrder`, `BestBid`, `BestAsk` |
| `Feed` | itch-parser, ticker, and the routing, directory, book and ticker arms of market-handler, over `OrderBook` | one action per packet type of the exchange, each lost (`Lose`) or delivered (`Arrive`: `HandleRawPacket` → `Parse` → `HandleEvent`), and `Restart` of the engine |
| `MarketHandler` | strategies, risk-engine, and the trading half of market-handler | one action per outcome of a packet (`Quiet`, `Trade`, `HandleStockDirectory`, `IgnorePacket`), the polling loop (`Confirm`, `PollDone`), and `Forget` for a restart |
| `ReplayEngine` | replay-engine, over `MarketHandler` | adds the gateway (`SendOrder`, `PollFill`, `PollNothing`) and the dashboard (`SendTelemetry`) |
| `OrderLedger` | what becomes of an order: sent, filled, confirmed, within the limit | abstract specification, implemented by `ReplayEngine` and, until a process ends, by `LiveSystem` (`KeepsLedger`) |
| `ExecutionEngine` | execution-engine's loop and execution-sim, byte by byte, with the order ring slot by slot | `BeginOrder` stores an order in its slot and `EndOrder` moves `head`; `TakeOrder`, `Send`, `Receive`, `Parse` are the four places of the loop; `SimTake`, `SimReply` the exchange; two pipes of bytes between them |
| `LiveSystem` | live-engine over `MarketHandler`, execution-engine and execution-sim, message by message, with their starts and ends | `StartLive` and `OpenReports`, `StartEngine`, `StartSim` and `End*`; `Packet`, `PollReport`, `PollEmpty`; `Forward`, `Publish`; `FillOrder` |
| `Visualiser` | visualiser, `create_producer` step by step, the life of the telemetry file | `Begin`, `SetHead`, `SetMagic`, `Write`; `Start`, `Look`, `Attach`; `ReadRecord`, `ReadOverlap`, `ReadEmpty`, `Flush` |
| `WrapLemmas`, `*_proofs` | | lemmas and theorems |
| `MC*` | | instances for TLC |

A definition that stands beside another and is not used by `Next` (`PollInPlace`
beside `PollReport`) is the way the code might have gone wrong: with it in the
other's place one of the properties fails.

How state corresponds to the code:

* **ShmRing.** `head`, `slots` are the mapping; a piece of a slot holds the era
  and number of the message that stored it instead of bytes. `unstored` is how
  far `write()` has come (`Parts` between two calls), `mode`, `left`, `copy`,
  `began` are a `read()` in progress, `seq` the caller's cursor, `got` the last
  `ReadResult` with the cursor and `head` that it was about. Units of the
  mapping are SLOT_SIZE bytes, so `Unit(n) = 1 + n % Capacity` is line 151. A
  store or load beyond the mapping goes nowhere or brings something arbitrary
  (`Foreign`); that it may fault is covered by `Crash` and `Die`, which may
  happen anywhere. `Polite` consumers do what the visualiser does with an
  overrun, `Strict` ones what `ShmGateway` does (panic).
* **Memory order.** The atomics are Acquire/Release on x86-64, whose hardware
  keeps stores in order and loads in order; the compiler may reorder the plain
  stores among themselves, and the plain loads, but not across the Release
  store, the Acquire load or the fence. Hence pieces in any order, and `Publish`
  and the two loads of `head` in their places. The Release store alone would
  let the compiler move the plain stores of the *next* `write()` above it; the
  call of the system clock at line 153, which comes between the two, does not.
* **Feed.** A packet is a function from the offset where a field begins to the
  field's value, put together with `++`, so a parser that reads at another offset reads another field or
  none. `processors[s]` is a `SymbolProcessor`'s book and ticker, `lookup` the
  `lookup_table`. In a book `orders` is L3 and `levels` is `bids` and `asks`;
  arithmetic is modulo `Word`, as a release build has it. The exchange
  (`venue`, `given`, `prints`) is external: it matches orders that would cross
  and sends one packet for each change. Types 'F' and 'U' have no arm in
  `parse_itch_message` and change nothing. `heard` and `missed` are the
  property's bookkeeping: of which stocks this engine has missed something.
* **MarketHandler.** A packet is abstracted to the best bid and ask after it;
  `mid` is doubled to stay an integer. The imbalance test `bid/(bid+ask) > 0.8`
  is `bid > 4 * ask`, the price band `px <= 1.02 * ask` is `50*px <= 51*ask`:
  the same relations without floating point. Arms that share an outcome share
  an action. `next_order_id` of the strategy is overwritten by the handler and
  left out, as is what only prints.
* **ReplayEngine.** A report's `exec_type` is always 0 and its stock is the
  symbol's locate code, one to one over a day. `telemetry` is the last record
  of each stock; the ring it goes through is `ShmRing`'s.
* **ExecutionEngine.** Orders have the numbers under which they are written.
  The engine does not copy an order: `send()` is given the slot itself, and may
  take it in parts (`Hand`). What it can find there (`Found`) is the last order
  published in that slot, while `storing` also the one that `write()` is just
  putting there, which at exactly one ring ahead is before `head` has moved,
  and in the slot of index `RingSize - 1`, which lies outside the mapping,
  nobody's order (`Garbled`). `spoiled` is history: the orders that were stored
  over before `send()` had taken them. A byte is the order it belongs to and its offset, so that
  a report put together from two others is visible (`Garbled`). `out` and `in`
  are what the kernel holds in each direction. On the loopback a `send` gives
  the kernel all that there is room for and a `recv` takes all that has come and
  fits, so streams are cut where a pipe or the 1024-byte buffer is full. `Exit`
  and `SimExit` may happen at any time, and so cover every `exit(-1)`. The socket
  is blocking and `send` is called without MSG_DONTWAIT, so the `EAGAIN` branch
  (line 106) is not taken.
* **LiveSystem.** A ring is what has been written since its header was set up
  (`orders`, `reports`); laps and torn reads are `ShmRing`'s, cut streams
  `ExecutionEngine`'s. `orderFile` and `reportFile` are the files, which outlive
  the processes. `StartLive` sets up the order ring; `OpenReports` then opens the
  report ring, or panics if there is none (`main.rs:20-25`). Between the two
  (`opening`) an execution engine that waits for the order ring may make the
  report ring, and then the first start of all succeeds. `StartEngine` waits for
  the order ring, sets up the report ring, and then connects (`main.cpp:56-59`);
  a connection the exchange has not accepted, because it serves another, waits
  in the listen backlog, where bytes are taken and never answered
  (`linked = FALSE`). `found` is history: how many of the reports in the ring
  were there when the live engine opened it.
* **Visualiser.** A read is one step, as `BroadcastLog` has it; what happens
  inside one is in `ShmRing`. `batch`, `stored`, `failed`, `skipped` say where a
  record has gone; the last three are history. `Begin` is the page-touching loop
  of `create_producer`, whose first zero falls on the magic number (`lib.rs:107`).

## 3. Runs

| run | instance | shows |
|---|---|---|
| `ring_safety` | 2 units (so 2 slots, 1 of them outside) that are a page each, 2 pieces, one consumer of each kind, 4 messages an era, 2 eras | `TypeOK`, `Retained`, `BoundedTear`, and `Log`: `ShmRing` implements `BroadcastLog` |
| `ring_live` | 4 units, one piece, one consumer, 7 messages, 2 eras | `Settled`: a running consumer is in the end handed every message that it has before it, or told of an overrun past it |
| `ring_torn`, `ring_reset`, `ring_overrun` | 4 units, 2 pieces, one consumer, 6 messages; 2 eras for `ring_reset` | three statements of the code's comments that do not hold (section 5) |
| `replay` | 2 stocks, 5 × 4 quotes (one pair crossed), lot 2, risk limit 4, strategy cap 5, 6 orders | positions, reports and tracker (`RiskIsPosition`, `PacketSettles`, `ReportsMatchTracker`, `ToldOnce`), the dashboard (`DashboardCurrent`), the money (`NoFreeMoney`), and `KeepsLedger`: `ReplayEngine` implements `OrderLedger` |
| `replay_sync` | same | one statement of a test that does not hold |
| `book` | one stock, 2 orders a day, 2 prices, quantities 1 to 3, 1 execution, 1 restart, `Word` 16; ids symmetric | `LevelsAreSums`, `NeverShort`, `Mirror`, `NeverCrossed` under any loss |
| `feed` | 3 stocks, one of them not traded, 1 order a day, 2 prices, 2 executions, 1 restart | packets find their own stock (`TypeOK`), `TickerGenuine` |
| `execution` | structs of 3 bytes, buffer of 7, pipes of 5 and 7, order ring of 5 slots with the last one outside, 7 orders | framing (`ReportsFramed`, `FilledInOrder`), room (`BufferHasRoom`, `OrdersCutOnlyWhenFull`), `NoStandoff`, and `Answered` under fairness |
| `live` | one stock, 2 × 2 quotes, lot 1, limit 1, 2 orders a life, 3 starts of the live engine, 2 connections, 2 starts of the exchange | restarts (`NothingStale`, `ExposureOverRestarts`), `KeepsLedger` while nothing ends, and `AllConfirmed` under fairness |
| `visualiser` | 3 slots, batches of 2, 2 looks, 5 records a ring, 2 rings, 2 starts | `AccountedOnce`, `NothingOfTheOld`, and `EachSettled` under fairness |

Why the bounds are enough:

* ring: with 2 slots and 4 messages a consumer can be behind by less than a lap,
  exactly one, and more, a slot is written twice, the index wraps, and the slot
  outside the mapping is used; two eras show a restart, and a creation that
  stops half way, during every step. Two pieces are the fewest that can tear.
  Consumers do not write, so more of them show nothing new, and 4 slots in pages
  of 2 with 5 messages show the same in twice the time. `MaxHead` and `MaxEra`
  bound only how long the producer goes on.
* replay: limit 4 and lot 2 reach the limit on both sides, and go there and back; the
  strategy's cap lies above the risk limit, as 5000 lies above 3500, and is passed;
  two stocks keep per-stock state apart; quotes of 2, 3 and 5 against 4 and 5 move
  the midpoint by whole and by half ticks. `MaxOrders` bounds only the day.
* book: two orders share a price, stand against each other, or one replaces the
  other; quantities 1 to 3 let an order be cancelled in part twice, and let a
  level hold a sum that no order has. A restart may come at any moment of the
  day, and any set of packets may be lost. Longer days, and a sum of many
  orders, are the business of the proofs.
* feed: three stocks are one whose packets must not reach the two traded ones;
  with two prices a print at a wrong one shows. One order, and prints without
  one, are enough for a ticker: it keeps no order.
* execution: 7 = 2·3 + 1, as 1024 = 53·19 + 17: the buffer and the way back
  hold two structs and a cut one, the way out one and a cut one. 7 orders fill
  both pipes, the buffer and both processes' hands, reach the slot outside the
  mapping, and lap the ring of 5 while an order is taken in parts.
* live: three starts are one that fails and two lives, or three lives; limit 1 with lot 1 is
  reached by the first order. The bound of `ExposureOverRestarts` is met exactly
  by two connections in one life; in two lives of two orders it is missed by one
  lot, and with `MaxOrders = 3` it is met there too, so that it could not be
  tighter. That it is never passed is proved for any number of each.
* visualiser: 5 records lap 3 slots; a batch of 2 is full, over-full by one, and
  short; two rings show a producer re-created under a reader and under one that
  is attaching.

Deadlock checking is off where the system may stop: a ring whose producer has
written its bound, a day whose ids are used up, processes that have ended. It is
on for `replay`, where the next packet can always come.

**Fairness.** `ring_live` assumes weak fairness of a consumer's `read()`: its
loop has no exit and no wait but a 1 ms sleep. Nothing is assumed of the
producer. `execution` assumes weak fairness of the engine and of the exchange:
each is a loop that waits only in `send`, `recv` or `sendall`, which return when
there is room or data. `live` assumes it of the live engine's loop, which
polls for reports after every packet and after every WouldBlock, so that no
packet need come; of the two halves of the execution engine's loop, since each
turn of it comes to both; and of the exchange. `visualiser` assumes it of its loop, whose reads end
and whose request times out after a second. Nobody is bound to start, to stay
up or to write: the properties except the end of a process.

## 4. Proofs

For every value of the constants that the modules' assumptions allow. Most
assumptions only give the constants their types; those that say more are

* `RoomAssumption` (an order and a report have one size, 19 bytes, and the
  connection has room for two reports; its buffers are set to 64 KiB) and
  `SizeAssumption`'s `BufSize >= 2 * ReportSize` (1024 bytes);
* `ListingAssumption`: a locate code is one stock's for the day, as ITCH has it;
* `QuantityAssumption`: an order has at least one share, and its shares are a
  u32.

Two theorems, `LevelsAreSumsHolds` and `NeverCrossedHolds`, are about the
behaviours in which `SharesFit` always holds: `Spec /\ []SharesFit => ...`. It is
a predicate of one state, that the shares then standing in a book at one price
are fewer than 2^32. A price level is a u32 that `add_order` increases without a
test (`orderbook/src/lib.rs:51`), so past that the two halves of a book really
part, and a level may be deleted while orders stand at it; the hypothesis says
no more than that this has not happened. Nothing is asked of the day as a whole. What
speaks of orders and not of levels needs no hypothesis: `NeverShortHolds`,
`MirrorHolds`, `TickerGenuineHolds` and `FeedTypeOK`.

Every safety property of a passing run is proved, and so are the three
refinements.

* `ShmRing_proofs`: `Invariance` (`IInv`), and from it `TypeCorrect`,
  `LastLapRetained`, `TearIsBounded`.
  `Retained` is not inductive: it speaks of whole slots, and between two stores
  a slot is not whole. `SlotInv` says it piece by piece (a slot keeps what it
  had until that piece is stored), `WriteInv` what the write in progress has
  stored, `CopyInv` what a copy in progress can have collected given how far
  `head` has moved, `RoomInv` that no copy began in an era to come.
  `BoundedTear` follows when `ReadEnd` finds `head` within a lap: then `CopyInv`
  leaves two possibilities for each piece. A zeroed timestamp is a third, which
  both `SlotInv` and `CopyInv` carry along until head is reset; that nobody
  writes meanwhile is `TouchInv`. Modular arithmetic is in `WrapLemmas`:
  numbers less than a lap apart have different slots.
  `RingIsLog` is the refinement: each step of the ring is a step of the log or
  leaves it alone; storing and copying pieces stutter, zeroing a page is damage
  to its place.
* `OrderBook_proofs`: the operations of a book keep its two halves together
  (`OrdersOK` and `LevelsOK`: what stands at each price is its level's sum, if it
  fits before and after; the orders do not depend on the levels, so their half
  stands alone). Sums are the
  cardinality of a set of shares (`Total`), so what an order more or less does
  to a sum follows from the theorems about finite sets, and no subtraction goes
  below zero because one order is no more than the sum it is part of.
* `Feed_proofs`: `BookInvariance`, and from it `NeverShortHolds`, `MirrorHolds`;
  `LevelsInvariance`, and from both `LevelsAreSumsHolds`, `NeverCrossedHolds`. `BookInv` needs, besides these
  properties themselves, that a stock the engine has heard of has its slot
  (`Routed`), that what rests at the exchange is what is left of an order it was
  given (`Resting`), and that the exchange's own book is not crossed (`Apart`).
  `NeverShort` is what makes `LevelsAreSums` inductive and not the other way
  round: a cancel of more than a book has would wrap. A packet is either heard,
  which changes book and exchange by the same amount, or missed, which changes
  only the exchange and gives up `Mirror` for that stock. `TickerInvariance`,
  `TickerGenuineHolds`, `FeedTypeOK`: `TickerInv` says that match numbers grow and
  are below the next one; it rests on `BookInv`, since the price and the
  aggressor of an 'E' come from the order in the book.
* `ReplayEngine_proofs`: `Invariance`, `TypeCorrect`, `RiskTracksPosition`,
  `ExposureLimit`, `EveryPacketSettles`, `ReportsAreExpected`,
  `StrategyToldOnce`, `MidpointsStayTogether`, `DashboardIsCurrent`,
  `NoOrderMakesMoney`, and the refinement `ReplayKeepsLedger`. The
  strengthening is `OneAtATime`: at most one order is unreported, its report is
  the only one queued, and its stock is mapped; and `MidpointsAgree`: the
  handler's midpoint is the strategy's, rounded. `DashboardIsCurrent` has two
  cases: a record is written and shows the account, or the midpoint has stayed
  within a tick and the order that went out was at no better price than that.
* `ExecutionEngine_proofs`: `Invariance`, `TypeCorrect`,
  `OrdersInOrder`, `Framing`, `RoomForAReport`, `CutOnlyWhenFull`,
  `NeverStandoff`. None of these is inductive: they speak of one end of a
  stream that is cut anywhere. The invariant says of each direction that what
  is in the sender's hand, on the wire and in the receiver's buffer, joined, is
  a row of whole structs (`Carries`): of the orders handed over and not filled
  (`OrderInv`, but for the bytes of lost orders), and of the reports filled and
  not published (`ReportInv`). That an order is spoiled before `Found` can differ
  from it is `PlaceInv`: what waits in the ring is within a ring of what is
  stored, or spoiled. A
  step that moves bytes along leaves the row as it is; one that takes a struct
  up adds to its end, one that decodes a struct takes from its front.
  `NoStandoff` is a count (`LoadInv`): a turn of the engine puts one order under
  way and takes in either every report that has come or more than one, so what
  is under way never exceeds `OutRoom` and two structs, while a standoff would
  have to fill both directions and both processes' hands.
* `Visualiser_proofs`: `Invariance`, `TypeCorrect`, `EveryRecordOnce`,
  `OnlyTheNew`. `AccountedOnce` needs to know that nothing at or beyond the cursor
  has gone anywhere (`CursorInv`), `NothingOfTheOld` that a whole header belongs
  to the last ring begun (`HeaderInv`).
* `LiveSystem_proofs`: `LiveTypes`, `NothingStaleHolds`, `ExposureHolds` and the
  refinement `LiveKeepsLedger`, for any number of starts, connections, symbols
  and orders. Five invariants:
  `FileInv`: there is no life before there is a report ring.
  `Types`: `TypeOK`, and that nothing is on its way to an exchange that serves
  nobody.
  `Drained`, for `NothingStale`: while a report of an earlier life is unread no
  order has gone out, and the engine is either polling or has no stock mapped. It
  is the order of things in the handler that makes this so: a stock is mapped by
  a packet, and after each packet the ring is read to its end.
  `Pipeline`, while no process has ended: the orders are numbered as they were
  written; what has been taken is what has been filled and what is on its way,
  what has been filled is what has been published and what is on its way back;
  and the tracker holds exactly the orders whose report has not been read. A
  report is told apart by its id alone, so this is what makes it the right one.
  `Exposure`, for ever: there is a path of positions, one for each prefix of the
  orders of this life, that keeps to the risk check's limit (`Sent`), and one
  for what is on its way to the exchange, from the position there (`Trading`).
  Their difference is what an earlier life or connection has left behind, and
  forwarding does not change it (`Linked`; between two lives, with an empty ring,
  there is nothing to forward); each connection or life adds to it
  at most what the other path can have come to. The paths are quantified, not
  defined by recursion, so that one more or less is a lemma (`PathAppend`,
  `PathTail`) and needs no induction.
  In the refinement a fill is within the ledger's limit because it is a point of
  `Sent`'s path, and settles because the path ends in what the risk check
  believes.

Checked by TLC only: liveness (`Settled`, `Answered`, `AllConfirmed`,
`EachSettled`), for which the prover has no rule.

## 5. Where the code and its comments disagree

1. `SuccessIsWhole` — `lib.rs:214` "Verify that producer didnt overlap during
   copy". The slot of message `head` is stored before `head` moves, so at a
   distance of exactly one lap the test `> capacity` passes over a slot that is
   being rewritten. `BoundedTear` says exactly how much can go wrong.
2. `StaleSeqIsReset` — `lib.rs:184` "producer restarted/crashed". The branch
   is unreachable behind `seq >= head → Empty`.
3. `WritesInsideMapping` — `main.cpp:62` "power-of-two mask for 64MB ring". The
   header shifts the slots by one, so the last lies outside.
4. `InSync` — `market-handler/src/lib.rs:993` "Strategy must be in sync". Sales
   are reported to the strategy as purchases.

What the models say of the code that no comment claims: from an empty
`/dev/shm` the live engine comes up at its first start only if an execution
engine that is waiting already makes the report ring between `main.rs:20` and
`main.rs:23`, and otherwise after a start that failed; a report that is still
under way when a live engine is started again confirms the order of the new life
that has its id (`NothingStale` covers those that are in the ring already); an
order in the last slot of a lap, and one that is stored over while the execution
engine sends it, is filled as something else, and nothing notices (`Lost`);
restarts multiply the exposure limit (`ExposureOverRestarts`); a visualiser whose producer is created again
says nothing of the records below its cursor (`from` in `AccountedOnce`); and
a consumer that reads on while a ring is created anew may be handed whole
messages of the old one whose timestamp has lost its first byte (`BoundedTear`;
no consumer in the repository looks at that timestamp).

## 6. Not modelled, and why

* Data that no property tells apart: big-endian decoding and the trimming of
  symbols in the parser, the Printable flag of 'C', the text of InfluxDB lines
  (which label locate 13 AAPL and every other MSFT), timestamps, the latency
  table `sendTimeStamps`, which is only printed, `last_prices` and
  `print_final_pnl` of the replay engine. `common` and `itch-packet-sim` have no
  behaviour. The other strategies of `strategies` are used by no application.
* A packet too short for its type (the parser panics), and a feed that
  duplicates or reorders: a datagram here comes once or not at all. An order id
  or locate code used twice in a day, which ITCH rules out.
* u32 overflow of the sum of two volumes (`strategies/src/lib.rs:181`): both
  would have to pass two thousand million shares at one price.
* `f64` rounding: prices are below 2^32 and volumes too, so the comparisons are
  exact but at the thresholds themselves.
* Telemetry of the live engine: it is built with a writer that does nothing, so
  nothing of it reaches the dashboard.
* Laps and torn reads in `LiveSystem` and `Visualiser`, cut streams in
  `LiveSystem`: they are in `ShmRing` and `ExecutionEngine`. What a garbled or
  newer order that is sent in a lost one's place does at the exchange is left
  open.
* The C++ producer (`helper.hpp:60-61`) in a model of its own: it touches no
  page (`PageUnits > Units`) and stores magic number and head the other way
  round. The magic number of the old ring is still there, so a consumer that
  attaches between the two has attached to the old ring, which `ShmRing` allows
  before the creation begins.

## 7. Plan

What exists: every module of section 2 with its runs, and the proofs of
section 4. What is left, in order of importance:

1. Laps of the order ring in `LiveSystem`: what becomes of `ExposureOverRestarts`
   when the execution engine reads an order that has been overwritten.
2. Reports of an earlier life in `LiveSystem` that arrive after a restart: how
   many orders of the new life they can confirm, and how far the strategy's
   position may then be from the exchange's.
