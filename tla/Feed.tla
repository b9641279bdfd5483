-------------------------------- MODULE Feed --------------------------------
(***************************************************************************)
(* From the exchange's ITCH feed to the books and tickers of the traded    *)
(* stocks: crates/itch-parser, the routing and the book arms of            *)
(* crates/market-handler, crates/orderbook and crates/ticker.              *)
(*                                                                         *)
(* The exchange is modelled beside them: its book, and one packet for each *)
(* change.  A packet is a UDP datagram and may be lost; parse_itch_message *)
(* knows neither 'F' (an order added with its owner's name) nor 'U' (an    *)
(* order replaced by another); and the engine may be started again in the  *)
(* middle of the day.  Order ids and match numbers are unique over the day *)
(* and a stock's locate code is fixed for it.                              *)
(***************************************************************************)
EXTENDS OrderBook, Sequences

CONSTANTS
  Listing,     \* the day's directory: locate code -> stock
  Targets,     \* target_symbols
  None,        \* no slot (-1), no field
  Ids,         \* bound: order ids of the day
  Prices,
  Quantities,
  MaxTrades,   \* bound: executions of the day
  MaxRestarts  \* bound: restarts of the engine

Locates == DOMAIN Listing

\* A locate code is one stock's for the day.
ASSUME ListingAssumption ==
  /\ IsFiniteSet(Locates)
  /\ \A l, k \in Locates : Listing[l] = Listing[k] => l = k
  /\ None \notin Targets

ASSUME PriceAssumption == Prices \subseteq Nat

\* The shares of an order are a u32.
ASSUME QuantityAssumption == Quantities \subseteq 1 .. Word - 1

VARIABLES
  lookup,      \* lookup_table: locate -> stock, or None
  processors,  \* for each traded stock, its book and its ticker
  venue,       \* the orders that rest at the exchange
  given,       \* the orders the exchange has ever given an id
  prints,      \* for each locate, the executions there
  heard,       \* locates whose directory packet this engine has received
  missed,      \* locates of which this engine has missed a packet
  restarts

vars == <<lookup, processors, venue, given, prints, heard, missed, restarts>>
engineVars == <<lookup, processors>>
exchangeVars == <<venue, given, prints>>

----------------------------------------------------------------------------
(* Packets: the value of each field at the offset where it begins.         *)

packet ++ field == Put(packet, field[1], field[2])

Packet(type, l) == Empty ++ <<0, type>> ++ <<1, l>>

DirectoryPacket(l) == Packet("R", l) ++ <<11, Listing[l]>>
AddPacket(type, l, id, side, px, q) ==
  Packet(type, l) ++ <<11, id>> ++ <<19, side>> ++ <<20, q>> ++ <<24, Listing[l]>> ++ <<32, px>>
CancelPacket(l, id, q) == Packet("X", l) ++ <<11, id>> ++ <<19, q>>
DeletePacket(l, id) == Packet("D", l) ++ <<11, id>>
ReplacePacket(l, id, new, px, q) ==
  Packet("U", l) ++ <<11, id>> ++ <<19, new>> ++ <<27, q>> ++ <<31, px>>
ExecutedPacket(l, id, q, match) ==
  Packet("E", l) ++ <<11, id>> ++ <<19, q>> ++ <<23, match>>
ExecutedAtPacket(l, id, q, px, match) ==
  Packet("C", l) ++ <<11, id>> ++ <<19, q>> ++ <<23, match>> ++ <<31, "Y">> ++ <<32, px>>
TradePacket(l, side, px, q, match) ==
  Packet("P", l) ++ <<11, 0>> ++ <<19, side>> ++ <<20, q>> ++ <<24, Listing[l]>>
                 ++ <<32, px>> ++ <<36, match>>

----------------------------------------------------------------------------
(* parse_itch_message: the fields each type is read from.                  *)

Field(data, offset) == IF offset \in DOMAIN data THEN data[offset] ELSE None

SideOf(byte) == CASE byte = "B" -> "Buy" [] byte = "S" -> "Sell" [] OTHER -> "Neither"

\* What parse_itch_message makes nothing of.
NoMessage == [kind |-> "None"]

StockDirectory(data) == [kind |-> "StockDirectory", symbol |-> Field(data, 11)]

ParseAdd(data) ==
  IF SideOf(Field(data, 19)) = "Neither" THEN NoMessage
  ELSE [kind |-> "AddOrder", id |-> Field(data, 11), side |-> SideOf(Field(data, 19)),
        qty |-> Field(data, 20), px |-> Field(data, 32)]

ParseCancel(data) ==
  [kind |-> "ModifyOrder", id |-> Field(data, 11), qty |-> Field(data, 19)]

ParseDelete(data) == [kind |-> "DeleteOrder", id |-> Field(data, 11)]

ParseTrade(data) ==
  IF SideOf(Field(data, 19)) = "Neither" THEN NoMessage
  ELSE [kind |-> "Trade", side |-> SideOf(Field(data, 19)), qty |-> Field(data, 20),
        px |-> Field(data, 32), match |-> Field(data, 36)]

ParseExecuted(data) ==
  [kind |-> "OrderExecuted", id |-> Field(data, 11), qty |-> Field(data, 19),
   match |-> Field(data, 23)]

ParseExecutedAt(data) ==
  [kind |-> "OrderExecutedWithPrice", id |-> Field(data, 11), qty |-> Field(data, 19),
   match |-> Field(data, 23), px |-> Field(data, 32)]

Parse(data) ==
  CASE Field(data, 0) = "R" -> StockDirectory(data)
    [] Field(data, 0) = "A" -> ParseAdd(data)
    [] Field(data, 0) = "X" -> ParseCancel(data)
    [] Field(data, 0) = "D" -> ParseDelete(data)
    [] Field(data, 0) = "P" -> ParseTrade(data)
    [] Field(data, 0) = "E" -> ParseExecuted(data)
    [] Field(data, 0) = "C" -> ParseExecutedAt(data)
    [] OTHER -> NoMessage

----------------------------------------------------------------------------
(* The ticker.                                                             *)

NewTicker == [trades |-> <<>>, volume |-> 0, last |-> 0]

\* add_trade that forgets the volume of earlier trades.
AddTradeAnew(ticker, px, q, match, side) ==
  [trades |-> Append(ticker.trades, [px |-> px, qty |-> q, match |-> match, side |-> side]),
   volume |-> q,
   last |-> px]

AddTrade(ticker, px, q, match, side) ==
  [trades |-> Append(ticker.trades, [px |-> px, qty |-> q, match |-> match, side |-> side]),
   volume |-> ticker.volume + q,
   last |-> px]

----------------------------------------------------------------------------
(* handle_event: what a message does to a SymbolProcessor's book and       *)
(* ticker.  The strategy it then runs is in MarketHandler.                 *)

NewProcessor == [book |-> NewBook, ticker |-> NewTicker]

Knows(p, id) == id \in DOMAIN p.book.orders
Aggressor(side) == IF side = "Buy" THEN "Sell" ELSE "Buy"

\* DeleteOrder: all that the book thinks is left of the order.
OnDelete(p, m) ==
  IF Knows(p, m.id)
  THEN [p EXCEPT !.book = CancelOrder(@, m.id, @.orders[m.id].qty)]
  ELSE p

OnTrade(p, m) == [p EXCEPT !.ticker = AddTrade(@, m.px, m.qty, m.match, m.side)]

\* An execution printed whether its order is in the book or not.
PrintUnknown(p, m, px) ==
  [ticker |-> AddTrade(p.ticker, px, m.qty, m.match, "Buy"),
   book |-> CancelOrder(p.book, m.id, m.qty)]

\* An execution at px; of an order that the book does not know it is not
\* even printed.
OnExecution(p, m, px) ==
  IF Knows(p, m.id)
  THEN [ticker |-> AddTrade(p.ticker, px, m.qty, m.match,
                            Aggressor(p.book.orders[m.id].side)),
        book |-> CancelOrder(p.book, m.id, m.qty)]
  ELSE p

\* OrderExecuted at the price of the order in the book.
OnExecuted(p, m) ==
  OnExecution(p, m, IF Knows(p, m.id) THEN p.book.orders[m.id].px ELSE None)

HandleEvent(p, m) ==
  CASE m.kind = "AddOrder" -> [p EXCEPT !.book = AddOrder(@, m.id, m.side, m.px, m.qty)]
    [] m.kind = "ModifyOrder" -> [p EXCEPT !.book = CancelOrder(@, m.id, m.qty)]
    [] m.kind = "DeleteOrder" -> OnDelete(p, m)
    [] m.kind = "Trade" -> OnTrade(p, m)
    [] m.kind = "OrderExecuted" -> OnExecuted(p, m)
    [] m.kind = "OrderExecutedWithPrice" -> OnExecution(p, m, m.px)

----------------------------------------------------------------------------
(* MarketState.                                                            *)

\* handle_stock_directory that takes any symbol for one of its own.
MapAny(l, symbol) ==
  /\ lookup' = [lookup EXCEPT ![l] = IF symbol \in Targets THEN symbol
                                     ELSE CHOOSE s \in Targets : TRUE]
  /\ UNCHANGED processors

\* handle_stock_directory: a stock that is not traded has no slot.
HandleStockDirectory(l, symbol) ==
  /\ lookup' = IF symbol \in Targets THEN [lookup EXCEPT ![l] = symbol] ELSE lookup
  /\ UNCHANGED processors

\* handle_raw_packet and filter_message_for_symbols.
HandleRawPacket(data) ==
  LET m == Parse(data)
      l == Field(data, 1)
  IN \/ m.kind = "None" /\ UNCHANGED engineVars
     \/ m.kind = "StockDirectory" /\ HandleStockDirectory(l, m.symbol)
     \/ /\ m.kind \notin {"None", "StockDirectory"}
        /\ processors' = IF lookup[l] = None THEN processors
                         ELSE [processors EXCEPT ![lookup[l]] = HandleEvent(@, m)]
        /\ UNCHANGED lookup

----------------------------------------------------------------------------
(* The way of a packet.                                                    *)

\* A packet arrives.  The engine misses it if it has not heard of the stock
\* (and cannot know whose it is) or the parser has no arm for its type.
Arrive(data) ==
  LET l == data[1] IN
    /\ HandleRawPacket(data)
    /\ heard' = IF data[0] = "R" THEN heard \union {l} ELSE heard
    /\ missed' = IF data[0] # "R" /\ (l \notin heard \/ data[0] \in {"F", "U"})
                 THEN missed \union {l} ELSE missed

\* A packet is lost.
Lose(data) ==
  /\ missed' = IF data[0] = "R" THEN missed ELSE missed \union {data[1]}
  /\ UNCHANGED <<engineVars, heard>>

Emit(data) == (Arrive(data) \/ Lose(data)) /\ UNCHANGED restarts

\* The engine ends and is started again, with nothing remembered.
Restart ==
  /\ restarts < MaxRestarts
  /\ restarts' = restarts + 1
  /\ lookup' = [l \in Locates |-> None]
  /\ processors' = [s \in Targets |-> NewProcessor]
  /\ heard' = {}
  /\ missed' = {l \in Locates : prints[l] # <<>> \/ \E id \in DOMAIN given : given[id].locate = l}
  /\ UNCHANGED exchangeVars

----------------------------------------------------------------------------
(* The exchange.                                                           *)

Init ==
  /\ lookup = [l \in Locates |-> None]
  /\ processors = [s \in Targets |-> NewProcessor]
  /\ venue = Empty
  /\ given = Empty
  /\ prints = [l \in Locates |-> <<>>]
  /\ heard = {}
  /\ missed = {}
  /\ restarts = 0

\* The exchange matches an order that would cross before it rests.
Rests(l, side, px) ==
  \A id \in DOMAIN venue :
    venue[id].locate = l /\ venue[id].side # side =>
      IF side = "Buy" THEN px < venue[id].px ELSE px > venue[id].px

NewOrder(l, side, px, q) == [locate |-> l, side |-> side, px |-> px, qty |-> q]

Byte(side) == IF side = "Buy" THEN "B" ELSE "S"

\* What is left of a resting order after q of its shares have gone.
Reduced(id, q) ==
  IF q = venue[id].qty THEN Without(venue, id)
  ELSE Put(venue, id, [venue[id] EXCEPT !.qty = @ - q])

NextMatch == 1 + Total([l \in Locates |-> Len(prints[l])])

\* 'R', at the start of the day or again.
List(l) == Emit(DirectoryPacket(l)) /\ UNCHANGED exchangeVars

\* 'A' or 'F': an order comes to rest.
Add(l, id, side, px, q) ==
  /\ id \notin DOMAIN given
  /\ Rests(l, side, px)
  /\ given' = Put(given, id, NewOrder(l, side, px, q))
  /\ venue' = Put(venue, id, NewOrder(l, side, px, q))
  /\ UNCHANGED prints
  /\ \E type \in {"A", "F"} : Emit(AddPacket(type, l, id, Byte(side), px, q))

\* 'X': a part of an order is cancelled.
Cancel(id, q) ==
  /\ id \in DOMAIN venue /\ q <= venue[id].qty
  /\ venue' = Reduced(id, q)
  /\ UNCHANGED <<given, prints>>
  /\ Emit(CancelPacket(venue[id].locate, id, q))

\* 'D': an order is deleted.
Delete(id) ==
  /\ id \in DOMAIN venue
  /\ venue' = Without(venue, id)
  /\ UNCHANGED <<given, prints>>
  /\ Emit(DeletePacket(venue[id].locate, id))

\* 'U': an order gives way to a new one.
Replace(id, new, px, q) ==
  /\ id \in DOMAIN venue
  /\ new \notin DOMAIN given
  /\ LET o == venue[id] IN
       /\ Rests(o.locate, o.side, px)
       /\ given' = Put(given, new, NewOrder(o.locate, o.side, px, q))
       /\ venue' = Put(Without(venue, id), new, NewOrder(o.locate, o.side, px, q))
       /\ Emit(ReplacePacket(o.locate, id, new, px, q))
  /\ UNCHANGED prints

Record(l, px, q, side) ==
  /\ NextMatch <= MaxTrades
  /\ prints' = [prints EXCEPT ![l] =
       Append(@, [px |-> px, qty |-> q, match |-> NextMatch, side |-> side])]

\* 'E': an order is executed at its price, in part or in full.
Execute(id, q) ==
  /\ id \in DOMAIN venue /\ q <= venue[id].qty
  /\ LET o == venue[id] IN
       /\ Record(o.locate, o.px, q, Aggressor(o.side))
       /\ Emit(ExecutedPacket(o.locate, id, q, NextMatch))
  /\ venue' = Reduced(id, q)
  /\ UNCHANGED given

\* 'C': the same at another price.
ExecuteAt(id, q, px) ==
  /\ id \in DOMAIN venue /\ q <= venue[id].qty
  /\ LET o == venue[id] IN
       /\ Record(o.locate, px, q, Aggressor(o.side))
       /\ Emit(ExecutedAtPacket(o.locate, id, q, px, NextMatch))
  /\ venue' = Reduced(id, q)
  /\ UNCHANGED given

\* 'P': an execution of orders that the book does not show.  Its Buy/Sell field
\* is the side, which the handler takes for the aggressor's; ITCH means by it
\* the side of the order that was resting.
TradeHidden(l, side, px, q) ==
  /\ Record(l, px, q, side)
  /\ Emit(TradePacket(l, Byte(side), px, q, NextMatch))
  /\ UNCHANGED <<venue, given>>

Next ==
  \/ Restart
  \/ \E l \in Locates : List(l)
  \/ \E l \in Locates, id \in Ids, side \in Sides, px \in Prices, q \in Quantities :
       Add(l, id, side, px, q)
  \/ \E l \in Locates, side \in Sides, px \in Prices, q \in Quantities :
       TradeHidden(l, side, px, q)
  \/ \E id \in Ids, q \in Quantities :
       Cancel(id, q) \/ Execute(id, q) \/ \E px \in Prices : ExecuteAt(id, q, px)
  \/ \E id \in Ids : Delete(id)
  \/ \E id, new \in Ids, px \in Prices, q \in Quantities : Replace(id, new, px, q)

Spec == Init /\ [][Next]_vars

----------------------------------------------------------------------------
(* Properties.                                                             *)

Book(s) == processors[s].book
Ticker(s) == processors[s].ticker

\* Types, and that a slot is only ever given to its own stock.
TypeOK ==
  /\ \A l \in Locates : lookup[l] \in {None, Listing[l]}
  /\ \A s \in Targets :
       /\ \A id \in DOMAIN Book(s).orders :
            Book(s).orders[id] \in [side : Sides, px : Prices, qty : 1 .. Word - 1]
       /\ \A side \in Sides : DOMAIN Book(s).levels[side] \subseteq Prices
       /\ Ticker(s).volume \in Nat

Standing(s, side, px) ==
  {id \in DOMAIN Book(s).orders :
     Book(s).orders[id].side = side /\ Book(s).orders[id].px = px}

\* The shares that stand in a book at one price, at this moment, fit the u32
\* that keeps their sum.  As long as they do, the levels are sums and can tell
\* an empty price from one with orders.
SharesFit ==
  \A s \in Targets, side \in Sides, px \in Prices :
    Total([id \in Standing(s, side, px) |-> Book(s).orders[id].qty]) < Word

\* The two halves of a book agree, whatever was lost, and however the engine
\* came to start in the middle: a price is in L2 exactly when an order of L3
\* stands there, with the sum of their shares (as long as SharesFit).
LevelsAreSums ==
  \A s \in Targets, side \in Sides, px \in Prices :
    LET level == Book(s).levels[side] IN
      /\ px \in DOMAIN level <=> Standing(s, side, px) # {}
      /\ px \in DOMAIN level =>
           level[px] = Total([id \in Standing(s, side, px) |-> Book(s).orders[id].qty])

\* A lost packet can only leave too much in a book.  What is in it is an
\* order of that stock, at its side and price, and of one that the exchange
\* still has it never shows less: so no packet of the exchange takes away
\* more than there is, and no subtraction of u32 wraps.
NeverShort ==
  \A s \in Targets : \A id \in DOMAIN Book(s).orders :
    LET o == Book(s).orders[id] IN
      /\ id \in DOMAIN given
      /\ Listing[given[id].locate] = s /\ o.side = given[id].side /\ o.px = given[id].px
      /\ o.qty <= given[id].qty
      /\ id \in DOMAIN venue => o.qty >= venue[id].qty

Complete(l) == Listing[l] \in Targets /\ l \notin missed

\* A book that has missed no packet is the exchange's.
Mirror ==
  \A l \in Locates : Complete(l) =>
    LET orders == Book(Listing[l]).orders IN
      /\ DOMAIN orders = {id \in DOMAIN venue : venue[id].locate = l}
      /\ \A id \in DOMAIN orders :
           orders[id] = [side |-> venue[id].side, px |-> venue[id].px, qty |-> venue[id].qty]

\* And then it is never crossed: the midpoint lies between two real quotes
\* (as long as SharesFit).
NeverCrossed ==
  \A l \in Locates : Complete(l) =>
    \A b \in BestBid(Book(Listing[l])), a \in BestAsk(Book(Listing[l])) : b < a

\* The ticker holds executions of its own stock, each once, in their order,
\* and its volume is theirs -- all of them if no packet was missed.
TickerGenuine ==
  \A l \in Locates : Listing[l] \in Targets =>
    LET t == Ticker(Listing[l]) IN
      /\ \A i \in DOMAIN t.trades : \E j \in DOMAIN prints[l] : t.trades[i] = prints[l][j]
      /\ \A i, j \in DOMAIN t.trades : i < j => t.trades[i].match < t.trades[j].match
      /\ t.volume = Total([i \in DOMAIN t.trades |-> t.trades[i].qty])
      /\ t.trades # <<>> => t.last = t.trades[Len(t.trades)].px
      /\ Complete(l) => t.trades = prints[l]

=============================================================================
