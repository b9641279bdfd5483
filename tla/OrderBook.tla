----------------------------- MODULE OrderBook -----------------------------
(***************************************************************************)
(* crates/orderbook: the book of one stock, kept twice -- every order (L3) *)
(* and the total at each price (L2).  The operations are operators from a  *)
(* book to a book; Feed applies them to the messages of the exchange.      *)
(***************************************************************************)
EXTENDS Integers, FiniteSets

CONSTANT Word      \* 2^32: quantities are u32 and wrap in a release build

ASSUME WordAssumption == Word \in Nat \ {0}

Sides == {"Buy", "Sell"}

----------------------------------------------------------------------------
(* Maps that grow and shrink (HashMap, BTreeMap).                          *)

Put(f, k, v) == [x \in DOMAIN f \union {k} |-> IF x = k THEN v ELSE f[x]]
Without(f, k) == [x \in DOMAIN f \ {k} |-> f[x]]
Empty == [x \in {} |-> 0]

\* The sum of a map's numbers: f[x] shares of each x, counted.
Total(f) == Cardinality(UNION {{x} \X (1 .. f[x]) : x \in DOMAIN f})

----------------------------------------------------------------------------
(* A book: L3OrderBook.orders, and .bids and .asks as one function of the  *)
(* side, each a map from price to total.                                   *)

NewBook == [orders |-> Empty, levels |-> [side \in Sides |-> Empty]]

Minus(x, y) == (x - y) % Word
Plus(x, y) == (x + y) % Word

\* A price level set to its newest order instead of increased by it.
LevelReplaced(level, px, q) == Put(level, px, q)

\* A price level after q more shares: entry(price).or_insert(0) += q.
LevelPlus(level, px, q) ==
  Put(level, px, Plus(IF px \in DOMAIN level THEN level[px] ELSE 0, q))

\* A price level kept when it has run empty.
LevelKept(level, px, q) ==
  IF px \in DOMAIN level THEN Put(level, px, Minus(level[px], q)) ELSE level

\* A price level after q shares less; an empty level is deleted.
LevelMinus(level, px, q) ==
  IF px \notin DOMAIN level THEN level
  ELSE IF Minus(level[px], q) = 0 THEN Without(level, px)
  ELSE Put(level, px, Minus(level[px], q))

AddOrder(book, id, side, px, q) ==
  [orders |-> Put(book.orders, id, [side |-> side, px |-> px, qty |-> q]),
   levels |-> [book.levels EXCEPT ![side] = LevelPlus(@, px, q)]]

\* cancel_order that stores the cancelled quantity as what is left.
CancelStoresWrong(book, id, q) ==
  IF id \notin DOMAIN book.orders THEN book
  ELSE LET o == book.orders[id] IN
    [orders |-> IF o.qty = q THEN Without(book.orders, id)
                ELSE Put(book.orders, id, [o EXCEPT !.qty = q]),
     levels |-> [book.levels EXCEPT ![o.side] = LevelMinus(@, o.px, q)]]

\* cancel_order that leaves an order of no shares in the map.
CancelKeepsOrder(book, id, q) ==
  IF id \notin DOMAIN book.orders THEN book
  ELSE LET o == book.orders[id] IN
    [orders |-> Put(book.orders, id, [o EXCEPT !.qty = Minus(@, q)]),
     levels |-> [book.levels EXCEPT ![o.side] = LevelMinus(@, o.px, q)]]

\* cancel_order; an order the book does not know is ignored.
CancelOrder(book, id, q) ==
  IF id \notin DOMAIN book.orders THEN book
  ELSE LET o == book.orders[id]
           rest == Minus(o.qty, q)
       IN [orders |-> IF rest = 0 THEN Without(book.orders, id)
                      ELSE Put(book.orders, id, [o EXCEPT !.qty = rest]),
           levels |-> [book.levels EXCEPT ![o.side] = LevelMinus(@, o.px, q)]]

\* get_best_bid and get_best_ask: none, or the price.
BestBid(book) ==
  {px \in DOMAIN book.levels["Buy"] : \A p \in DOMAIN book.levels["Buy"] : p <= px}
BestAsk(book) ==
  {px \in DOMAIN book.levels["Sell"] : \A p \in DOMAIN book.levels["Sell"] : px <= p}

=============================================================================
