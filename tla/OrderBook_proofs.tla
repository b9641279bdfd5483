--------------------------- MODULE OrderBook_proofs ---------------------------
(***************************************************************************)
(* The book of one stock: its two halves agree after every operation, for  *)
(* any set of prices and any orders, as long as the shares that stand at   *)
(* the price fit a u32.                                                    *)
(***************************************************************************)
EXTENDS OrderBook, FiniteSetTheorems, TLAPS

----------------------------------------------------------------------------
(* Sums.                                                                   *)

Shares(f) == UNION {{x} \X (1 .. f[x]) : x \in DOMAIN f}

\* What is counted.
LEMMA ShareIs ==
  ASSUME NEW f, NEW p
  PROVE  p \in Shares(f) <=> \E x \in DOMAIN f : \E n \in 1 .. f[x] : p = <<x, n>>
BY DEF Shares

\* A sum of finitely many naturals is a natural.
LEMMA TotalType ==
  ASSUME NEW S, IsFiniteSet(S), NEW f \in [S -> Nat]
  PROVE  IsFiniteSet(Shares(f)) /\ Total(f) \in Nat
<1> DEFINE block == [x \in S |-> {x} \X (1 .. f[x])]
           blocks == {{x} \X (1 .. f[x]) : x \in S}
<1>1. block \in Surjection(S, blocks)
  BY DEF Surjection
<1>2. IsFiniteSet(blocks)
  BY <1>1, FS_Surjection
<1>3. \A x \in S : IsFiniteSet({x} \X (1 .. f[x]))
  <2> TAKE x \in S
  <2>1. IsFiniteSet({x})
    BY FS_Singleton
  <2>2. f[x] \in Int /\ 1 \in Int
    OBVIOUS
  <2>3. IsFiniteSet(1 .. f[x])
    BY <2>2, FS_Interval
  <2> QED BY <2>1, <2>3, FS_Product
<1>4. \A T \in blocks : IsFiniteSet(T)
  BY <1>3
<1>5. IsFiniteSet(UNION blocks)
  BY <1>2, <1>4, FS_UNION
<1>6. Shares(f) = UNION blocks
  BY DEF Shares
<1>7. IsFiniteSet(Shares(f))
  BY <1>5, <1>6
<1>8. Total(f) = Cardinality(Shares(f))
  BY DEF Total, Shares
<1> QED BY <1>7, <1>8, FS_CardinalityType

\* One more number.
LEMMA TotalPut ==
  ASSUME NEW S, IsFiniteSet(S), NEW f \in [S -> Nat], NEW k, k \notin S, NEW n \in Nat
  PROVE  Total(Put(f, k, n)) = Total(f) + n
<1> DEFINE g == Put(f, k, n)
           more == {k} \X (1 .. n)
<1>1. g \in [S \union {k} -> Nat] /\ g[k] = n /\ \A x \in S : g[x] = f[x]
  BY DEF Put
<1>2. Shares(g) = Shares(f) \union more
  <2>1. \A p : p \in Shares(g) <=> p \in Shares(f) \/ p \in more
    <3> TAKE p
    <3>1. p \in Shares(g) <=> \E x \in S \union {k} : \E i \in 1 .. g[x] : p = <<x, i>>
      BY <1>1, ShareIs
    <3>2. p \in Shares(f) <=> \E x \in S : \E i \in 1 .. f[x] : p = <<x, i>>
      BY ShareIs
    <3>3. p \in more <=> \E i \in 1 .. n : p = <<k, i>>
      OBVIOUS
    <3> QED BY <3>1, <3>2, <3>3, <1>1
  <2> QED BY <2>1
<1>3. Shares(f) \intersect more = {}
  <2>1. \A p \in Shares(f) : p \notin more
    <3> TAKE p \in Shares(f)
    <3>1. \E x \in S : \E i \in 1 .. f[x] : p = <<x, i>>
      BY ShareIs
    <3> QED BY <3>1
  <2> QED BY <2>1
<1>4. IsFiniteSet(Shares(f)) /\ Total(f) \in Nat
  BY TotalType
<1>5. IsFiniteSet(more) /\ Cardinality(more) = n
  <2>1. IsFiniteSet({k}) /\ Cardinality({k}) = 1
    BY FS_Singleton
  <2>2. IsFiniteSet(1 .. n) /\ Cardinality(1 .. n) = IF 1 > n THEN 0 ELSE n - 1 + 1
    <3>1. n \in Int /\ 1 \in Int
      OBVIOUS
    <3> QED BY <3>1, FS_Interval
  <2>3. IsFiniteSet(more) /\ Cardinality(more) = Cardinality({k}) * Cardinality(1 .. n)
    BY <2>1, <2>2, FS_Product
  <2> QED BY <2>1, <2>2, <2>3
<1>6. Cardinality(Shares(g)) = Cardinality(Shares(f)) + Cardinality(more) - Cardinality({})
  BY <1>2, <1>3, <1>4, <1>5, FS_Union
<1>7. Cardinality({}) = 0
  BY FS_EmptySet
<1>8. Total(f) = Cardinality(Shares(f)) /\ Total(g) = Cardinality(Shares(g))
  BY DEF Total, Shares
<1> QED BY <1>1, <1>4, <1>5, <1>6, <1>7, <1>8

\* One number less.
LEMMA TotalWithout ==
  ASSUME NEW S, IsFiniteSet(S), NEW f \in [S -> Nat], NEW k \in S
  PROVE  /\ Without(f, k) \in [S \ {k} -> Nat]
         /\ IsFiniteSet(S \ {k})
         /\ Total(Without(f, k)) \in Nat
         /\ Total(f) = Total(Without(f, k)) + f[k]
<1>1. Without(f, k) \in [S \ {k} -> Nat]
  BY DEF Without
<1>2. IsFiniteSet(S \ {k})
  BY FS_RemoveElement
<1>3. Put(Without(f, k), k, f[k]) = f
  BY DEF Put, Without
<1>4. PICK g \in [S \ {k} -> Nat] : g = Without(f, k)
  BY <1>1
<1>5. Total(Put(g, k, f[k])) = Total(g) + f[k]
  BY <1>2, TotalPut
<1>6. Total(g) \in Nat
  BY <1>2, TotalType
<1> QED BY <1>1, <1>2, <1>3, <1>4, <1>5, <1>6

\* One number changed.
LEMMA TotalChange ==
  ASSUME NEW S, IsFiniteSet(S), NEW f \in [S -> Nat], NEW k \in S, NEW n \in Nat
  PROVE  Total(Put(f, k, n)) = Total(Without(f, k)) + n
<1>1. PICK g \in [S \ {k} -> Nat] : g = Without(f, k)
  BY TotalWithout
<1>2. Put(g, k, n) = Put(f, k, n)
  <2>1. DOMAIN Put(g, k, n) = DOMAIN Put(f, k, n)
    BY DEF Put
  <2> QED BY <1>1, <2>1 DEF Put, Without
<1>3. IsFiniteSet(S \ {k})
  BY FS_RemoveElement
<1>4. Total(Put(g, k, n)) = Total(g) + n
  <2>1. PICK T : T = S \ {k}
    OBVIOUS
  <2>2. PICK h \in [T -> Nat] : h = g
    BY <2>1
  <2>3. IsFiniteSet(T) /\ k \notin T
    BY <1>3, <2>1
  <2>4. Total(Put(h, k, n)) = Total(h) + n
    BY <2>3, TotalPut
  <2> QED BY <2>2, <2>4
<1> QED BY <1>1, <1>2, <1>4

\* Nothing sums to nothing, and something to something.
LEMMA TotalZero ==
  ASSUME NEW S, IsFiniteSet(S), NEW f \in [S -> Nat \ {0}]
  PROVE  Total(f) = 0 <=> S = {}
<1>1. f \in [S -> Nat]
  OBVIOUS
<1>2. CASE S = {}
  <2>1. \A p : p \notin Shares(f)
    BY <1>2, ShareIs
  <2>2. Shares(f) = {}
    BY <2>1
  <2> QED BY <1>2, <2>2, FS_EmptySet DEF Total, Shares
<1>3. CASE S # {}
  <2>1. PICK k \in S : TRUE
    BY <1>3
  <2>2. Total(f) = Total(Without(f, k)) + f[k] /\ Total(Without(f, k)) \in Nat
    BY <1>1, TotalWithout
  <2>3. f[k] \in Nat /\ f[k] > 0
    OBVIOUS
  <2> QED BY <1>3, <2>2, <2>3
<1> QED BY <1>2, <1>3

----------------------------------------------------------------------------
(* The two halves of a book.                                               *)

StandingIn(b, side, px) == {id \in DOMAIN b.orders : b.orders[id].side = side /\ b.orders[id].px = px}
Stakes(b, side, px) == [id \in StandingIn(b, side, px) |-> b.orders[id].qty]

\* The orders of a book are finitely many, each of at most `most' shares.
OrdersOK(b, ids, prices, most) ==
  /\ IsFiniteSet(DOMAIN b.orders)
  /\ DOMAIN b.orders \subseteq ids
  /\ \A id \in DOMAIN b.orders : b.orders[id] \in [side : Sides, px : prices, qty : 1 .. most]

LevelsTyped(b, prices) ==
  /\ DOMAIN b.levels = Sides
  /\ \A side \in Sides : DOMAIN b.levels[side] \subseteq prices

LevelsOK(b, prices) ==
  /\ LevelsTyped(b, prices)
  /\ \A side \in Sides, px \in prices :
       /\ px \in DOMAIN b.levels[side] <=> StandingIn(b, side, px) # {}
       /\ px \in DOMAIN b.levels[side] => b.levels[side][px] = Total(Stakes(b, side, px))

\* What every book is, whatever its levels hold.
BookOK(b, ids, prices, most) == OrdersOK(b, ids, prices, most) /\ LevelsTyped(b, prices)

\* Every level of the book fits a u32.
BookFits(b, prices) ==
  \A side \in Sides, px \in prices : Total(Stakes(b, side, px)) < Word

\* What stands at a price is a finite map to quantities.
LEMMA StakesType ==
  ASSUME NEW b, NEW ids, NEW prices, NEW most \in Nat,
         OrdersOK(b, ids, prices, most), NEW side, NEW px
  PROVE  /\ IsFiniteSet(StandingIn(b, side, px))
         /\ Stakes(b, side, px) \in [StandingIn(b, side, px) -> 1 .. most]
         /\ Total(Stakes(b, side, px)) \in Nat
<1> DEFINE S == StandingIn(b, side, px)
           f == Stakes(b, side, px)
<1>1. S \in SUBSET DOMAIN b.orders
  BY DEF StandingIn
<1>2. IsFiniteSet(S)
  BY <1>1, FS_Subset DEF OrdersOK
<1>3. f \in [S -> 1 .. most]
  BY DEF Stakes, StandingIn, OrdersOK
<1>4. f \in [S -> Nat]
  BY <1>3
<1>5. Total(f) \in Nat
  BY <1>2, <1>4, TotalType
<1> QED BY <1>2, <1>3, <1>5

\* Small sums and differences do not wrap.
LEMMA NoWrap ==
  ASSUME NEW x \in Nat, NEW y \in Nat
  PROVE  /\ x + y < Word => Plus(x, y) = x + y
         /\ y <= x /\ x < Word => Minus(x, y) = x - y
<1>1. Word \in Nat /\ Word > 0
  BY WordAssumption
<1>2. \A z \in Nat : z < Word => z % Word = z
  BY <1>1
<1>3. ASSUME x + y < Word PROVE Plus(x, y) = x + y
  <2>1. x + y \in Nat
    OBVIOUS
  <2> QED BY <2>1, <1>2, <1>3 DEF Plus
<1>4. ASSUME y <= x, x < Word PROVE Minus(x, y) = x - y
  <2>1. x - y \in Nat /\ x - y < Word
    BY <1>1, <1>4
  <2> QED BY <2>1, <1>2 DEF Minus
<1> QED BY <1>3, <1>4

\* A new book.
LEMMA NewBookOK ==
  ASSUME NEW ids, NEW prices, NEW most
  PROVE  BookOK(NewBook, ids, prices, most) /\ LevelsOK(NewBook, prices)
<1>1. NewBook.orders = Empty /\ NewBook.levels = [side \in Sides |-> Empty]
  BY DEF NewBook
<1>2. DOMAIN Empty = {}
  BY DEF Empty
<1>3. OrdersOK(NewBook, ids, prices, most)
  BY <1>1, <1>2, FS_EmptySet DEF OrdersOK
<1>4. \A side \in Sides : NewBook.levels[side] = Empty
  BY <1>1
<1>5. \A side \in Sides, px \in prices : StandingIn(NewBook, side, px) = {}
  BY <1>1, <1>2 DEF StandingIn
<1>6. LevelsOK(NewBook, prices)
  BY <1>1, <1>2, <1>4, <1>5 DEF LevelsOK, LevelsTyped
<1> QED BY <1>3, <1>6 DEF BookOK, LevelsOK

\* What add_order of an order with a new id does to the orders.
LEMMA AddOrderOrders ==
  ASSUME NEW b, NEW ids, NEW prices, NEW most \in Nat, OrdersOK(b, ids, prices, most),
         LevelsTyped(b, prices), NEW id \in ids, NEW side \in Sides, NEW px \in prices,
         NEW q \in 1 .. most
  PROVE  /\ OrdersOK(AddOrder(b, id, side, px, q), ids, prices, most)
         /\ LevelsTyped(AddOrder(b, id, side, px, q), prices)
<1> DEFINE c == AddOrder(b, id, side, px, q)
           o == [side |-> side, px |-> px, qty |-> q]
<1>1. /\ c.orders = Put(b.orders, id, o)
      /\ c.levels = [b.levels EXCEPT ![side] = LevelPlus(@, px, q)]
  BY DEF AddOrder
<1>2. /\ DOMAIN c.orders = DOMAIN b.orders \union {id} /\ c.orders[id] = o
      /\ \A i \in DOMAIN b.orders \ {id} : c.orders[i] = b.orders[i]
  BY <1>1 DEF Put
<1>3. o \in [side : Sides, px : prices, qty : 1 .. most]
  OBVIOUS
<1>31. IsFiniteSet(DOMAIN c.orders)
  BY <1>2, FS_AddElement DEF OrdersOK
<1>4. OrdersOK(c, ids, prices, most)
  BY <1>2, <1>3, <1>31 DEF OrdersOK
<1>5. /\ DOMAIN c.levels = Sides /\ c.levels[side] = LevelPlus(b.levels[side], px, q)
      /\ \A t \in Sides \ {side} : c.levels[t] = b.levels[t]
  BY <1>1 DEF LevelsTyped
<1>6. DOMAIN LevelPlus(b.levels[side], px, q) = DOMAIN b.levels[side] \union {px}
  BY DEF LevelPlus, Put
<1>7. LevelsTyped(c, prices)
  BY <1>5, <1>6 DEF LevelsTyped
<1> QED BY <1>4, <1>7

\* And to the levels, if the one it comes to still fits.
LEMMA AddOrderLevels ==
  ASSUME NEW b, NEW ids, NEW prices, NEW most \in Nat,
         OrdersOK(b, ids, prices, most), LevelsOK(b, prices),
         NEW id \in ids, id \notin DOMAIN b.orders,
         NEW side \in Sides, NEW px \in prices, NEW q \in 1 .. most,
         BookFits(AddOrder(b, id, side, px, q), prices)
  PROVE  LevelsOK(AddOrder(b, id, side, px, q), prices)
<1> DEFINE c == AddOrder(b, id, side, px, q)
           f == Stakes(b, side, px)
           S == StandingIn(b, side, px)
           level == b.levels[side]
<1>1. /\ c.orders = Put(b.orders, id, [side |-> side, px |-> px, qty |-> q])
      /\ c.levels = [b.levels EXCEPT ![side] = LevelPlus(@, px, q)]
  BY DEF AddOrder
<1>2. /\ DOMAIN c.orders = DOMAIN b.orders \union {id}
      /\ c.orders[id] = [side |-> side, px |-> px, qty |-> q]
      /\ \A i \in DOMAIN b.orders : c.orders[i] = b.orders[i]
  BY <1>1 DEF Put
<1>4. OrdersOK(b, ids, prices, most) /\ LevelsOK(b, prices)
  OBVIOUS
<1>5. /\ IsFiniteSet(S) /\ f \in [S -> 1 .. most] /\ f \in [S -> Nat]
      /\ Total(f) \in Nat
  <2>1. IsFiniteSet(S) /\ f \in [S -> 1 .. most] /\ Total(f) \in Nat
    BY <1>4, StakesType
  <2> QED BY <2>1
<1>6. \A t \in Sides, p \in prices :
        StandingIn(c, t, p) = IF t = side /\ p = px THEN S \union {id} ELSE StandingIn(b, t, p)
  BY <1>2 DEF StandingIn
<1>7. id \notin S
  BY DEF StandingIn
<1>8. Stakes(c, side, px) = Put(f, id, q)
  <2>1. StandingIn(c, side, px) = S \union {id}
    BY <1>6
  <2>2. DOMAIN f = S
    BY <1>5
  <2>3. \A i \in S : c.orders[i] = b.orders[i]
    BY <1>2 DEF StandingIn
  <2> QED BY <1>2, <1>7, <2>1, <2>2, <2>3 DEF Stakes, Put
<1>9. Total(Stakes(c, side, px)) = Total(f) + q
  <2>1. q \in Nat
    OBVIOUS
  <2>2. Total(Put(f, id, q)) = Total(f) + q
    BY <1>5, <1>7, <2>1, TotalPut
  <2> QED BY <1>8, <2>2
<1>10. Total(Stakes(c, side, px)) < Word
  BY DEF BookFits
<1>11. \A t \in Sides, p \in prices : ~(t = side /\ p = px) => Stakes(c, t, p) = Stakes(b, t, p)
  BY <1>2, <1>6 DEF Stakes, StandingIn
<1>12. /\ DOMAIN c.levels = Sides
       /\ c.levels[side] = Put(level, px, Plus(IF px \in DOMAIN level THEN level[px] ELSE 0, q))
       /\ \A t \in Sides \ {side} : c.levels[t] = b.levels[t]
  BY <1>1, <1>4 DEF LevelsOK, LevelsTyped, LevelPlus
<1>13. Plus(IF px \in DOMAIN level THEN level[px] ELSE 0, q) = Total(f) + q
  <2>1. (IF px \in DOMAIN level THEN level[px] ELSE 0) = Total(f)
    <3>1. CASE px \in DOMAIN level
      BY <3>1, <1>4 DEF LevelsOK
    <3>2. CASE px \notin DOMAIN level
      <4>1. S = {}
        BY <3>2, <1>4 DEF LevelsOK
      <4>2. f \in [S -> Nat \ {0}]
        BY <1>5
      <4>3. Total(f) = 0
        BY <4>1, <4>2, <1>5, TotalZero
      <4> QED BY <3>2, <4>3
    <3> QED BY <3>1, <3>2
  <2>2. q \in Nat /\ Total(f) + q < Word
    BY <1>9, <1>10
  <2> QED BY <2>1, <2>2, <1>5, NoWrap
<1>14. /\ DOMAIN c.levels[side] = DOMAIN level \union {px}
       /\ c.levels[side][px] = Total(f) + q
       /\ \A p \in DOMAIN level \ {px} : c.levels[side][p] = level[p]
  BY <1>12, <1>13 DEF Put
<1>15. \A t \in Sides, p \in prices :
         /\ p \in DOMAIN c.levels[t] <=> StandingIn(c, t, p) # {}
         /\ p \in DOMAIN c.levels[t] => c.levels[t][p] = Total(Stakes(c, t, p))
  <2> TAKE t \in Sides, p \in prices
  <2>1. CASE t = side /\ p = px
    BY <2>1, <1>6, <1>9, <1>14
  <2>2. CASE ~(t = side /\ p = px)
    <3>1. StandingIn(c, t, p) = StandingIn(b, t, p) /\ Stakes(c, t, p) = Stakes(b, t, p)
      BY <2>2, <1>6, <1>11
    <3>2. /\ p \in DOMAIN c.levels[t] <=> p \in DOMAIN b.levels[t]
          /\ p \in DOMAIN c.levels[t] => c.levels[t][p] = b.levels[t][p]
      BY <2>2, <1>12, <1>14
    <3> QED BY <3>1, <3>2, <1>4 DEF LevelsOK
  <2> QED BY <2>1, <2>2
<1>16. LevelsTyped(c, prices)
  BY AddOrderOrders DEF LevelsOK
<1> QED BY <1>15, <1>16 DEF LevelsOK

\* add_order of an order with a new id.
LEMMA AddOrderOK ==
  ASSUME NEW b, NEW ids, NEW prices, NEW most \in Nat,
         BookOK(b, ids, prices, most),
         NEW id \in ids, id \notin DOMAIN b.orders,
         NEW side \in Sides, NEW px \in prices, NEW q \in 1 .. most
  PROVE  BookOK(AddOrder(b, id, side, px, q), ids, prices, most)
BY AddOrderOrders DEF BookOK

\* What cancel_order leaves of an order of which there is as much.
LEMMA CancelIs ==
  ASSUME NEW b, NEW id \in DOMAIN b.orders, b.orders[id].qty \in Nat, b.orders[id].qty < Word,
         NEW q \in Nat, q <= b.orders[id].qty
  PROVE  /\ CancelOrder(b, id, q).orders =
              IF b.orders[id].qty = q THEN Without(b.orders, id)
              ELSE Put(b.orders, id, [b.orders[id] EXCEPT !.qty = b.orders[id].qty - q])
         /\ CancelOrder(b, id, q).levels =
              [b.levels EXCEPT ![b.orders[id].side] = LevelMinus(@, b.orders[id].px, q)]
<1>1. Minus(b.orders[id].qty, q) = b.orders[id].qty - q
  BY NoWrap
<1>2. b.orders[id].qty - q = 0 <=> b.orders[id].qty = q
  OBVIOUS
<1> QED BY <1>1, <1>2 DEF CancelOrder

\* What cancel_order of no more than there is does to the orders: an order's own
\* quantity does not wrap.
LEMMA CancelOrderOrders ==
  ASSUME NEW b, NEW ids, NEW prices, NEW most \in Nat, most < Word,
         OrdersOK(b, ids, prices, most), LevelsTyped(b, prices),
         NEW id \in DOMAIN b.orders, NEW q \in Nat \ {0}, q <= b.orders[id].qty
  PROVE  /\ OrdersOK(CancelOrder(b, id, q), ids, prices, most)
         /\ LevelsTyped(CancelOrder(b, id, q), prices)
<1> DEFINE c == CancelOrder(b, id, q)
           o == b.orders[id]
<1>1. /\ o \in [side : Sides, px : prices, qty : 1 .. most]
      /\ o.side \in Sides /\ o.px \in prices /\ o.qty \in Nat /\ o.qty <= most
  BY DEF OrdersOK
<1>2. Word \in Nat /\ o.qty < Word
  BY <1>1, WordAssumption
<1>3. /\ c.orders = IF o.qty = q THEN Without(b.orders, id)
                    ELSE Put(b.orders, id, [o EXCEPT !.qty = o.qty - q])
      /\ c.levels = [b.levels EXCEPT ![o.side] = LevelMinus(@, o.px, q)]
  BY <1>1, <1>2, CancelIs
<1>4. OrdersOK(c, ids, prices, most)
  <2>1. CASE o.qty = q
    <3>1. /\ DOMAIN c.orders = DOMAIN b.orders \ {id}
          /\ \A i \in DOMAIN c.orders : c.orders[i] = b.orders[i]
      BY <2>1, <1>3 DEF Without
    <3>2. IsFiniteSet(DOMAIN c.orders)
      BY <3>1, FS_RemoveElement DEF OrdersOK
    <3> QED BY <3>1, <3>2 DEF OrdersOK
  <2>2. CASE o.qty # q
    <3>1. PICK rest \in 1 .. most : rest = o.qty - q
      BY <2>2, <1>1
    <3>2. [o EXCEPT !.qty = rest] \in [side : Sides, px : prices, qty : 1 .. most]
      BY <1>1, <3>1
    <3>3. /\ DOMAIN c.orders = DOMAIN b.orders
          /\ c.orders[id] = [o EXCEPT !.qty = rest]
          /\ \A i \in DOMAIN b.orders \ {id} : c.orders[i] = b.orders[i]
      BY <2>2, <1>3, <3>1 DEF Put
    <3> QED BY <3>2, <3>3 DEF OrdersOK
  <2> QED BY <2>1, <2>2
<1>5. /\ DOMAIN c.levels = Sides /\ c.levels[o.side] = LevelMinus(b.levels[o.side], o.px, q)
      /\ \A t \in Sides \ {o.side} : c.levels[t] = b.levels[t]
  BY <1>1, <1>3 DEF LevelsTyped
<1>6. DOMAIN LevelMinus(b.levels[o.side], o.px, q) \subseteq DOMAIN b.levels[o.side] \union {o.px}
  BY DEF LevelMinus, Put, Without
<1>7. LevelsTyped(c, prices)
  BY <1>1, <1>5, <1>6 DEF LevelsTyped
<1> QED BY <1>4, <1>7

\* And to the levels, if they fitted before.
LEMMA CancelOrderLevels ==
  ASSUME NEW b, NEW ids, NEW prices, NEW most \in Nat, most < Word,
         OrdersOK(b, ids, prices, most), LevelsOK(b, prices), BookFits(b, prices),
         NEW id \in DOMAIN b.orders, NEW q \in Nat \ {0}, q <= b.orders[id].qty
  PROVE  LevelsOK(CancelOrder(b, id, q), prices)
<1> DEFINE c == CancelOrder(b, id, q)
           o == b.orders[id]
           f == Stakes(b, o.side, o.px)
           w == Without(f, id)
           S == StandingIn(b, o.side, o.px)
           level == b.levels[o.side]
<1>1. OrdersOK(b, ids, prices, most) /\ LevelsOK(b, prices)
  OBVIOUS
<1>2. /\ o \in [side : Sides, px : prices, qty : 1 .. most]
      /\ o.side \in Sides /\ o.px \in prices /\ o.qty \in Nat /\ o.qty <= most
  BY <1>1 DEF OrdersOK
<1>3. Word \in Nat /\ o.qty < Word
  BY <1>2, WordAssumption
<1>4. /\ c.orders = IF o.qty = q THEN Without(b.orders, id)
                    ELSE Put(b.orders, id, [o EXCEPT !.qty = o.qty - q])
      /\ c.levels = [b.levels EXCEPT ![o.side] = LevelMinus(@, o.px, q)]
  <2>1. b.orders[id].qty \in Nat /\ b.orders[id].qty < Word
    BY <1>2, <1>3
  <2> QED BY <2>1, CancelIs
<1>5. /\ IsFiniteSet(S) /\ f \in [S -> 1 .. most] /\ f \in [S -> Nat]
      /\ Total(f) \in Nat /\ Total(f) < Word
  <2>0. Total(f) < Word
    BY <1>2 DEF BookFits
  <2>1. IsFiniteSet(S) /\ f \in [S -> 1 .. most] /\ Total(f) \in Nat /\ Total(f) < Word
    BY <1>1, <2>0, StakesType
  <2>2. PICK T : T = S
    OBVIOUS
  <2>3. PICK g \in [T -> 1 .. most] : g = f
    BY <2>1, <2>2
  <2>4. g \in [T -> Nat]
    OBVIOUS
  <2> QED BY <2>1, <2>2, <2>3, <2>4, Zenon
<1>6. id \in S /\ f[id] = o.qty
  BY DEF StandingIn, Stakes
<1>7. /\ w \in [S \ {id} -> Nat] /\ IsFiniteSet(S \ {id}) /\ Total(w) \in Nat
      /\ Total(f) = Total(w) + o.qty
  <2>1. /\ w \in [S \ {id} -> Nat] /\ IsFiniteSet(S \ {id}) /\ Total(w) \in Nat
        /\ Total(f) = Total(w) + f[id]
    <3>1. PICK T : T = S
      OBVIOUS
    <3>2. PICK g \in [T -> Nat] : g = f
      BY <1>5, <3>1
    <3>3. PICK k \in T : k = id
      BY <1>6, <3>1
    <3>4. IsFiniteSet(T)
      BY <1>5, <3>1
    <3>5. /\ Without(g, k) \in [T \ {k} -> Nat] /\ IsFiniteSet(T \ {k})
          /\ Total(Without(g, k)) \in Nat /\ Total(g) = Total(Without(g, k)) + g[k]
      BY <3>4, TotalWithout
    <3> QED BY <3>1, <3>2, <3>3, <3>5
  <2> QED BY <1>6, <2>1
<1>8. /\ o.px \in DOMAIN level /\ level[o.px] = Total(f)
  BY <1>1, <1>2, <1>6 DEF LevelsOK
<1>9. Minus(level[o.px], q) = Total(f) - q
  <2>1. q \in Nat /\ q <= Total(f)
    BY <1>2, <1>7
  <2> QED BY <2>1, <1>5, <1>8, NoWrap
<1>10. /\ DOMAIN c.levels = Sides
       /\ c.levels[o.side] = LevelMinus(level, o.px, q)
       /\ \A t \in Sides \ {o.side} : c.levels[t] = b.levels[t]
  BY <1>1, <1>2, <1>4 DEF LevelsOK, LevelsTyped
<1>11. LevelMinus(level, o.px, q) =
         IF Total(f) - q = 0 THEN Without(level, o.px) ELSE Put(level, o.px, Total(f) - q)
  BY <1>8, <1>9 DEF LevelMinus
<1>12. /\ \A t \in Sides, p \in prices : ~(t = o.side /\ p = o.px) =>
            StandingIn(c, t, p) = StandingIn(b, t, p) /\ Stakes(c, t, p) = Stakes(b, t, p)
       /\ Total(f) - q = 0 <=> StandingIn(c, o.side, o.px) = {}
       /\ Total(Stakes(c, o.side, o.px)) = Total(f) - q
  <2>1. CASE o.qty = q
    <3>1. /\ DOMAIN c.orders = DOMAIN b.orders \ {id}
          /\ \A i \in DOMAIN c.orders : c.orders[i] = b.orders[i]
      BY <2>1, <1>4 DEF Without
    <3>3. \A t \in Sides, p \in prices : ~(t = o.side /\ p = o.px) =>
            StandingIn(c, t, p) = StandingIn(b, t, p)
      BY <3>1 DEF StandingIn
    <3>4. \A t \in Sides, p \in prices : ~(t = o.side /\ p = o.px) =>
            Stakes(c, t, p) = Stakes(b, t, p)
      BY <3>1, <3>3 DEF Stakes, StandingIn
    <3>5. StandingIn(c, o.side, o.px) = S \ {id}
      BY <3>1 DEF StandingIn
    <3>6. Stakes(c, o.side, o.px) = w
      BY <3>1, <3>5 DEF Stakes, StandingIn, Without
    <3>7. Total(f) - q = Total(w)
      BY <2>1, <1>7
    <3>8. w \in [S \ {id} -> Nat \ {0}]
      <4>1. \A i \in S \ {id} : w[i] = f[i] /\ f[i] \in Nat \ {0}
        <5>1. PICK T, n : T = S /\ n = f
          OBVIOUS
        <5>2. n \in [T -> 1 .. most]
          BY <1>5, <5>1, Zenon
        <5>3. \A i \in T : n[i] \in Nat \ {0}
          BY <5>2
        <5>4. \A i \in T \ {id} : Without(n, id)[i] = n[i]
          BY <5>2 DEF Without
        <5> QED BY <5>1, <5>3, <5>4, Zenon
      <4>2. PICK T : T = S \ {id}
        OBVIOUS
      <4>3. PICK v \in [T -> Nat] : v = w
        BY <1>7, <4>2
      <4>4. v \in [T -> Nat \ {0}]
        BY <4>1, <4>2, <4>3
      <4> QED BY <4>2, <4>3, <4>4
    <3>9. Total(w) = 0 <=> S \ {id} = {}
      BY <3>8, <1>7, TotalZero
    <3> QED BY <3>3, <3>4, <3>5, <3>6, <3>7, <3>9
  <2>2. CASE o.qty # q
    <3> DEFINE rest == o.qty - q
    <3>1. rest \in Nat /\ rest # 0 /\ rest \in 1 .. most
      BY <2>2, <1>2
    <3>2. /\ [o EXCEPT !.qty = rest] \in [side : Sides, px : prices, qty : 1 .. most]
          /\ [o EXCEPT !.qty = rest].side = o.side
          /\ [o EXCEPT !.qty = rest].px = o.px
          /\ [o EXCEPT !.qty = rest].qty = rest
      BY <1>2, <3>1
    <3>3. /\ DOMAIN c.orders = DOMAIN b.orders
          /\ c.orders[id] = [o EXCEPT !.qty = rest]
          /\ \A i \in DOMAIN b.orders \ {id} : c.orders[i] = b.orders[i]
      BY <2>2, <1>4 DEF Put
    <3>4. \A i \in DOMAIN b.orders : /\ c.orders[i].side = b.orders[i].side
                                     /\ c.orders[i].px = b.orders[i].px
      BY <3>2, <3>3
    <3>6. \A t, p : StandingIn(c, t, p) = StandingIn(b, t, p)
      BY <3>3, <3>4 DEF StandingIn
    <3>7. \A t \in Sides, p \in prices : ~(t = o.side /\ p = o.px) =>
            Stakes(c, t, p) = Stakes(b, t, p)
      <4> TAKE t \in Sides, p \in prices
      <4> HAVE ~(t = o.side /\ p = o.px)
      <4>1. \A i \in StandingIn(b, t, p) : i \in DOMAIN b.orders \ {id}
        BY DEF StandingIn
      <4>2. StandingIn(c, t, p) = StandingIn(b, t, p)
        BY <3>6
      <4> QED BY <3>3, <4>1, <4>2 DEF Stakes
    <3>8. Stakes(c, o.side, o.px) = Put(f, id, rest)
      <4>1. \A i \in S : i \in DOMAIN b.orders
        BY DEF StandingIn
      <4>2. StandingIn(c, o.side, o.px) = S
        BY <3>6
      <4>3. DOMAIN f = S /\ S \union {id} = S
        BY <1>5, <1>6
      <4>4. \A i \in S : c.orders[i].qty = IF i = id THEN rest ELSE f[i]
        BY <3>2, <3>3, <4>1 DEF Stakes
      <4> QED BY <4>2, <4>3, <4>4 DEF Stakes, Put
    <3>9. Total(Put(f, id, rest)) = Total(w) + rest
      BY <3>1, <1>5, <1>6, TotalChange
    <3>10. Total(f) - q = Total(w) + rest /\ Total(f) - q # 0
      BY <1>7, <1>2, <3>1
    <3>11. StandingIn(c, o.side, o.px) # {}
      BY <3>6, <1>6
    <3>12. \A t \in Sides, p \in prices : ~(t = o.side /\ p = o.px) =>
             StandingIn(c, t, p) = StandingIn(b, t, p) /\ Stakes(c, t, p) = Stakes(b, t, p)
      BY <3>6, <3>7
    <3> QED BY <3>8, <3>9, <3>10, <3>11, <3>12
  <2> QED BY <2>1, <2>2
<1>13. /\ o.px \in DOMAIN c.levels[o.side] <=> Total(f) - q # 0
       /\ o.px \in DOMAIN c.levels[o.side] => c.levels[o.side][o.px] = Total(f) - q
       /\ \A p : p # o.px => /\ p \in DOMAIN c.levels[o.side] <=> p \in DOMAIN level
                             /\ p \in DOMAIN level => c.levels[o.side][p] = level[p]
  <2>1. CASE Total(f) - q = 0
    <3>1. c.levels[o.side] = Without(level, o.px)
      BY <2>1, <1>10, <1>11
    <3>2. /\ DOMAIN c.levels[o.side] = DOMAIN level \ {o.px}
          /\ \A p \in DOMAIN level \ {o.px} : c.levels[o.side][p] = level[p]
      BY <3>1 DEF Without
    <3> QED BY <2>1, <3>2
  <2>2. CASE Total(f) - q # 0
    <3>1. c.levels[o.side] = Put(level, o.px, Total(f) - q)
      BY <2>2, <1>10, <1>11
    <3>2. /\ DOMAIN c.levels[o.side] = DOMAIN level \union {o.px}
          /\ c.levels[o.side][o.px] = Total(f) - q
          /\ \A p \in DOMAIN level : p # o.px => c.levels[o.side][p] = level[p]
      BY <3>1 DEF Put
    <3> QED BY <2>2, <3>2
  <2> QED BY <2>1, <2>2
<1>14. \A t \in Sides, p \in prices :
         /\ p \in DOMAIN c.levels[t] <=> StandingIn(c, t, p) # {}
         /\ p \in DOMAIN c.levels[t] => c.levels[t][p] = Total(Stakes(c, t, p))
  <2> TAKE t \in Sides, p \in prices
  <2>1. CASE t = o.side /\ p = o.px
    BY <2>1, <1>12, <1>13
  <2>2. CASE ~(t = o.side /\ p = o.px)
    <3>1. /\ p \in DOMAIN c.levels[t] <=> p \in DOMAIN b.levels[t]
          /\ p \in DOMAIN b.levels[t] => c.levels[t][p] = b.levels[t][p]
      BY <2>2, <1>10, <1>13
    <3> QED BY <3>1, <2>2, <1>1, <1>12 DEF LevelsOK
  <2> QED BY <2>1, <2>2
<1>15. LevelsTyped(c, prices)
  BY CancelOrderOrders DEF LevelsOK
<1> QED BY <1>14, <1>15 DEF LevelsOK

\* cancel_order of no more than there is.
LEMMA CancelOrderOK ==
  ASSUME NEW b, NEW ids, NEW prices, NEW most \in Nat, most < Word,
         BookOK(b, ids, prices, most),
         NEW id \in DOMAIN b.orders, NEW q \in Nat \ {0}, q <= b.orders[id].qty
  PROVE  BookOK(CancelOrder(b, id, q), ids, prices, most)
BY CancelOrderOrders DEF BookOK

\* What the operations make of book b, of a stock whose ids are ids: nothing,
\* a new book, a new order, or less of an order that it has.
Moved(b, c, ids, prices, most) ==
  \/ c = b \/ c = NewBook
  \/ \E id \in ids \ DOMAIN b.orders, side \in Sides, px \in prices, q \in 1 .. most :
       c = AddOrder(b, id, side, px, q)
  \/ \E id \in DOMAIN b.orders : \E q \in Nat \ {0} :
       q <= b.orders[id].qty /\ c = CancelOrder(b, id, q)

\* They keep the levels the sums of the orders, if every level fits a u32
\* before and after.
LEMMA LevelsMoved ==
  ASSUME NEW b, NEW c, NEW ids, NEW prices, NEW most \in Nat, most < Word,
         BookOK(b, ids, prices, most), LevelsOK(b, prices),
         BookFits(b, prices), BookFits(c, prices), Moved(b, c, ids, prices, most)
  PROVE  LevelsOK(c, prices)
<1>1. OrdersOK(b, ids, prices, most)
  BY DEF BookOK
<1>2. CASE c = b
  BY <1>2
<1>3. CASE c = NewBook
  BY <1>3, NewBookOK
<1>4. ASSUME NEW id \in ids \ DOMAIN b.orders, NEW side \in Sides, NEW px \in prices,
             NEW q \in 1 .. most, c = AddOrder(b, id, side, px, q)
      PROVE  LevelsOK(c, prices)
  BY <1>1, <1>4, AddOrderLevels
<1>5. ASSUME NEW id \in DOMAIN b.orders, NEW q \in Nat \ {0}, q <= b.orders[id].qty,
             c = CancelOrder(b, id, q)
      PROVE  LevelsOK(c, prices)
  BY <1>1, <1>5, CancelOrderLevels
<1> QED BY <1>2, <1>3, <1>4, <1>5 DEF Moved

=============================================================================
