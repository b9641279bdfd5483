----------------------------- MODULE Feed_proofs -----------------------------
(***************************************************************************)
(* The books and tickers of Feed against the exchange, for any directory,  *)
(* any orders and executions of a day, any losses and any restarts.        *)
(***************************************************************************)
EXTENDS Feed, OrderBook_proofs, SequenceTheorems

----------------------------------------------------------------------------
(* The inductive invariant.                                                *)

\* The largest order.
Most == Word - 1

\* Types, and that a slot is only ever given to its own stock.
Shapes ==
  /\ lookup \in [Locates -> Targets \union {None}]
  /\ \A l \in Locates : lookup[l] \in {None, Listing[l]}
  /\ DOMAIN processors = Targets
  /\ \A s \in Targets : processors[s] = [book |-> Book(s), ticker |-> Ticker(s)]
  /\ missed \subseteq Locates

\* A stock that this engine has heard of has its slot.
Routed == \A l \in heard : l \in Locates /\ (Listing[l] \in Targets => lookup[l] = Listing[l])

OrderType == [locate : Locates, side : Sides, px : Prices, qty : Quantities]

\* What rests at the exchange is what is left of an order it was given.
Resting ==
  /\ DOMAIN given \subseteq Ids
  /\ \A id \in DOMAIN given : given[id] \in OrderType
  /\ DOMAIN venue \subseteq DOMAIN given
  /\ \A id \in DOMAIN venue :
       /\ venue[id] \in [locate : Locates, side : Sides, px : Prices, qty : Nat \ {0}]
       /\ venue[id].locate = given[id].locate
       /\ venue[id].side = given[id].side
       /\ venue[id].px = given[id].px
       /\ venue[id].qty <= given[id].qty

\* The exchange's own book is not crossed.
Apart ==
  \A i, j \in DOMAIN venue :
    venue[i].locate = venue[j].locate /\ venue[i].side = "Buy" /\ venue[j].side = "Sell"
      => venue[i].px < venue[j].px

Books == \A s \in Targets : BookOK(Book(s), Ids, Prices, Most)

\* NeverShort, for the book b of stock s.
NotShort(b, s) ==
  \A id \in DOMAIN b.orders :
    /\ id \in DOMAIN given
    /\ Listing[given[id].locate] = s
    /\ b.orders[id].side = given[id].side
    /\ b.orders[id].px = given[id].px
    /\ b.orders[id].qty <= given[id].qty
    /\ id \in DOMAIN venue => b.orders[id].qty >= venue[id].qty

\* Mirror, for the book b of the stock at locate l.
Mirrors(b, l) ==
  /\ DOMAIN b.orders = {id \in DOMAIN venue : venue[id].locate = l}
  /\ \A id \in DOMAIN b.orders :
       b.orders[id] = [side |-> venue[id].side, px |-> venue[id].px, qty |-> venue[id].qty]

\* What a step makes of the books.
Moves == \A s \in Targets : Moved(Book(s), Book(s)', Ids, Prices, Most)

BookInv ==
  /\ Shapes /\ Routed /\ Resting /\ Apart /\ Books
  /\ \A s \in Targets : NotShort(Book(s), s)
  /\ \A l \in Locates : Complete(l) => Mirrors(Book(Listing[l]), l)

\* NeverShort and Mirror say the same.
LEMMA NeverShortIs == NeverShort <=> \A s \in Targets : NotShort(Book(s), s)
BY DEF NeverShort, NotShort

LEMMA MirrorIs == Mirror <=> \A l \in Locates : Complete(l) => Mirrors(Book(Listing[l]), l)
BY DEF Mirror, Mirrors

----------------------------------------------------------------------------
(* Constants.                                                              *)

LEMMA MostIs == Most \in Nat /\ Most < Word /\ Quantities \subseteq 1 .. Most
BY WordAssumption, QuantityAssumption DEF Most

LEMMA QuantityType ==
  ASSUME NEW q \in Quantities
  PROVE  q \in 1 .. Most /\ q \in Nat \ {0} /\ q < Word
<1>1. q \in 1 .. Most /\ Most \in Nat /\ Most < Word
  BY MostIs
<1>2. Word \in Nat
  BY WordAssumption
<1> QED BY <1>1, <1>2

----------------------------------------------------------------------------
(* What parse_itch_message makes of each packet of the exchange.           *)

LEMMA DirectoryParsed ==
  ASSUME NEW l
  PROVE  /\ Parse(DirectoryPacket(l)) = [kind |-> "StockDirectory", symbol |-> Listing[l]]
         /\ DirectoryPacket(l)[0] = "R" /\ DirectoryPacket(l)[1] = l
         /\ Field(DirectoryPacket(l), 1) = l
<1> DEFINE d == DirectoryPacket(l)
<1>1. DOMAIN d = {0, 1, 11} /\ d[0] = "R" /\ d[1] = l /\ d[11] = Listing[l]
  BY DEF DirectoryPacket, Packet, ++, Put, Empty
<1>2. Field(d, 0) = "R" /\ Field(d, 1) = l /\ Field(d, 11) = Listing[l]
  BY <1>1 DEF Field
<1>3. Parse(d) = StockDirectory(d)
  BY <1>2 DEF Parse
<1> QED BY <1>1, <1>2, <1>3 DEF StockDirectory

\* The head that all packets about an order share: four fields, at their offsets.
LEMMA FourFields ==
  ASSUME NEW type, NEW l, NEW a, NEW b
  PROVE  LET c == Packet(type, l) ++ <<11, a>> ++ <<19, b>> IN
         DOMAIN c = {0, 1, 11, 19} /\ c[0] = type /\ c[1] = l /\ c[11] = a /\ c[19] = b
<1> DEFINE p == Packet(type, l)
           c == p ++ <<11, a>> ++ <<19, b>>
<1>1. DOMAIN p = {0, 1} /\ p[0] = type /\ p[1] = l
  BY DEF Packet, ++, Put, Empty
<1> HIDE DEF p
<1>2. DOMAIN c = {0, 1, 11, 19} /\ c[0] = type /\ c[1] = l /\ c[11] = a /\ c[19] = b
  BY <1>1 DEF ++, Put
<1> QED BY <1>2 DEF p

\* The fields of an added order, at their offsets.
LEMMA AddFields ==
  ASSUME NEW type, NEW l, NEW id, NEW side, NEW px, NEW q
  PROVE  LET d == AddPacket(type, l, id, side, px, q) IN
         /\ d[0] = type /\ d[1] = l
         /\ Field(d, 0) = type /\ Field(d, 1) = l /\ Field(d, 11) = id
         /\ Field(d, 19) = side /\ Field(d, 20) = q /\ Field(d, 32) = px
<1> DEFINE c == Packet(type, l) ++ <<11, id>> ++ <<19, side>>
           d == AddPacket(type, l, id, side, px, q)
<1>1. DOMAIN c = {0, 1, 11, 19} /\ c[0] = type /\ c[1] = l /\ c[11] = id /\ c[19] = side
  BY FourFields
<1>2. d = c ++ <<20, q>> ++ <<24, Listing[l]>> ++ <<32, px>>
  BY DEF AddPacket
<1> HIDE DEF c
<1>3. /\ DOMAIN d = {0, 1, 11, 19, 20, 24, 32}
      /\ d[0] = type /\ d[1] = l /\ d[11] = id /\ d[19] = side /\ d[20] = q /\ d[32] = px
  BY <1>1, <1>2 DEF ++, Put
<1> QED BY <1>3 DEF Field

LEMMA SideOfByte ==
  ASSUME NEW side \in Sides
  PROVE  SideOf(Byte(side)) = side /\ side # "Neither"
BY DEF Sides, SideOf, Byte

LEMMA AddParsed ==
  ASSUME NEW l, NEW id, NEW side \in Sides, NEW px, NEW q
  PROVE  LET d == AddPacket("A", l, id, Byte(side), px, q) IN
         /\ Parse(d) = [kind |-> "AddOrder", id |-> id, side |-> side, qty |-> q, px |-> px]
         /\ d[0] = "A" /\ d[1] = l /\ Field(d, 1) = l
<1> DEFINE d == AddPacket("A", l, id, Byte(side), px, q)
<1>1. /\ d[0] = "A" /\ d[1] = l
      /\ Field(d, 0) = "A" /\ Field(d, 1) = l /\ Field(d, 11) = id
      /\ Field(d, 19) = Byte(side) /\ Field(d, 20) = q /\ Field(d, 32) = px
  BY AddFields
<1>2. Parse(d) = ParseAdd(d)
  BY <1>1 DEF Parse
<1>3. SideOf(Field(d, 19)) = side /\ side # "Neither"
  BY <1>1, SideOfByte
<1> QED BY <1>1, <1>2, <1>3 DEF ParseAdd

\* An order added with its owner's name is not parsed.
LEMMA AttributedNotParsed ==
  ASSUME NEW l, NEW id, NEW side, NEW px, NEW q
  PROVE  LET d == AddPacket("F", l, id, side, px, q) IN
         Parse(d) = NoMessage /\ d[0] = "F" /\ d[1] = l /\ Field(d, 1) = l
<1> DEFINE d == AddPacket("F", l, id, side, px, q)
<1>1. d[0] = "F" /\ d[1] = l /\ Field(d, 0) = "F" /\ Field(d, 1) = l
  BY AddFields
<1> QED BY <1>1 DEF Parse

LEMMA CancelParsed ==
  ASSUME NEW l, NEW id, NEW q
  PROVE  LET d == CancelPacket(l, id, q) IN
         /\ Parse(d) = [kind |-> "ModifyOrder", id |-> id, qty |-> q]
         /\ d[0] = "X" /\ d[1] = l /\ Field(d, 1) = l
<1> DEFINE d == CancelPacket(l, id, q)
<1>1. DOMAIN d = {0, 1, 11, 19} /\ d[0] = "X" /\ d[1] = l /\ d[11] = id /\ d[19] = q
  BY DEF CancelPacket, Packet, ++, Put, Empty
<1>2. Field(d, 0) = "X" /\ Field(d, 1) = l /\ Field(d, 11) = id /\ Field(d, 19) = q
  BY <1>1 DEF Field
<1>3. Parse(d) = ParseCancel(d)
  BY <1>2 DEF Parse
<1> QED BY <1>1, <1>2, <1>3 DEF ParseCancel

LEMMA DeleteParsed ==
  ASSUME NEW l, NEW id
  PROVE  LET d == DeletePacket(l, id) IN
         /\ Parse(d) = [kind |-> "DeleteOrder", id |-> id]
         /\ d[0] = "D" /\ d[1] = l /\ Field(d, 1) = l
<1> DEFINE d == DeletePacket(l, id)
<1>1. DOMAIN d = {0, 1, 11} /\ d[0] = "D" /\ d[1] = l /\ d[11] = id
  BY DEF DeletePacket, Packet, ++, Put, Empty
<1>2. Field(d, 0) = "D" /\ Field(d, 1) = l /\ Field(d, 11) = id
  BY <1>1 DEF Field
<1>3. Parse(d) = ParseDelete(d)
  BY <1>2 DEF Parse
<1> QED BY <1>1, <1>2, <1>3 DEF ParseDelete

\* An order that replaces another is not parsed.
LEMMA ReplaceNotParsed ==
  ASSUME NEW l, NEW id, NEW new, NEW px, NEW q
  PROVE  LET d == ReplacePacket(l, id, new, px, q) IN
         Parse(d) = NoMessage /\ d[0] = "U" /\ d[1] = l /\ Field(d, 1) = l
<1> DEFINE c == Packet("U", l) ++ <<11, id>> ++ <<19, new>>
           d == ReplacePacket(l, id, new, px, q)
<1>01. DOMAIN c = {0, 1, 11, 19} /\ c[0] = "U" /\ c[1] = l
  BY FourFields
<1>02. d = c ++ <<27, q>> ++ <<31, px>>
  BY DEF ReplacePacket
<1> HIDE DEF c
<1>1. DOMAIN d = {0, 1, 11, 19, 27, 31} /\ d[0] = "U" /\ d[1] = l
  BY <1>01, <1>02 DEF ++, Put
<1>2. Field(d, 0) = "U" /\ Field(d, 1) = l
  BY <1>1 DEF Field
<1> QED BY <1>1, <1>2 DEF Parse

LEMMA ExecutedParsed ==
  ASSUME NEW l, NEW id, NEW q, NEW match
  PROVE  LET d == ExecutedPacket(l, id, q, match) IN
         /\ Parse(d) = [kind |-> "OrderExecuted", id |-> id, qty |-> q, match |-> match]
         /\ d[0] = "E" /\ d[1] = l /\ Field(d, 1) = l
<1> DEFINE c == Packet("E", l) ++ <<11, id>> ++ <<19, q>>
           d == ExecutedPacket(l, id, q, match)
<1>01. DOMAIN c = {0, 1, 11, 19} /\ c[0] = "E" /\ c[1] = l /\ c[11] = id /\ c[19] = q
  BY FourFields
<1>02. d = c ++ <<23, match>>
  BY DEF ExecutedPacket
<1> HIDE DEF c
<1>1. DOMAIN d = {0, 1, 11, 19, 23} /\ d[0] = "E" /\ d[1] = l /\ d[11] = id /\ d[19] = q
      /\ d[23] = match
  BY <1>01, <1>02 DEF ++, Put
<1>2. /\ Field(d, 0) = "E" /\ Field(d, 1) = l /\ Field(d, 11) = id /\ Field(d, 19) = q
      /\ Field(d, 23) = match
  BY <1>1 DEF Field
<1>3. Parse(d) = ParseExecuted(d)
  BY <1>2 DEF Parse
<1> QED BY <1>1, <1>2, <1>3 DEF ParseExecuted

LEMMA ExecutedAtParsed ==
  ASSUME NEW l, NEW id, NEW q, NEW px, NEW match
  PROVE  LET d == ExecutedAtPacket(l, id, q, px, match) IN
         /\ Parse(d) = [kind |-> "OrderExecutedWithPrice", id |-> id, qty |-> q,
                        match |-> match, px |-> px]
         /\ d[0] = "C" /\ d[1] = l /\ Field(d, 1) = l
<1> DEFINE c == Packet("C", l) ++ <<11, id>> ++ <<19, q>>
           d == ExecutedAtPacket(l, id, q, px, match)
<1>1. DOMAIN c = {0, 1, 11, 19} /\ c[0] = "C" /\ c[1] = l /\ c[11] = id /\ c[19] = q
  BY FourFields
<1>2. d = c ++ <<23, match>> ++ <<31, "Y">> ++ <<32, px>>
  BY DEF ExecutedAtPacket
<1> HIDE DEF c
<1>3. DOMAIN d = {0, 1, 11, 19, 23, 31, 32} /\ d[0] = "C" /\ d[1] = l /\ d[11] = id
      /\ d[19] = q /\ d[23] = match /\ d[32] = px
  BY <1>1, <1>2 DEF ++, Put
<1>4. /\ Field(d, 0) = "C" /\ Field(d, 1) = l /\ Field(d, 11) = id /\ Field(d, 19) = q
      /\ Field(d, 23) = match /\ Field(d, 32) = px
  BY <1>3 DEF Field
<1>5. Parse(d) = ParseExecutedAt(d)
  BY <1>4 DEF Parse
<1> QED BY <1>3, <1>4, <1>5 DEF ParseExecutedAt

LEMMA TradeParsed ==
  ASSUME NEW l, NEW side \in Sides, NEW px, NEW q, NEW match
  PROVE  LET d == TradePacket(l, Byte(side), px, q, match) IN
         /\ Parse(d) = [kind |-> "Trade", side |-> side, qty |-> q, px |-> px, match |-> match]
         /\ d[0] = "P" /\ d[1] = l /\ Field(d, 1) = l
<1> DEFINE c == Packet("P", l) ++ <<11, 0>> ++ <<19, Byte(side)>>
           d == TradePacket(l, Byte(side), px, q, match)
<1>1. DOMAIN c = {0, 1, 11, 19} /\ c[0] = "P" /\ c[1] = l /\ c[19] = Byte(side)
  BY FourFields
<1>2. d = c ++ <<20, q>> ++ <<24, Listing[l]>> ++ <<32, px>> ++ <<36, match>>
  BY DEF TradePacket
<1> HIDE DEF c
<1>3. DOMAIN d = {0, 1, 11, 19, 20, 24, 32, 36} /\ d[0] = "P" /\ d[1] = l
      /\ d[19] = Byte(side) /\ d[20] = q /\ d[32] = px /\ d[36] = match
  BY <1>1, <1>2 DEF ++, Put
<1>4. /\ Field(d, 0) = "P" /\ Field(d, 1) = l /\ Field(d, 19) = Byte(side)
      /\ Field(d, 20) = q /\ Field(d, 32) = px /\ Field(d, 36) = match
  BY <1>3 DEF Field
<1>5. Parse(d) = ParseTrade(d)
  BY <1>4 DEF Parse
<1>6. SideOf(Field(d, 19)) = side /\ side # "Neither"
  BY <1>4, SideOfByte
<1> QED BY <1>3, <1>4, <1>5, <1>6 DEF ParseTrade

----------------------------------------------------------------------------
(* The way of a packet that is not a directory entry.                      *)

\* Either it reaches the processor of its stock, or the engine has missed it.
LEMMA Effect ==
  ASSUME Shapes, Routed, NEW l \in Locates, NEW data, Emit(data),
         data[0] # "R", data[1] = l, Field(data, 1) = l,
         NEW m, Parse(data) = m, m.kind # "StockDirectory",
         m.kind = "None" => data[0] \in {"F", "U"}
  PROVE  /\ UNCHANGED <<lookup, heard, restarts>>
         /\ missed \subseteq missed' /\ missed' \subseteq Locates
         /\ DOMAIN processors' = Targets
         /\ \A s \in Targets : s # Listing[l] => processors'[s] = processors[s]
         /\ Listing[l] \in Targets =>
              \/ processors'[Listing[l]] = processors[Listing[l]] /\ l \in missed'
              \/ /\ m.kind # "None"
                 /\ processors'[Listing[l]] = HandleEvent(processors[Listing[l]], m)
<1>1. CASE Lose(data)
  BY <1>1 DEF Lose, Emit, engineVars, Shapes
<1>2. CASE Arrive(data)
  <2>1. /\ HandleRawPacket(data) /\ heard' = heard /\ restarts' = restarts
        /\ missed' = IF l \notin heard \/ data[0] \in {"F", "U"} THEN missed \union {l} ELSE missed
    BY <1>2 DEF Arrive, Emit
  <2>2. missed \subseteq missed' /\ missed' \subseteq Locates
    BY <2>1 DEF Shapes
  <2>3. CASE m.kind = "None"
    <3>1. UNCHANGED <<lookup, processors>>
      BY <2>1, <2>3 DEF HandleRawPacket, engineVars
    <3> QED BY <2>1, <2>2, <2>3, <3>1 DEF Shapes
  <2>4. CASE m.kind # "None"
    <3>1. /\ lookup' = lookup
          /\ processors' = IF lookup[l] = None THEN processors
                           ELSE [processors EXCEPT ![lookup[l]] = HandleEvent(@, m)]
      BY <2>1, <2>4 DEF HandleRawPacket
    <3>2. CASE lookup[l] = None
      <4>1. Listing[l] \in Targets => l \notin heard
        BY <3>2, ListingAssumption DEF Routed
      <4> QED BY <2>1, <2>2, <3>1, <3>2, <4>1 DEF Shapes
    <3>3. CASE lookup[l] # None
      <4>1. lookup[l] = Listing[l] /\ Listing[l] \in Targets
        BY <3>3 DEF Shapes
      <4>2. processors' = [processors EXCEPT ![Listing[l]] = HandleEvent(@, m)]
        BY <3>1, <3>3, <4>1
      <4> QED BY <2>1, <2>2, <2>4, <3>1, <4>1, <4>2 DEF Shapes
    <3> QED BY <3>2, <3>3
  <2> QED BY <2>3, <2>4
<1> QED BY <1>1, <1>2 DEF Emit

----------------------------------------------------------------------------
(* What a step at the exchange leaves alone.                               *)

\* Orders stay given as they were, and those of before only get smaller.
Shrinks ==
  \A id \in DOMAIN given :
    /\ id \in DOMAIN given' /\ given'[id] = given[id]
    /\ id \in DOMAIN venue' => id \in DOMAIN venue /\ venue'[id].qty <= venue[id].qty

\* Only orders of locate l change.
OnlyAt(l) ==
  /\ \A id \in DOMAIN venue : venue[id].locate # l => id \in DOMAIN venue' /\ venue'[id] = venue[id]
  /\ \A id \in DOMAIN venue' : venue'[id].locate # l => id \in DOMAIN venue /\ venue'[id] = venue[id]

\* A book that is not touched is not short afterwards.
LEMMA StillNotShort ==
  ASSUME Resting, Shrinks, NEW s, NEW b, NotShort(b, s),
         \A id \in DOMAIN b.orders : b.orders[id].qty \in Nat, Resting'
  PROVE  NotShort(b, s)'
<1> SUFFICES ASSUME NEW id \in DOMAIN b.orders
             PROVE  /\ id \in DOMAIN given'
                    /\ Listing[given'[id].locate] = s
                    /\ b.orders[id].side = given'[id].side
                    /\ b.orders[id].px = given'[id].px
                    /\ b.orders[id].qty <= given'[id].qty
                    /\ id \in DOMAIN venue' => b.orders[id].qty >= venue'[id].qty
  BY DEF NotShort
<1>1. /\ id \in DOMAIN given
      /\ Listing[given[id].locate] = s
      /\ b.orders[id].side = given[id].side
      /\ b.orders[id].px = given[id].px
      /\ b.orders[id].qty <= given[id].qty
      /\ id \in DOMAIN venue => b.orders[id].qty >= venue[id].qty
  BY DEF NotShort
<1>2. /\ id \in DOMAIN given' /\ given'[id] = given[id]
      /\ id \in DOMAIN venue' => id \in DOMAIN venue /\ venue'[id].qty <= venue[id].qty
  BY <1>1 DEF Shrinks
<1>3. ASSUME id \in DOMAIN venue' PROVE b.orders[id].qty >= venue'[id].qty
  <2>1. id \in DOMAIN venue /\ venue'[id].qty <= venue[id].qty /\ b.orders[id].qty >= venue[id].qty
    BY <1>1, <1>2, <1>3
  <2>2. venue[id].qty \in Nat /\ venue'[id].qty \in Nat
    BY <2>1, <1>3 DEF Resting
  <2>3. b.orders[id].qty \in Nat
    OBVIOUS
  <2> QED BY <2>1, <2>2, <2>3
<1> QED BY <1>1, <1>2, <1>3

\* A step at locate l: what is to be shown is only about that stock.
LEMMA Frame ==
  ASSUME BookInv, NEW l \in Locates,
         UNCHANGED <<lookup, heard>>, missed \subseteq missed', missed' \subseteq Locates,
         DOMAIN processors' = Targets,
         \A s \in Targets : s # Listing[l] => processors'[s] = processors[s],
         Resting', Apart', Shrinks, OnlyAt(l),
         Listing[l] \in Targets =>
           /\ processors'[Listing[l]] = [book |-> Book(Listing[l])', ticker |-> Ticker(Listing[l])']
           /\ BookOK(Book(Listing[l])', Ids, Prices, Most)
           /\ NotShort(Book(Listing[l]), Listing[l])'
           /\ l \notin missed' => Mirrors(Book(Listing[l]), l)'
           /\ Moved(Book(Listing[l]), Book(Listing[l])', Ids, Prices, Most)
  PROVE  BookInv' /\ Moves
<1>1. /\ Shapes /\ Routed /\ Resting /\ Apart /\ Books
      /\ \A s \in Targets : NotShort(Book(s), s)
      /\ \A k \in Locates : Complete(k) => Mirrors(Book(Listing[k]), k)
  BY DEF BookInv
<1>2. \A s \in Targets : s # Listing[l] => Book(s)' = Book(s) /\ Ticker(s)' = Ticker(s)
  BY DEF Book, Ticker
<1>3. Shapes'
  <2>1. \A s \in Targets : processors'[s] = [book |-> Book(s)', ticker |-> Ticker(s)']
    <3> TAKE s \in Targets
    <3>1. CASE s = Listing[l]
      BY <3>1
    <3>2. CASE s # Listing[l]
      <4>1. processors'[s] = processors[s]
        BY <3>2
      <4>2. processors[s] = [book |-> Book(s), ticker |-> Ticker(s)]
        BY <1>1 DEF Shapes
      <4> QED BY <4>1, <4>2, <1>2, <3>2
    <3> QED BY <3>1, <3>2
  <2> QED BY <2>1, <1>1 DEF Shapes
<1>4. Routed'
  BY <1>1 DEF Routed
<1>5. Books'
  <2>1. \A s \in Targets : BookOK(Book(s)', Ids, Prices, Most)
    <3> TAKE s \in Targets
    <3>1. CASE s = Listing[l]
      BY <3>1
    <3>2. CASE s # Listing[l]
      BY <3>2, <1>1, <1>2 DEF Books
    <3> QED BY <3>1, <3>2
  <2> QED BY <2>1 DEF Books
<1>6. \A s \in Targets : NotShort(Book(s), s)'
  <2> TAKE s \in Targets
  <2>1. CASE s = Listing[l]
    BY <2>1
  <2>2. CASE s # Listing[l]
    <3>1. PICK b : b = Book(s)
      OBVIOUS
    <3>2. NotShort(b, s) /\ OrdersOK(b, Ids, Prices, Most)
      BY <1>1, <3>1 DEF Books, BookOK
    <3>3. \A id \in DOMAIN b.orders : b.orders[id].qty \in Nat
      BY <3>2, MostIs DEF OrdersOK
    <3>4. NotShort(b, s)'
      BY <1>1, <3>2, <3>3, StillNotShort
    <3> QED BY <2>2, <3>1, <3>4, <1>2 DEF NotShort
  <2> QED BY <2>1, <2>2
<1>7. \A k \in Locates : Complete(k)' => Mirrors(Book(Listing[k]), k)'
  <2> SUFFICES ASSUME NEW k \in Locates, Complete(k)' PROVE Mirrors(Book(Listing[k]), k)'
    OBVIOUS
  <2>1. Listing[k] \in Targets /\ k \notin missed'
    BY DEF Complete
  <2>2. CASE k = l
    BY <2>1, <2>2
  <2>3. CASE k # l
    <3>1. Listing[k] # Listing[l]
      BY <2>3, ListingAssumption
    <3>2. PICK b : b = Book(Listing[k])
      OBVIOUS
    <3>3. Book(Listing[k])' = b
      BY <3>1, <3>2, <2>1, <1>2
    <3>4. Mirrors(b, k)
      BY <2>1, <3>2, <1>1 DEF Complete
    <3>5. {id \in DOMAIN venue' : venue'[id].locate = k} = {id \in DOMAIN venue : venue[id].locate = k}
      BY <2>3 DEF OnlyAt
    <3>6. \A id \in DOMAIN venue : venue[id].locate = k => venue'[id] = venue[id]
      BY <2>3 DEF OnlyAt
    <3>7. DOMAIN b.orders = {id \in DOMAIN venue' : venue'[id].locate = k}
      BY <3>4, <3>5 DEF Mirrors
    <3>8. \A id \in DOMAIN b.orders :
            b.orders[id] = [side |-> venue'[id].side, px |-> venue'[id].px, qty |-> venue'[id].qty]
      BY <3>4, <3>6 DEF Mirrors
    <3> QED BY <3>3, <3>7, <3>8 DEF Mirrors
  <2> QED BY <2>2, <2>3
<1>8. Moves
  <2>1. \A s \in Targets : s # Listing[l] => Moved(Book(s), Book(s)', Ids, Prices, Most)
    BY <1>2 DEF Moved
  <2> QED BY <2>1 DEF Moves
<1> QED BY <1>3, <1>4, <1>5, <1>6, <1>7, <1>8 DEF BookInv

----------------------------------------------------------------------------
(* The changes at the exchange.                                            *)

\* Some of a resting order goes.
LEMMA ReducedIs ==
  ASSUME Resting, Apart, NEW id \in DOMAIN venue, NEW q \in Nat \ {0}, q <= venue[id].qty,
         venue' = Reduced(id, q), given' = given
  PROVE  /\ Resting' /\ Apart' /\ Shrinks /\ OnlyAt(venue[id].locate)
         /\ DOMAIN venue' = IF q = venue[id].qty THEN DOMAIN venue \ {id} ELSE DOMAIN venue
         /\ \A i \in DOMAIN venue' \ {id} : venue'[i] = venue[i]
         /\ q # venue[id].qty => venue'[id] = [venue[id] EXCEPT !.qty = venue[id].qty - q]
<1>0. /\ venue[id] \in [locate : Locates, side : Sides, px : Prices, qty : Nat \ {0}]
      /\ venue[id].qty \in Nat /\ given[id].qty \in Nat /\ venue[id].qty <= given[id].qty
  <2>1. /\ venue[id] \in [locate : Locates, side : Sides, px : Prices, qty : Nat \ {0}]
        /\ venue[id].qty <= given[id].qty /\ given[id] \in OrderType
    BY DEF Resting
  <2>2. given[id].qty \in Nat
    BY <2>1, QuantityType DEF OrderType
  <2> QED BY <2>1, <2>2
<1>1. CASE q = venue[id].qty
  <2>1. DOMAIN venue' = DOMAIN venue \ {id} /\ \A i \in DOMAIN venue' : venue'[i] = venue[i]
    BY <1>1 DEF Reduced, Without
  <2>2. Resting'
    BY <2>1 DEF Resting
  <2>3. Apart'
    BY <2>1 DEF Apart
  <2>4. \A i \in DOMAIN venue' : venue'[i].qty <= venue[i].qty
    BY <2>1 DEF Resting
  <2>5. Shrinks
    BY <2>1, <2>4 DEF Shrinks
  <2>6. OnlyAt(venue[id].locate)
    BY <2>1 DEF OnlyAt
  <2> QED BY <1>1, <2>1, <2>2, <2>3, <2>5, <2>6
<1>2. CASE q # venue[id].qty
  <2>1. /\ DOMAIN venue' = DOMAIN venue
        /\ venue'[id] = [venue[id] EXCEPT !.qty = venue[id].qty - q]
        /\ \A i \in DOMAIN venue \ {id} : venue'[i] = venue[i]
    BY <1>2 DEF Reduced, Put
  <2>2. /\ venue[id].qty - q \in Nat \ {0} /\ venue[id].qty - q <= venue[id].qty
        /\ venue[id].qty - q <= given[id].qty
    BY <1>0, <1>2
  <2>3. /\ venue'[id] \in [locate : Locates, side : Sides, px : Prices, qty : Nat \ {0}]
        /\ venue'[id].locate = venue[id].locate /\ venue'[id].side = venue[id].side
        /\ venue'[id].px = venue[id].px /\ venue'[id].qty = venue[id].qty - q
    BY <1>0, <2>1, <2>2
  <2>4. \A i \in DOMAIN venue : /\ venue'[i].locate = venue[i].locate
                                /\ venue'[i].side = venue[i].side /\ venue'[i].px = venue[i].px
    BY <2>1, <2>3
  <2>5. Resting'
    <3>1. \A i \in DOMAIN venue' :
            /\ venue'[i] \in [locate : Locates, side : Sides, px : Prices, qty : Nat \ {0}]
            /\ venue'[i].locate = given[i].locate /\ venue'[i].side = given[i].side
            /\ venue'[i].px = given[i].px /\ venue'[i].qty <= given[i].qty
      <4> TAKE i \in DOMAIN venue'
      <4>1. CASE i = id
        BY <4>1, <2>2, <2>3 DEF Resting
      <4>2. CASE i # id
        BY <4>2, <2>1 DEF Resting
      <4> QED BY <4>1, <4>2
    <3> QED BY <3>1, <2>1 DEF Resting
  <2>6. Apart'
    BY <2>1, <2>4 DEF Apart
  <2>7. \A i \in DOMAIN venue' : venue'[i].qty <= venue[i].qty
    <3> TAKE i \in DOMAIN venue'
    <3>1. CASE i = id
      BY <3>1, <2>2, <2>3
    <3>2. CASE i # id
      BY <3>2, <2>1 DEF Resting
    <3> QED BY <3>1, <3>2
  <2>8. Shrinks
    BY <2>1, <2>7 DEF Shrinks
  <2>9. OnlyAt(venue[id].locate)
    BY <2>1, <2>4 DEF OnlyAt
  <2> QED BY <1>2, <2>1, <2>5, <2>6, <2>8, <2>9
<1> QED BY <1>1, <1>2

\* An order is deleted, or goes in full.
LEMMA DeletedIs ==
  ASSUME Resting, Apart, NEW id \in DOMAIN venue, venue' = Without(venue, id), given' = given
  PROVE  /\ Resting' /\ Apart' /\ Shrinks /\ OnlyAt(venue[id].locate)
         /\ DOMAIN venue' = DOMAIN venue \ {id}
         /\ \A i \in DOMAIN venue' : venue'[i] = venue[i]
<1>1. venue[id].qty \in Nat \ {0} /\ venue[id].qty <= venue[id].qty
  BY DEF Resting
<1>2. venue' = Reduced(id, venue[id].qty)
  BY DEF Reduced
<1> QED BY <1>1, <1>2, ReducedIs

\* What rests besides a new order: all but, perhaps, one of the same locate.
Besides(rest, l) ==
  /\ DOMAIN rest \subseteq DOMAIN venue /\ \A i \in DOMAIN rest : rest[i] = venue[i]
  /\ \A i \in DOMAIN venue : i \in DOMAIN rest \/ venue[i].locate = l

\* A new order comes to rest where it does not cross.
LEMMA AddedIs ==
  ASSUME Resting, Apart, NEW l \in Locates, NEW id \in Ids, id \notin DOMAIN given,
         NEW side \in Sides, NEW px \in Prices, NEW q \in Quantities, Rests(l, side, px),
         given' = Put(given, id, NewOrder(l, side, px, q)),
         NEW rest, Besides(rest, l), venue' = Put(rest, id, NewOrder(l, side, px, q))
  PROVE  /\ Resting' /\ Apart' /\ Shrinks /\ OnlyAt(l)
         /\ DOMAIN given' = DOMAIN given \union {id} /\ DOMAIN venue' = DOMAIN rest \union {id}
         /\ given'[id] = NewOrder(l, side, px, q) /\ venue'[id] = NewOrder(l, side, px, q)
         /\ \A i \in DOMAIN given : given'[i] = given[i]
         /\ \A i \in DOMAIN rest : venue'[i] = venue[i]
<1> DEFINE new == NewOrder(l, side, px, q)
<1> USE DEF Besides
<1>1. id \notin DOMAIN rest /\ id \notin DOMAIN venue
  BY DEF Resting
<1>2. /\ DOMAIN given' = DOMAIN given \union {id} /\ given'[id] = new
      /\ \A i \in DOMAIN given : given'[i] = given[i]
  BY DEF Put
<1>3. /\ DOMAIN venue' = DOMAIN rest \union {id} /\ venue'[id] = new
      /\ \A i \in DOMAIN rest : venue'[i] = venue[i]
  BY <1>1 DEF Put
<1>4. /\ new \in OrderType /\ new.locate = l /\ new.side = side /\ new.px = px /\ new.qty = q
      /\ q \in Nat \ {0} /\ q <= q
      /\ new \in [locate : Locates, side : Sides, px : Prices, qty : Nat \ {0}]
  BY QuantityType DEF NewOrder, OrderType
<1> HIDE DEF new
<1>5. Resting'
  <2>1. /\ DOMAIN given' \subseteq Ids /\ DOMAIN venue' \subseteq DOMAIN given'
        /\ \A i \in DOMAIN given' : given'[i] \in OrderType
    BY <1>2, <1>3, <1>4 DEF Resting
  <2>2. \A i \in DOMAIN venue' :
          /\ venue'[i] \in [locate : Locates, side : Sides, px : Prices, qty : Nat \ {0}]
          /\ venue'[i].locate = given'[i].locate /\ venue'[i].side = given'[i].side
          /\ venue'[i].px = given'[i].px /\ venue'[i].qty <= given'[i].qty
    <3> TAKE i \in DOMAIN venue'
    <3>1. CASE i = id
      BY <3>1, <1>2, <1>3, <1>4
    <3>2. CASE i # id
      <4>1. i \in DOMAIN rest /\ i \in DOMAIN venue /\ i \in DOMAIN given
        BY <3>2, <1>3 DEF Resting
      <4>2. venue'[i] = venue[i] /\ given'[i] = given[i]
        BY <4>1, <1>2, <1>3
      <4> QED BY <4>1, <4>2 DEF Resting
    <3> QED BY <3>1, <3>2
  <2> QED BY <2>1, <2>2 DEF Resting
<1>6. Apart'
  <2> SUFFICES ASSUME NEW i \in DOMAIN venue', NEW j \in DOMAIN venue',
                      venue'[i].locate = venue'[j].locate,
                      venue'[i].side = "Buy", venue'[j].side = "Sell"
               PROVE  venue'[i].px < venue'[j].px
    BY DEF Apart
  <2>1. CASE i # id /\ j # id
    <3>1. i \in DOMAIN venue /\ j \in DOMAIN venue /\ venue'[i] = venue[i] /\ venue'[j] = venue[j]
      BY <2>1, <1>3
    <3> QED BY <3>1 DEF Apart
  <2>2. CASE i = id /\ j # id
    <3>1. /\ j \in DOMAIN venue /\ venue'[j] = venue[j] /\ venue[j].locate = l
          /\ side = "Buy" /\ venue[j].side # side /\ venue'[i].px = px
      BY <2>2, <1>3, <1>4
    <3> QED BY <3>1 DEF Rests
  <2>3. CASE i # id /\ j = id
    <3>1. /\ i \in DOMAIN venue /\ venue'[i] = venue[i] /\ venue[i].locate = l
          /\ side = "Sell" /\ venue[i].side # side /\ venue'[j].px = px
      BY <2>3, <1>3, <1>4
    <3>2. px > venue[i].px
      BY <3>1 DEF Rests
    <3>3. px \in Nat /\ venue[i].px \in Nat
      BY <3>1, PriceAssumption DEF Resting
    <3> QED BY <3>1, <3>2, <3>3
  <2>4. CASE i = id /\ j = id
    BY <2>4
  <2> QED BY <2>1, <2>2, <2>3, <2>4
<1>7. Shrinks
  <2> SUFFICES ASSUME NEW i \in DOMAIN given
               PROVE  /\ i \in DOMAIN given' /\ given'[i] = given[i]
                      /\ i \in DOMAIN venue' => i \in DOMAIN venue /\ venue'[i].qty <= venue[i].qty
    BY DEF Shrinks
  <2>1. i # id
    OBVIOUS
  <2>2. ASSUME i \in DOMAIN venue' PROVE i \in DOMAIN venue /\ venue'[i].qty <= venue[i].qty
    <3>1. i \in DOMAIN rest /\ i \in DOMAIN venue /\ venue'[i] = venue[i]
      BY <2>1, <2>2, <1>3
    <3>2. venue[i].qty \in Nat
      BY <3>1 DEF Resting
    <3> QED BY <3>1, <3>2
  <2> QED BY <1>2, <2>2
<1>8. OnlyAt(l)
  BY <1>1, <1>3, <1>4 DEF OnlyAt
<1> QED BY <1>2, <1>3, <1>5, <1>6, <1>7, <1>8 DEF new

----------------------------------------------------------------------------
(* What the message of such a change does to the book of its stock.        *)

\* The book c may take the place of that of the stock at locate l.
Handled(l, c) ==
  /\ BookOK(c, Ids, Prices, Most)
  /\ NotShort(c, Listing[l])'
  /\ Mirrors(Book(Listing[l]), l) => Mirrors(c, l)'
  /\ Moved(Book(Listing[l]), c, Ids, Prices, Most)

\* A step whose packet is handled well, or lost.
LEMMA StepAt ==
  ASSUME BookInv, NEW l \in Locates, NEW data, Emit(data),
         data[0] # "R", data[1] = l, Field(data, 1) = l,
         NEW m, Parse(data) = m, m.kind # "StockDirectory",
         m.kind = "None" => data[0] \in {"F", "U"},
         Resting', Apart', Shrinks, OnlyAt(l),
         Listing[l] \in Targets /\ m.kind # "None" =>
           \E c, t : /\ HandleEvent(processors[Listing[l]], m) = [book |-> c, ticker |-> t]
                     /\ Handled(l, c)
  PROVE  BookInv' /\ Moves
<1>1. /\ Shapes /\ Routed /\ Resting /\ Books
      /\ \A s \in Targets : NotShort(Book(s), s)
      /\ \A k \in Locates : Complete(k) => Mirrors(Book(Listing[k]), k)
  BY DEF BookInv
<1>2. /\ UNCHANGED <<lookup, heard, restarts>>
      /\ missed \subseteq missed' /\ missed' \subseteq Locates
      /\ DOMAIN processors' = Targets
      /\ \A s \in Targets : s # Listing[l] => processors'[s] = processors[s]
      /\ Listing[l] \in Targets =>
           \/ processors'[Listing[l]] = processors[Listing[l]] /\ l \in missed'
           \/ /\ m.kind # "None"
              /\ processors'[Listing[l]] = HandleEvent(processors[Listing[l]], m)
  BY <1>1, Effect
<1>3. ASSUME Listing[l] \in Targets
      PROVE  /\ processors'[Listing[l]] = [book |-> Book(Listing[l])', ticker |-> Ticker(Listing[l])']
             /\ BookOK(Book(Listing[l])', Ids, Prices, Most)
             /\ NotShort(Book(Listing[l]), Listing[l])'
             /\ l \notin missed' => Mirrors(Book(Listing[l]), l)'
             /\ Moved(Book(Listing[l]), Book(Listing[l])', Ids, Prices, Most)
  <2>1. CASE processors'[Listing[l]] = processors[Listing[l]] /\ l \in missed'
    <3>1. PICK b : b = Book(Listing[l])
      OBVIOUS
    <3>2. Book(Listing[l])' = b /\ Ticker(Listing[l])' = Ticker(Listing[l])
      BY <2>1, <3>1 DEF Book, Ticker
    <3>3. processors[Listing[l]] = [book |-> b, ticker |-> Ticker(Listing[l])]
      BY <1>1, <1>3, <3>1 DEF Shapes
    <3>4. NotShort(b, Listing[l]) /\ BookOK(b, Ids, Prices, Most)
      BY <1>1, <1>3, <3>1 DEF Books
    <3>5. \A id \in DOMAIN b.orders : b.orders[id].qty \in Nat
      BY <3>4, MostIs DEF BookOK, OrdersOK
    <3>6. NotShort(b, Listing[l])'
      BY <1>1, <3>4, <3>5, StillNotShort
    <3>7. NotShort(Book(Listing[l]), Listing[l])'
      BY <3>2, <3>6 DEF NotShort
    <3>8. Moved(Book(Listing[l]), Book(Listing[l])', Ids, Prices, Most)
      BY <3>1, <3>2 DEF Moved
    <3> QED BY <2>1, <3>2, <3>3, <3>4, <3>7, <3>8
  <2>2. CASE m.kind # "None" /\ processors'[Listing[l]] = HandleEvent(processors[Listing[l]], m)
    <3>1. PICK c, t : /\ HandleEvent(processors[Listing[l]], m) = [book |-> c, ticker |-> t]
                      /\ Handled(l, c)
      BY <1>3, <2>2
    <3>2. processors'[Listing[l]] = [book |-> c, ticker |-> t]
      BY <2>2, <3>1
    <3>3. Book(Listing[l])' = c /\ Ticker(Listing[l])' = t
      BY <3>2 DEF Book, Ticker
    <3>4. NotShort(c, Listing[l])' /\ BookOK(c, Ids, Prices, Most)
      BY <3>1 DEF Handled
    <3>5. NotShort(Book(Listing[l]), Listing[l])'
      BY <3>3, <3>4 DEF NotShort
    <3>6. ASSUME l \notin missed' PROVE Mirrors(Book(Listing[l]), l)'
      <4>1. Mirrors(Book(Listing[l]), l)
        BY <1>1, <1>2, <1>3, <3>6 DEF Complete
      <4>2. Mirrors(c, l)'
        BY <3>1, <4>1 DEF Handled
      <4> QED BY <3>3, <4>2 DEF Mirrors
    <3>7. Moved(Book(Listing[l]), Book(Listing[l])', Ids, Prices, Most)
      BY <3>1, <3>3 DEF Handled
    <3> QED BY <3>2, <3>3, <3>4, <3>5, <3>6, <3>7
  <2> QED BY <1>2, <1>3, <2>1, <2>2
<1> QED BY <1>2, <1>3, Frame

\* The book of a stock, before a step.
LEMMA BookBefore ==
  ASSUME BookInv, NEW l \in Locates, Listing[l] \in Targets, NEW b, b = Book(Listing[l])
  PROVE  /\ Resting
         /\ NotShort(b, Listing[l])
         /\ BookOK(b, Ids, Prices, Most)
         /\ \A id \in DOMAIN b.orders :
              /\ b.orders[id] \in [side : Sides, px : Prices, qty : 1 .. Most]
              /\ b.orders[id].qty \in Nat \ {0} /\ b.orders[id].qty < Word
         /\ Resting' /\ Shrinks => NotShort(b, Listing[l])'
<1>1. Resting /\ NotShort(b, Listing[l]) /\ BookOK(b, Ids, Prices, Most)
  BY DEF BookInv, Books
<1>2. \A id \in DOMAIN b.orders : b.orders[id] \in [side : Sides, px : Prices, qty : 1 .. Most]
  BY <1>1 DEF BookOK, OrdersOK
<1>3. Most \in Nat /\ Most < Word /\ Word \in Nat
  BY MostIs, WordAssumption
<1>4. \A id \in DOMAIN b.orders : b.orders[id].qty \in Nat \ {0} /\ b.orders[id].qty < Word
  <2> TAKE id \in DOMAIN b.orders
  <2>1. b.orders[id].qty \in 1 .. Most
    BY <1>2
  <2> QED BY <2>1, <1>3
<1>5. Resting' /\ Shrinks => NotShort(b, Listing[l])'
  BY <1>1, <1>4, StillNotShort
<1> QED BY <1>1, <1>2, <1>4, <1>5

\* AddOrder.
LEMMA AddHandled ==
  ASSUME BookInv, NEW l \in Locates, Listing[l] \in Targets, NEW b, b = Book(Listing[l]),
         NEW id \in Ids, id \notin DOMAIN given,
         NEW side \in Sides, NEW px \in Prices, NEW q \in Quantities,
         Resting', Shrinks,
         DOMAIN given' = DOMAIN given \union {id}, DOMAIN venue' = DOMAIN venue \union {id},
         given'[id] = NewOrder(l, side, px, q), venue'[id] = NewOrder(l, side, px, q),
         \A i \in DOMAIN venue : venue'[i] = venue[i]
  PROVE  Handled(l, AddOrder(b, id, side, px, q))
<1> DEFINE c == AddOrder(b, id, side, px, q)
           o == [side |-> side, px |-> px, qty |-> q]
<1>1. /\ Resting /\ NotShort(b, Listing[l]) /\ BookOK(b, Ids, Prices, Most)
      /\ NotShort(b, Listing[l])'
  BY BookBefore
<1>2. id \notin DOMAIN b.orders
  BY <1>1 DEF NotShort
<1>3. q \in 1 .. Most /\ q \in Nat
  BY QuantityType
<1>4. Most \in Nat
  BY MostIs
<1>5. BookOK(c, Ids, Prices, Most)
  BY <1>1, <1>2, <1>3, <1>4, AddOrderOK
<1>6. c.orders = Put(b.orders, id, o)
  BY DEF AddOrder
<1>7. /\ DOMAIN c.orders = DOMAIN b.orders \union {id} /\ c.orders[id] = o
      /\ \A i \in DOMAIN b.orders : c.orders[i] = b.orders[i]
  BY <1>2, <1>6 DEF Put
<1>8. /\ given'[id].locate = l /\ given'[id].side = side /\ given'[id].px = px /\ given'[id].qty = q
      /\ venue'[id].locate = l /\ venue'[id].side = side /\ venue'[id].px = px /\ venue'[id].qty = q
  BY DEF NewOrder
<1> HIDE DEF c
<1>9. NotShort(c, Listing[l])'
  <2> SUFFICES ASSUME NEW i \in DOMAIN c.orders
               PROVE  /\ i \in DOMAIN given'
                      /\ Listing[given'[i].locate] = Listing[l]
                      /\ c.orders[i].side = given'[i].side
                      /\ c.orders[i].px = given'[i].px
                      /\ c.orders[i].qty <= given'[i].qty
                      /\ i \in DOMAIN venue' => c.orders[i].qty >= venue'[i].qty
    BY DEF NotShort
  <2>1. CASE i = id
    BY <2>1, <1>3, <1>7, <1>8
  <2>2. CASE i # id
    <3>1. i \in DOMAIN b.orders /\ c.orders[i] = b.orders[i]
      BY <2>2, <1>7
    <3> QED BY <3>1, <1>1 DEF NotShort
  <2> QED BY <2>1, <2>2
<1>10. ASSUME Mirrors(Book(Listing[l]), l) PROVE Mirrors(c, l)'
  <2>1. Mirrors(b, l)
    BY <1>10
  <2>2. id \notin DOMAIN venue
    BY <1>1 DEF Resting
  <2>3. {i \in DOMAIN venue' : venue'[i].locate = l} =
          {i \in DOMAIN venue : venue[i].locate = l} \union {id}
    BY <1>8, <2>2
  <2>4. DOMAIN c.orders = {i \in DOMAIN venue' : venue'[i].locate = l}
    BY <1>7, <2>1, <2>3 DEF Mirrors
  <2>5. \A i \in DOMAIN c.orders :
          c.orders[i] = [side |-> venue'[i].side, px |-> venue'[i].px, qty |-> venue'[i].qty]
    <3> TAKE i \in DOMAIN c.orders
    <3>1. CASE i = id
      BY <3>1, <1>7, <1>8
    <3>2. CASE i # id
      <4>1. i \in DOMAIN b.orders /\ c.orders[i] = b.orders[i]
        BY <3>2, <1>7
      <4>2. i \in DOMAIN venue /\ venue'[i] = venue[i]
        BY <4>1, <2>1 DEF Mirrors
      <4> QED BY <4>1, <4>2, <2>1 DEF Mirrors
    <3> QED BY <3>1, <3>2
  <2> QED BY <2>4, <2>5 DEF Mirrors
<1>11. id \in Ids \ DOMAIN b.orders
  BY <1>2
<1>12. Moved(b, c, Ids, Prices, Most)
  BY <1>3, <1>11 DEF Moved, c
<1> QED BY <1>5, <1>9, <1>10, <1>12 DEF Handled, c

\* Taking as much from two numbers keeps their order.
LEMMA LessStill ==
  ASSUME NEW x \in Nat, NEW y \in Nat, NEW q \in Nat
  PROVE  /\ x <= y => x - q <= y
         /\ x >= y => x - q >= y - q
OBVIOUS

\* CancelOrder: a cancellation or an execution.
LEMMA CancelHandled ==
  ASSUME BookInv, NEW id \in DOMAIN venue, NEW q \in Nat \ {0}, q <= venue[id].qty,
         venue' = Reduced(id, q), given' = given,
         NEW l \in Locates, l = venue[id].locate, Listing[l] \in Targets,
         NEW b, b = Book(Listing[l])
  PROVE  Handled(l, CancelOrder(b, id, q))
<1> DEFINE c == CancelOrder(b, id, q)
<1>1. /\ Resting /\ NotShort(b, Listing[l]) /\ BookOK(b, Ids, Prices, Most)
      /\ \A i \in DOMAIN b.orders :
           /\ b.orders[i] \in [side : Sides, px : Prices, qty : 1 .. Most]
           /\ b.orders[i].qty \in Nat \ {0} /\ b.orders[i].qty < Word
      /\ Resting' /\ Shrinks => NotShort(b, Listing[l])'
  BY BookBefore
<1>2. /\ Resting' /\ Shrinks
      /\ DOMAIN venue' = IF q = venue[id].qty THEN DOMAIN venue \ {id} ELSE DOMAIN venue
      /\ \A i \in DOMAIN venue' \ {id} : venue'[i] = venue[i]
      /\ q # venue[id].qty => venue'[id] = [venue[id] EXCEPT !.qty = venue[id].qty - q]
  BY ReducedIs DEF BookInv
<1>3. NotShort(b, Listing[l])'
  BY <1>1, <1>2
<1>4. venue[id] \in [locate : Locates, side : Sides, px : Prices, qty : Nat \ {0}]
  BY <1>1 DEF Resting
<1>5. CASE id \notin DOMAIN b.orders
  <2>1. c = b
    BY <1>5 DEF CancelOrder
  <2>2. ~ Mirrors(b, l)
    BY <1>5 DEF Mirrors
  <2>3. Moved(b, b, Ids, Prices, Most)
    BY DEF Moved
  <2>4. Handled(l, b)
    BY <1>1, <1>3, <2>2, <2>3 DEF Handled
  <2> QED BY <2>1, <2>4
<1>6. CASE id \in DOMAIN b.orders
  <2>1. b.orders[id].qty >= venue[id].qty /\ b.orders[id].qty \in Nat /\ b.orders[id].qty < Word
    BY <1>1, <1>6 DEF NotShort
  <2>2. q <= b.orders[id].qty /\ venue[id].qty \in Nat
    BY <1>4, <2>1
  <2>3. Most \in Nat /\ Most < Word
    BY MostIs
  <2>4. BookOK(c, Ids, Prices, Most)
    BY <1>1, <1>6, <2>2, <2>3, CancelOrderOK
  <2>5. c.orders = IF b.orders[id].qty = q THEN Without(b.orders, id)
                   ELSE Put(b.orders, id, [b.orders[id] EXCEPT !.qty = b.orders[id].qty - q])
    <3>1. Minus(b.orders[id].qty, q) = b.orders[id].qty - q
      BY <2>1, <2>2, NoWrap
    <3>2. b.orders[id].qty - q = 0 <=> b.orders[id].qty = q
      BY <2>1
    <3> QED BY <1>6, <3>1, <3>2 DEF CancelOrder
  <2> HIDE DEF c
  <2>6. /\ DOMAIN c.orders = IF b.orders[id].qty = q THEN DOMAIN b.orders \ {id} ELSE DOMAIN b.orders
        /\ \A i \in DOMAIN c.orders \ {id} : c.orders[i] = b.orders[i]
    BY <1>6, <2>5 DEF Put, Without
  <2>7. ASSUME id \in DOMAIN c.orders
        PROVE  /\ b.orders[id].qty # q
               /\ c.orders[id] = [side |-> b.orders[id].side, px |-> b.orders[id].px,
                                  qty |-> b.orders[id].qty - q]
    <3>1. b.orders[id].qty # q
      BY <2>6, <2>7
    <3>2. c.orders[id] = [b.orders[id] EXCEPT !.qty = b.orders[id].qty - q]
      BY <2>5, <3>1 DEF Put
    <3> QED BY <3>1, <3>2, <1>1, <1>6
  <2>8. NotShort(c, Listing[l])'
    <3> SUFFICES ASSUME NEW i \in DOMAIN c.orders
                 PROVE  /\ i \in DOMAIN given'
                        /\ Listing[given'[i].locate] = Listing[l]
                        /\ c.orders[i].side = given'[i].side
                        /\ c.orders[i].px = given'[i].px
                        /\ c.orders[i].qty <= given'[i].qty
                        /\ i \in DOMAIN venue' => c.orders[i].qty >= venue'[i].qty
      BY DEF NotShort
    <3>1. CASE i = id
      <4>1. /\ c.orders[i].side = b.orders[id].side /\ c.orders[i].px = b.orders[id].px
            /\ c.orders[i].qty = b.orders[id].qty - q
        <5>1. c.orders[i] = [side |-> b.orders[id].side, px |-> b.orders[id].px,
                             qty |-> b.orders[id].qty - q]
          BY <2>7, <3>1, Zenon
        <5> QED BY <5>1
      <4>2. /\ id \in DOMAIN given' /\ Listing[given'[id].locate] = Listing[l]
            /\ b.orders[id].side = given'[id].side /\ b.orders[id].px = given'[id].px
            /\ b.orders[id].qty <= given'[id].qty
        BY <1>3, <1>6 DEF NotShort
      <4>3. given'[id].qty \in Nat
        BY <1>2, <4>2, QuantityType DEF Resting, OrderType
      <4>4. c.orders[i].qty <= given'[id].qty
        <5>1. b.orders[id].qty - q <= given'[id].qty
          BY <4>2, <4>3, <2>1, LessStill
        <5> QED BY <5>1, <4>1
      <4>5. ASSUME id \in DOMAIN venue' PROVE c.orders[i].qty >= venue'[id].qty
        <5>1. q # venue[id].qty
          BY <4>5, <1>2
        <5>2. venue'[id].qty = venue[id].qty - q
          BY <5>1, <1>2, <1>4
        <5>3. b.orders[id].qty - q >= venue[id].qty - q
          BY <2>1, <2>2, LessStill
        <5> QED BY <5>2, <5>3, <4>1
      <4> QED BY <3>1, <4>1, <4>2, <4>4, <4>5
    <3>2. CASE i # id
      <4>1. i \in DOMAIN b.orders /\ c.orders[i] = b.orders[i]
        BY <3>2, <2>6
      <4> QED BY <4>1, <1>3 DEF NotShort
    <3> QED BY <3>1, <3>2
  <2>9. ASSUME Mirrors(Book(Listing[l]), l) PROVE Mirrors(c, l)'
    <3>1. /\ DOMAIN b.orders = {i \in DOMAIN venue : venue[i].locate = l}
          /\ \A i \in DOMAIN b.orders :
               b.orders[i] = [side |-> venue[i].side, px |-> venue[i].px, qty |-> venue[i].qty]
      BY <2>9 DEF Mirrors
    <3>2. /\ b.orders[id].side = venue[id].side /\ b.orders[id].px = venue[id].px
          /\ b.orders[id].qty = venue[id].qty
      <4>1. b.orders[id] = [side |-> venue[id].side, px |-> venue[id].px, qty |-> venue[id].qty]
        BY <3>1, <1>6
      <4> QED BY <4>1
    <3>3. \A i \in DOMAIN venue' : i \in DOMAIN venue /\ venue'[i].locate = venue[i].locate
      BY <1>2, <1>4
    <3>4. DOMAIN c.orders = {i \in DOMAIN venue' : venue'[i].locate = l}
      <4>1. CASE q = venue[id].qty
        <5>1. DOMAIN c.orders = DOMAIN b.orders \ {id} /\ DOMAIN venue' = DOMAIN venue \ {id}
          BY <4>1, <3>2, <1>2, <2>6, Zenon
        <5> QED BY <5>1, <3>1, <3>3
      <4>2. CASE q # venue[id].qty
        <5>1. DOMAIN c.orders = DOMAIN b.orders /\ DOMAIN venue' = DOMAIN venue
          BY <4>2, <3>2, <1>2, <2>6, Zenon
        <5> QED BY <5>1, <3>1, <3>3
      <4> QED BY <4>1, <4>2
    <3>5. \A i \in DOMAIN c.orders :
            c.orders[i] = [side |-> venue'[i].side, px |-> venue'[i].px, qty |-> venue'[i].qty]
      <4> TAKE i \in DOMAIN c.orders
      <4>1. CASE i = id
        <5>1. q # venue[id].qty
          BY <2>7, <3>2, <4>1
        <5>2. venue'[id] = [venue[id] EXCEPT !.qty = venue[id].qty - q]
          BY <5>1, <1>2
        <5>3. /\ venue'[id].side = venue[id].side /\ venue'[id].px = venue[id].px
              /\ venue'[id].qty = venue[id].qty - q
          BY <5>2, <1>4
        <5> QED BY <2>7, <3>2, <4>1, <5>3
      <4>2. CASE i # id
        <5>1. i \in DOMAIN b.orders /\ c.orders[i] = b.orders[i] /\ i \in DOMAIN venue'
          BY <4>2, <2>6, <3>4
        <5>2. venue'[i] = venue[i]
          BY <4>2, <5>1, <1>2
        <5> QED BY <5>1, <5>2, <3>1
      <4> QED BY <4>1, <4>2
    <3> QED BY <3>4, <3>5 DEF Mirrors
  <2>10. Moved(b, c, Ids, Prices, Most)
    BY <1>6, <2>2 DEF Moved, c
  <2> QED BY <2>4, <2>8, <2>9, <2>10 DEF Handled, c
<1> QED BY <1>5, <1>6

\* DeleteOrder: all that the book has of the order.
LEMMA DeleteHandled ==
  ASSUME BookInv, NEW id \in DOMAIN venue, venue' = Without(venue, id), given' = given,
         NEW l \in Locates, l = venue[id].locate, Listing[l] \in Targets,
         NEW b, b = Book(Listing[l])
  PROVE  Handled(l, IF id \in DOMAIN b.orders THEN CancelOrder(b, id, b.orders[id].qty) ELSE b)
<1> DEFINE c == CancelOrder(b, id, b.orders[id].qty)
<1>1. /\ Resting /\ NotShort(b, Listing[l]) /\ BookOK(b, Ids, Prices, Most)
      /\ \A i \in DOMAIN b.orders :
           /\ b.orders[i] \in [side : Sides, px : Prices, qty : 1 .. Most]
           /\ b.orders[i].qty \in Nat \ {0} /\ b.orders[i].qty < Word
      /\ Resting' /\ Shrinks => NotShort(b, Listing[l])'
  BY BookBefore
<1>2. /\ Resting' /\ Shrinks
      /\ DOMAIN venue' = DOMAIN venue \ {id} /\ \A i \in DOMAIN venue' : venue'[i] = venue[i]
  BY DeletedIs DEF BookInv
<1>3. NotShort(b, Listing[l])'
  BY <1>1, <1>2
<1>4. CASE id \notin DOMAIN b.orders
  <2>1. ~ Mirrors(b, l)
    BY <1>4 DEF Mirrors
  <2>2. Moved(b, b, Ids, Prices, Most)
    BY DEF Moved
  <2>3. Handled(l, b)
    BY <1>1, <1>3, <2>1, <2>2 DEF Handled
  <2> QED BY <1>4, <2>3
<1>5. CASE id \in DOMAIN b.orders
  <2>1. PICK q \in Nat \ {0} : q = b.orders[id].qty
    BY <1>1, <1>5
  <2>2. q <= b.orders[id].qty /\ q < Word
    <3>1. b.orders[id].qty < Word
      BY <1>1, <1>5, Zenon
    <3> QED BY <2>1, <3>1
  <2>3. Most \in Nat /\ Most < Word
    BY MostIs
  <2>4. BookOK(CancelOrder(b, id, q), Ids, Prices, Most)
    BY <1>1, <1>5, <2>2, <2>3, CancelOrderOK
  <2>5. BookOK(c, Ids, Prices, Most)
    BY <2>1, <2>4
  <2>6. c.orders = Without(b.orders, id)
    <3>1. Minus(b.orders[id].qty, q) = 0
      <4>1. Minus(q, q) = q - q
        BY <2>1, <2>2, NoWrap
      <4>2. q - q = 0
        OBVIOUS
      <4> QED BY <2>1, <4>1, <4>2
    <3> QED BY <1>5, <2>1, <3>1 DEF CancelOrder
  <2> HIDE DEF c
  <2>7. DOMAIN c.orders = DOMAIN b.orders \ {id} /\ \A i \in DOMAIN c.orders : c.orders[i] = b.orders[i]
    BY <2>6 DEF Without
  <2>8. NotShort(c, Listing[l])'
    <3>1. \A i \in DOMAIN c.orders : i \in DOMAIN b.orders /\ c.orders[i] = b.orders[i]
      BY <2>7
    <3> SUFFICES ASSUME NEW i \in DOMAIN c.orders
                 PROVE  /\ i \in DOMAIN given'
                        /\ Listing[given'[i].locate] = Listing[l]
                        /\ c.orders[i].side = given'[i].side
                        /\ c.orders[i].px = given'[i].px
                        /\ c.orders[i].qty <= given'[i].qty
                        /\ i \in DOMAIN venue' => c.orders[i].qty >= venue'[i].qty
      BY DEF NotShort
    <3>2. /\ i \in DOMAIN given'
          /\ Listing[given'[i].locate] = Listing[l]
          /\ b.orders[i].side = given'[i].side
          /\ b.orders[i].px = given'[i].px
          /\ b.orders[i].qty <= given'[i].qty
          /\ i \in DOMAIN venue' => b.orders[i].qty >= venue'[i].qty
      BY <1>3, <3>1 DEF NotShort
    <3>3. c.orders[i] = b.orders[i]
      BY <3>1
    <3> QED BY <3>2, <3>3, Zenon
  <2>9. ASSUME Mirrors(b, l) PROVE Mirrors(c, l)'
    <3>1. DOMAIN c.orders = {i \in DOMAIN venue' : venue'[i].locate = l}
      BY <2>7, <2>9, <1>2 DEF Mirrors
    <3>2. \A i \in DOMAIN c.orders :
            c.orders[i] = [side |-> venue'[i].side, px |-> venue'[i].px, qty |-> venue'[i].qty]
      <4> TAKE i \in DOMAIN c.orders
      <4>1. i \in DOMAIN b.orders /\ c.orders[i] = b.orders[i] /\ venue'[i] = venue[i]
        BY <2>7, <3>1, <1>2
      <4> QED BY <4>1, <2>9 DEF Mirrors
    <3> QED BY <3>1, <3>2 DEF Mirrors
  <2>10. Moved(b, c, Ids, Prices, Most)
    BY <1>5, <2>1, <2>2 DEF Moved, c
  <2>11. Handled(l, c)
    BY <2>5, <2>8, <2>9, <2>10 DEF Handled
  <2> QED BY <1>5, <2>11 DEF c
<1> QED BY <1>4, <1>5

\* What each message does to a processor.
LEMMA AddEvent ==
  ASSUME NEW b, NEW t, NEW id, NEW side, NEW px, NEW q
  PROVE  HandleEvent([book |-> b, ticker |-> t],
                     [kind |-> "AddOrder", id |-> id, side |-> side, qty |-> q, px |-> px])
           = [book |-> AddOrder(b, id, side, px, q), ticker |-> t]
BY DEF HandleEvent

LEMMA CancelEvent ==
  ASSUME NEW b, NEW t, NEW id, NEW q
  PROVE  HandleEvent([book |-> b, ticker |-> t], [kind |-> "ModifyOrder", id |-> id, qty |-> q])
           = [book |-> CancelOrder(b, id, q), ticker |-> t]
BY DEF HandleEvent

LEMMA DeleteEvent ==
  ASSUME NEW b, NEW t, NEW id
  PROVE  HandleEvent([book |-> b, ticker |-> t], [kind |-> "DeleteOrder", id |-> id])
           = [book |-> IF id \in DOMAIN b.orders THEN CancelOrder(b, id, b.orders[id].qty) ELSE b,
              ticker |-> t]
BY DEF HandleEvent, OnDelete, Knows

LEMMA TradeEvent ==
  ASSUME NEW b, NEW t, NEW side, NEW q, NEW px, NEW match
  PROVE  HandleEvent([book |-> b, ticker |-> t],
                     [kind |-> "Trade", side |-> side, qty |-> q, px |-> px, match |-> match])
           = [book |-> b, ticker |-> AddTrade(t, px, q, match, side)]
BY DEF HandleEvent, OnTrade

\* An execution: of an order that the book does not know, nothing.
LEMMA ExecutedEvent ==
  ASSUME NEW b, NEW t, NEW id, NEW q, NEW match
  PROVE  HandleEvent([book |-> b, ticker |-> t],
                     [kind |-> "OrderExecuted", id |-> id, qty |-> q, match |-> match])
           = [book |-> CancelOrder(b, id, q),
              ticker |-> IF id \in DOMAIN b.orders
                         THEN AddTrade(t, b.orders[id].px, q, match, Aggressor(b.orders[id].side))
                         ELSE t]
<1>1. id \notin DOMAIN b.orders => CancelOrder(b, id, q) = b
  BY DEF CancelOrder
<1> QED BY <1>1 DEF HandleEvent, OnExecuted, OnExecution, Knows

LEMMA ExecutedAtEvent ==
  ASSUME NEW b, NEW t, NEW id, NEW q, NEW match, NEW px
  PROVE  HandleEvent([book |-> b, ticker |-> t],
                     [kind |-> "OrderExecutedWithPrice", id |-> id, qty |-> q, match |-> match,
                      px |-> px])
           = [book |-> CancelOrder(b, id, q),
              ticker |-> IF id \in DOMAIN b.orders
                         THEN AddTrade(t, px, q, match, Aggressor(b.orders[id].side))
                         ELSE t]
<1>1. id \notin DOMAIN b.orders => CancelOrder(b, id, q) = b
  BY DEF CancelOrder
<1> QED BY <1>1 DEF HandleEvent, OnExecution, Knows

----------------------------------------------------------------------------
(* The steps.                                                              *)

\* At the start everything is empty.
LEMMA BookInit == Init => BookInv /\ \A s \in Targets : LevelsOK(Book(s), Prices)
<1> SUFFICES ASSUME Init PROVE BookInv /\ \A s \in Targets : LevelsOK(Book(s), Prices)
  OBVIOUS
<1>1. DOMAIN Empty = {}
  BY DEF Empty
<1>2. \A s \in Targets : Book(s) = NewBook /\ Ticker(s) = NewTicker
  BY DEF Init, Book, Ticker, NewProcessor
<1>3. Shapes
  <2>1. \A s \in Targets : processors[s] = [book |-> Book(s), ticker |-> Ticker(s)]
    BY <1>2 DEF Init, NewProcessor
  <2> QED BY <2>1 DEF Init, Shapes
<1>4. Routed
  BY DEF Init, Routed
<1>5. Resting /\ Apart
  BY <1>1 DEF Init, Resting, Apart
<1>6. Books
  BY <1>2, NewBookOK DEF Books
<1>7. \A s \in Targets : NotShort(Book(s), s)
  BY <1>1, <1>2 DEF NotShort, NewBook
<1>8. \A l \in Locates : Complete(l) => Mirrors(Book(Listing[l]), l)
  <2> TAKE l \in Locates
  <2> HAVE Complete(l)
  <2>1. Book(Listing[l]).orders = Empty /\ venue = Empty
    BY <1>2 DEF Complete, NewBook, Init
  <2> QED BY <1>1, <2>1 DEF Mirrors
<1>9. \A s \in Targets : LevelsOK(Book(s), Prices)
  BY <1>2, NewBookOK
<1> QED BY <1>3, <1>4, <1>5, <1>6, <1>7, <1>8, <1>9 DEF BookInv

\* The engine starts again: it has missed a packet of every stock of which
\* there has been an order.
LEMMA BookRestart == ASSUME BookInv, Restart PROVE BookInv' /\ Moves
<1>1. DOMAIN Empty = {}
  BY DEF Empty
<1>2. \A s \in Targets : Book(s)' = NewBook /\ Ticker(s)' = NewTicker
  BY DEF Restart, Book, Ticker, NewProcessor
<1>3. Shapes'
  <2>1. \A s \in Targets : processors'[s] = [book |-> Book(s)', ticker |-> Ticker(s)']
    BY <1>2 DEF Restart, NewProcessor
  <2>2. missed' \subseteq Locates
    BY DEF Restart
  <2> QED BY <2>1, <2>2 DEF Restart, Shapes
<1>4. Routed'
  BY DEF Restart, Routed
<1>5. given' = given /\ venue' = venue
  BY DEF Restart, exchangeVars
<1>6. Resting' /\ Apart'
  BY <1>5 DEF BookInv, Resting, Apart
<1>7. Books'
  <2>1. \A s \in Targets : BookOK(Book(s)', Ids, Prices, Most)
    BY <1>2, NewBookOK
  <2> QED BY <2>1 DEF Books
<1>8. \A s \in Targets : NotShort(Book(s), s)'
  BY <1>1, <1>2 DEF NotShort, NewBook
<1>9. \A l \in Locates : Complete(l)' => Mirrors(Book(Listing[l]), l)'
  <2> SUFFICES ASSUME NEW l \in Locates, Complete(l)' PROVE Mirrors(Book(Listing[l]), l)'
    OBVIOUS
  <2>1. l \notin missed' /\ Listing[l] \in Targets
    BY DEF Complete
  <2>2. Book(Listing[l])'.orders = Empty
    BY <1>2, <2>1 DEF NewBook
  <2>3. \A id \in DOMAIN given : given[id].locate # l
    BY <2>1 DEF Restart
  <2>4. \A id \in DOMAIN venue' : venue'[id].locate # l
    BY <1>5, <2>3 DEF BookInv, Resting
  <2> QED BY <1>1, <2>2, <2>4 DEF Mirrors
<1>10. Moves
  BY <1>2 DEF Moves, Moved
<1> QED BY <1>3, <1>4, <1>6, <1>7, <1>8, <1>9, <1>10 DEF BookInv

\* A step that changes neither an order nor a book.
LEMMA BookSame ==
  ASSUME BookInv, UNCHANGED <<processors, venue, given>>, missed \subseteq missed',
         Routed', lookup' \in [Locates -> Targets \union {None}],
         \A l \in Locates : lookup'[l] \in {None, Listing[l]}, missed' \subseteq Locates
  PROVE  BookInv' /\ Moves
<1>1. /\ Shapes /\ Resting /\ Apart /\ Books
      /\ \A s \in Targets : NotShort(Book(s), s)
      /\ \A k \in Locates : Complete(k) => Mirrors(Book(Listing[k]), k)
  BY DEF BookInv
<1>2. \A s : Book(s)' = Book(s) /\ Ticker(s)' = Ticker(s)
  BY DEF Book, Ticker
<1>3. Shapes'
  BY <1>1, <1>2 DEF Shapes
<1>4. Resting' /\ Apart'
  BY <1>1 DEF Resting, Apart
<1>5. Books'
  BY <1>1, <1>2 DEF Books
<1>6. \A s \in Targets : NotShort(Book(s), s)'
  BY <1>1, <1>2 DEF NotShort
<1>7. \A k \in Locates : Complete(k)' => Mirrors(Book(Listing[k]), k)'
  <2> SUFFICES ASSUME NEW k \in Locates, Complete(k)' PROVE Mirrors(Book(Listing[k]), k)'
    OBVIOUS
  <2>1. Complete(k)
    BY DEF Complete
  <2> QED BY <1>1, <1>2, <2>1 DEF Mirrors
<1>8. Moves
  BY <1>2 DEF Moves, Moved
<1> QED BY <1>3, <1>4, <1>5, <1>6, <1>7, <1>8 DEF BookInv

LEMMA BookList == ASSUME BookInv, NEW l \in Locates, List(l) PROVE BookInv' /\ Moves
<1> DEFINE data == DirectoryPacket(l)
<1>1. /\ Parse(data) = [kind |-> "StockDirectory", symbol |-> Listing[l]]
      /\ data[0] = "R" /\ data[1] = l /\ Field(data, 1) = l
  BY DirectoryParsed
<1> HIDE DEF data
<1>2. Emit(data) /\ venue' = venue /\ given' = given
  BY DEF List, exchangeVars, data
<1>3. Shapes /\ Routed
  BY DEF BookInv
<1>4. CASE Lose(data)
  <2>1. UNCHANGED <<lookup, processors, heard, missed>>
    BY <1>1, <1>4 DEF Lose, engineVars
  <2>2. Routed'
    BY <1>3, <2>1 DEF Routed
  <2> QED BY <1>2, <1>3, <2>1, <2>2, BookSame DEF Shapes
<1>5. CASE Arrive(data)
  <2>1. HandleRawPacket(data) /\ heard' = heard \union {l} /\ missed' = missed
    BY <1>1, <1>5 DEF Arrive
  <2>2. HandleStockDirectory(l, Listing[l])
    BY <1>1, <2>1 DEF HandleRawPacket
  <2>3. /\ lookup' = IF Listing[l] \in Targets THEN [lookup EXCEPT ![l] = Listing[l]] ELSE lookup
        /\ processors' = processors
    BY <2>2 DEF HandleStockDirectory
  <2>4. /\ lookup' \in [Locates -> Targets \union {None}]
        /\ \A k \in Locates : lookup'[k] \in {None, Listing[k]}
    BY <1>3, <2>3 DEF Shapes
  <2>5. Routed'
    BY <1>3, <2>1, <2>3 DEF Routed, Shapes
  <2> QED BY <1>2, <1>3, <2>1, <2>3, <2>4, <2>5, BookSame DEF Shapes
<1> QED BY <1>2, <1>4, <1>5 DEF Emit

LEMMA BookAdd ==
  ASSUME BookInv, NEW l \in Locates, NEW id \in Ids, NEW side \in Sides, NEW px \in Prices,
         NEW q \in Quantities, Add(l, id, side, px, q)
  PROVE  BookInv' /\ Moves
<1>1. /\ id \notin DOMAIN given /\ Rests(l, side, px)
      /\ given' = Put(given, id, NewOrder(l, side, px, q))
      /\ venue' = Put(venue, id, NewOrder(l, side, px, q))
  BY DEF Add
<1>2. PICK type \in {"A", "F"} : Emit(AddPacket(type, l, id, Byte(side), px, q))
  BY DEF Add
<1>3. /\ Resting' /\ Apart' /\ Shrinks /\ OnlyAt(l)
      /\ DOMAIN given' = DOMAIN given \union {id} /\ DOMAIN venue' = DOMAIN venue \union {id}
      /\ given'[id] = NewOrder(l, side, px, q) /\ venue'[id] = NewOrder(l, side, px, q)
      /\ \A i \in DOMAIN venue : venue'[i] = venue[i]
  <2>1. PICK rest : rest = venue
    OBVIOUS
  <2>2. Besides(rest, l) /\ venue' = Put(rest, id, NewOrder(l, side, px, q))
    BY <1>1, <2>1 DEF Besides
  <2>3. Resting /\ Apart
    BY DEF BookInv
  <2>4. /\ Resting' /\ Apart' /\ Shrinks /\ OnlyAt(l)
        /\ DOMAIN given' = DOMAIN given \union {id} /\ DOMAIN venue' = DOMAIN rest \union {id}
        /\ given'[id] = NewOrder(l, side, px, q) /\ venue'[id] = NewOrder(l, side, px, q)
        /\ \A i \in DOMAIN rest : venue'[i] = venue[i]
    BY <1>1, <2>2, <2>3, AddedIs
  <2> QED BY <2>1, <2>4
<1>4. PICK data : data = AddPacket(type, l, id, Byte(side), px, q)
  OBVIOUS
<1>5. Emit(data)
  BY <1>2, <1>4
<1>6. CASE type = "A"
  <2>1. PICK m : m = [kind |-> "AddOrder", id |-> id, side |-> side, qty |-> q, px |-> px]
    OBVIOUS
  <2>2. Parse(data) = m /\ data[0] = "A" /\ data[1] = l /\ Field(data, 1) = l
    BY <1>4, <1>6, <2>1, AddParsed
  <2>3. m.kind = "AddOrder"
    BY <2>1
  <2>4. ASSUME Listing[l] \in Targets
        PROVE  \E c, t : /\ HandleEvent(processors[Listing[l]], m) = [book |-> c, ticker |-> t]
                         /\ Handled(l, c)
    <3>1. PICK b, t : b = Book(Listing[l]) /\ t = Ticker(Listing[l])
      OBVIOUS
    <3>2. processors[Listing[l]] = [book |-> b, ticker |-> t]
      BY <2>4, <3>1 DEF BookInv, Shapes
    <3>3. HandleEvent(processors[Listing[l]], m) = [book |-> AddOrder(b, id, side, px, q), ticker |-> t]
      BY <2>1, <3>2, AddEvent
    <3>4. Handled(l, AddOrder(b, id, side, px, q))
      BY <1>1, <1>3, <2>4, <3>1, AddHandled
    <3> QED BY <3>3, <3>4
  <2> QED BY <1>3, <1>5, <2>2, <2>3, <2>4, StepAt
<1>7. CASE type = "F"
  <2>1. PICK m : m = NoMessage
    OBVIOUS
  <2>2. Parse(data) = m /\ data[0] = "F" /\ data[1] = l /\ Field(data, 1) = l
    BY <1>4, <1>7, <2>1, AttributedNotParsed
  <2>3. m.kind = "None"
    BY <2>1 DEF NoMessage
  <2> QED BY <1>3, <1>5, <2>2, <2>3, StepAt
<1> QED BY <1>2, <1>6, <1>7

LEMMA BookCancel ==
  ASSUME BookInv, NEW id \in Ids, NEW q \in Quantities, Cancel(id, q)
  PROVE  BookInv' /\ Moves
<1>1. /\ id \in DOMAIN venue /\ q <= venue[id].qty /\ venue' = Reduced(id, q) /\ given' = given
      /\ Emit(CancelPacket(venue[id].locate, id, q))
  BY DEF Cancel
<1>2. q \in Nat \ {0} /\ Resting /\ Apart
  BY QuantityType DEF BookInv
<1>3. PICK l \in Locates : l = venue[id].locate
  BY <1>1, <1>2 DEF Resting
<1>4. Resting' /\ Apart' /\ Shrinks /\ OnlyAt(l)
  BY <1>1, <1>2, <1>3, ReducedIs
<1>5. PICK data : data = CancelPacket(l, id, q)
  OBVIOUS
<1>6. PICK m : m = [kind |-> "ModifyOrder", id |-> id, qty |-> q]
  OBVIOUS
<1>7. Emit(data)
  BY <1>1, <1>3, <1>5
<1>8. Parse(data) = m /\ data[0] = "X" /\ data[1] = l /\ Field(data, 1) = l
  BY <1>5, <1>6, CancelParsed
<1>9. m.kind = "ModifyOrder"
  BY <1>6
<1>10. ASSUME Listing[l] \in Targets
       PROVE  \E c, t : /\ HandleEvent(processors[Listing[l]], m) = [book |-> c, ticker |-> t]
                        /\ Handled(l, c)
  <2>1. PICK b, t : b = Book(Listing[l]) /\ t = Ticker(Listing[l])
    OBVIOUS
  <2>2. processors[Listing[l]] = [book |-> b, ticker |-> t]
    BY <1>10, <2>1 DEF BookInv, Shapes
  <2>3. HandleEvent(processors[Listing[l]], m) = [book |-> CancelOrder(b, id, q), ticker |-> t]
    BY <1>6, <2>2, CancelEvent
  <2>4. Handled(l, CancelOrder(b, id, q))
    BY <1>1, <1>2, <1>3, <1>10, <2>1, CancelHandled
  <2> QED BY <2>3, <2>4
<1> QED BY <1>4, <1>7, <1>8, <1>9, <1>10, StepAt

LEMMA BookDelete ==
  ASSUME BookInv, NEW id \in Ids, Delete(id)
  PROVE  BookInv' /\ Moves
<1>1. /\ id \in DOMAIN venue /\ venue' = Without(venue, id) /\ given' = given
      /\ Emit(DeletePacket(venue[id].locate, id))
  BY DEF Delete
<1>2. Resting /\ Apart
  BY DEF BookInv
<1>3. PICK l \in Locates : l = venue[id].locate
  BY <1>1, <1>2 DEF Resting
<1>4. Resting' /\ Apart' /\ Shrinks /\ OnlyAt(l)
  BY <1>1, <1>2, <1>3, DeletedIs
<1>5. PICK data : data = DeletePacket(l, id)
  OBVIOUS
<1>6. PICK m : m = [kind |-> "DeleteOrder", id |-> id]
  OBVIOUS
<1>7. Emit(data)
  BY <1>1, <1>3, <1>5
<1>8. Parse(data) = m /\ data[0] = "D" /\ data[1] = l /\ Field(data, 1) = l
  BY <1>5, <1>6, DeleteParsed
<1>9. m.kind = "DeleteOrder"
  BY <1>6
<1>10. ASSUME Listing[l] \in Targets
       PROVE  \E c, t : /\ HandleEvent(processors[Listing[l]], m) = [book |-> c, ticker |-> t]
                        /\ Handled(l, c)
  <2>1. PICK b, t : b = Book(Listing[l]) /\ t = Ticker(Listing[l])
    OBVIOUS
  <2>2. processors[Listing[l]] = [book |-> b, ticker |-> t]
    BY <1>10, <2>1 DEF BookInv, Shapes
  <2>3. PICK c : c = IF id \in DOMAIN b.orders THEN CancelOrder(b, id, b.orders[id].qty) ELSE b
    OBVIOUS
  <2>4. HandleEvent(processors[Listing[l]], m) = [book |-> c, ticker |-> t]
    BY <1>6, <2>2, <2>3, DeleteEvent
  <2>5. Handled(l, c)
    BY <1>1, <1>3, <1>10, <2>1, <2>3, DeleteHandled
  <2> QED BY <2>4, <2>5
<1> QED BY <1>4, <1>7, <1>8, <1>9, <1>10, StepAt

LEMMA BookReplace ==
  ASSUME BookInv, NEW id \in Ids, NEW new \in Ids, NEW px \in Prices, NEW q \in Quantities,
         Replace(id, new, px, q)
  PROVE  BookInv' /\ Moves
<1>1. /\ id \in DOMAIN venue /\ new \notin DOMAIN given
      /\ Rests(venue[id].locate, venue[id].side, px)
      /\ given' = Put(given, new, NewOrder(venue[id].locate, venue[id].side, px, q))
      /\ venue' = Put(Without(venue, id), new, NewOrder(venue[id].locate, venue[id].side, px, q))
      /\ Emit(ReplacePacket(venue[id].locate, id, new, px, q))
  BY DEF Replace
<1>2. Resting /\ Apart
  BY DEF BookInv
<1>3. PICK l \in Locates, side \in Sides : l = venue[id].locate /\ side = venue[id].side
  BY <1>1, <1>2 DEF Resting
<1>4. Resting' /\ Apart' /\ Shrinks /\ OnlyAt(l)
  <2>1. PICK rest : rest = Without(venue, id)
    OBVIOUS
  <2>2. Besides(rest, l)
    BY <1>3, <2>1 DEF Besides, Without
  <2>3. /\ Rests(l, side, px) /\ given' = Put(given, new, NewOrder(l, side, px, q))
        /\ venue' = Put(rest, new, NewOrder(l, side, px, q))
    BY <1>1, <1>3, <2>1
  <2>4. new \notin DOMAIN given
    BY <1>1
  <2> QED BY <1>2, <2>2, <2>3, <2>4, AddedIs, Zenon
<1>5. PICK data : data = ReplacePacket(l, id, new, px, q)
  OBVIOUS
<1>6. PICK m : m = NoMessage
  OBVIOUS
<1>7. Emit(data)
  BY <1>1, <1>3, <1>5
<1>8. Parse(data) = m /\ data[0] = "U" /\ data[1] = l /\ Field(data, 1) = l
  BY <1>5, <1>6, ReplaceNotParsed
<1>9. m.kind = "None"
  BY <1>6 DEF NoMessage
<1> QED BY <1>4, <1>7, <1>8, <1>9, StepAt

\* A message that takes q shares from order id, whatever it does to the ticker.
Takes(m, id, q) ==
  \A b, t : \E u : HandleEvent([book |-> b, ticker |-> t], m)
                   = [book |-> CancelOrder(b, id, q), ticker |-> u]

\* An execution of a resting order, at its price or at another.
LEMMA BookExecution ==
  ASSUME BookInv, NEW id, id \in DOMAIN venue, NEW q \in Quantities, q <= venue[id].qty,
         venue' = Reduced(id, q), given' = given,
         NEW l \in Locates, l = venue[id].locate,
         NEW data, Emit(data), data[0] # "R", data[1] = l, Field(data, 1) = l,
         NEW m, Parse(data) = m, m.kind # "StockDirectory", m.kind # "None",
         Takes(m, id, q)
  PROVE  BookInv' /\ Moves
<1>1. q \in Nat \ {0} /\ Resting /\ Apart
  BY QuantityType DEF BookInv
<1>2. Resting' /\ Apart' /\ Shrinks /\ OnlyAt(l)
  BY <1>1, ReducedIs
<1>3. ASSUME Listing[l] \in Targets
      PROVE  \E c, t : /\ HandleEvent(processors[Listing[l]], m) = [book |-> c, ticker |-> t]
                       /\ Handled(l, c)
  <2>1. PICK b, t : b = Book(Listing[l]) /\ t = Ticker(Listing[l])
    OBVIOUS
  <2>2. processors[Listing[l]] = [book |-> b, ticker |-> t]
    BY <1>3, <2>1 DEF BookInv, Shapes
  <2>3. PICK u : HandleEvent([book |-> b, ticker |-> t], m)
                 = [book |-> CancelOrder(b, id, q), ticker |-> u]
    BY DEF Takes
  <2>4. Handled(l, CancelOrder(b, id, q))
    BY <1>1, <1>3, <2>1, CancelHandled
  <2> QED BY <2>2, <2>3, <2>4
<1> QED BY <1>2, <1>3, StepAt

LEMMA BookExecute ==
  ASSUME BookInv, NEW id \in Ids, NEW q \in Quantities, Execute(id, q)
  PROVE  BookInv' /\ Moves
<1>1. /\ id \in DOMAIN venue /\ q <= venue[id].qty /\ venue' = Reduced(id, q) /\ given' = given
      /\ Emit(ExecutedPacket(venue[id].locate, id, q, NextMatch))
  BY DEF Execute
<1>2. PICK l \in Locates : l = venue[id].locate
  BY <1>1 DEF BookInv, Resting
<1>3. PICK match : match = NextMatch
  OBVIOUS
<1>4. PICK data : data = ExecutedPacket(l, id, q, match)
  OBVIOUS
<1>5. PICK m : m = [kind |-> "OrderExecuted", id |-> id, qty |-> q, match |-> match]
  OBVIOUS
<1>6. Emit(data)
  BY <1>1, <1>2, <1>3, <1>4
<1>7. Parse(data) = m /\ data[0] = "E" /\ data[0] # "R" /\ data[1] = l /\ Field(data, 1) = l
  BY <1>4, <1>5, ExecutedParsed
<1>8. m.kind # "StockDirectory" /\ m.kind # "None"
  BY <1>5
<1>9. Takes(m, id, q)
  <2>1. ASSUME NEW b, NEW t
        PROVE  \E u : HandleEvent([book |-> b, ticker |-> t], m)
                     = [book |-> CancelOrder(b, id, q), ticker |-> u]
    <3>1. HandleEvent([book |-> b, ticker |-> t], m)
          = [book |-> CancelOrder(b, id, q),
             ticker |-> IF id \in DOMAIN b.orders
                        THEN AddTrade(t, b.orders[id].px, q, match, Aggressor(b.orders[id].side))
                        ELSE t]
      BY <1>5, ExecutedEvent
    <3> QED BY <3>1
  <2> QED BY <2>1 DEF Takes
<1> QED BY <1>1, <1>2, <1>6, <1>7, <1>8, <1>9, BookExecution

LEMMA BookExecuteAt ==
  ASSUME BookInv, NEW id \in Ids, NEW q \in Quantities, NEW px \in Prices, ExecuteAt(id, q, px)
  PROVE  BookInv' /\ Moves
<1>1. /\ id \in DOMAIN venue /\ q <= venue[id].qty /\ venue' = Reduced(id, q) /\ given' = given
      /\ Emit(ExecutedAtPacket(venue[id].locate, id, q, px, NextMatch))
  BY DEF ExecuteAt
<1>2. PICK l \in Locates : l = venue[id].locate
  BY <1>1 DEF BookInv, Resting
<1>3. PICK match : match = NextMatch
  OBVIOUS
<1>4. PICK data : data = ExecutedAtPacket(l, id, q, px, match)
  OBVIOUS
<1>5. PICK m : m = [kind |-> "OrderExecutedWithPrice", id |-> id, qty |-> q, match |-> match,
                    px |-> px]
  OBVIOUS
<1>6. Emit(data)
  BY <1>1, <1>2, <1>3, <1>4
<1>7. Parse(data) = m /\ data[0] = "C" /\ data[0] # "R" /\ data[1] = l /\ Field(data, 1) = l
  BY <1>4, <1>5, ExecutedAtParsed
<1>8. m.kind # "StockDirectory" /\ m.kind # "None"
  BY <1>5
<1>9. Takes(m, id, q)
  <2>1. ASSUME NEW b, NEW t
        PROVE  \E u : HandleEvent([book |-> b, ticker |-> t], m)
                     = [book |-> CancelOrder(b, id, q), ticker |-> u]
    <3>1. HandleEvent([book |-> b, ticker |-> t], m)
          = [book |-> CancelOrder(b, id, q),
             ticker |-> IF id \in DOMAIN b.orders
                        THEN AddTrade(t, px, q, match, Aggressor(b.orders[id].side))
                        ELSE t]
      BY <1>5, ExecutedAtEvent
    <3> QED BY <3>1
  <2> QED BY <2>1 DEF Takes
<1> QED BY <1>1, <1>2, <1>6, <1>7, <1>8, <1>9, BookExecution

LEMMA BookTrade ==
  ASSUME BookInv, NEW l \in Locates, NEW side \in Sides, NEW px \in Prices, NEW q \in Quantities,
         TradeHidden(l, side, px, q)
  PROVE  BookInv' /\ Moves
<1>1. Emit(TradePacket(l, Byte(side), px, q, NextMatch)) /\ venue' = venue /\ given' = given
  BY DEF TradeHidden
<1>2. PICK match : match = NextMatch
  OBVIOUS
<1>3. PICK data : data = TradePacket(l, Byte(side), px, q, match)
  OBVIOUS
<1>4. PICK m : m = [kind |-> "Trade", side |-> side, qty |-> q, px |-> px, match |-> match]
  OBVIOUS
<1>5. Emit(data)
  BY <1>1, <1>2, <1>3
<1>6. Parse(data) = m /\ data[0] = "P" /\ data[1] = l /\ Field(data, 1) = l
  BY <1>3, <1>4, TradeParsed
<1>7. m.kind = "Trade"
  BY <1>4
<1>8. Resting' /\ Apart'
  BY <1>1 DEF BookInv, Resting, Apart
<1>9. Shrinks /\ OnlyAt(l)
  <2>1. \A id \in DOMAIN venue : venue[id].qty <= venue[id].qty
    BY DEF BookInv, Resting
  <2> QED BY <1>1, <2>1 DEF Shrinks, OnlyAt
<1>10. ASSUME Listing[l] \in Targets
       PROVE  \E c, t : /\ HandleEvent(processors[Listing[l]], m) = [book |-> c, ticker |-> t]
                        /\ Handled(l, c)
  <2>1. PICK b, t : b = Book(Listing[l]) /\ t = Ticker(Listing[l])
    OBVIOUS
  <2>2. processors[Listing[l]] = [book |-> b, ticker |-> t]
    BY <1>10, <2>1 DEF BookInv, Shapes
  <2>3. HandleEvent(processors[Listing[l]], m)
        = [book |-> b, ticker |-> AddTrade(t, px, q, match, side)]
    BY <1>4, <2>2, TradeEvent
  <2>4. BookOK(b, Ids, Prices, Most) /\ NotShort(b, Listing[l])'
    BY <1>8, <1>9, <1>10, <2>1, BookBefore
  <2>5. Mirrors(b, l) => Mirrors(b, l)'
    BY <1>1 DEF Mirrors
  <2>6. Moved(b, b, Ids, Prices, Most)
    BY DEF Moved
  <2>7. Handled(l, b)
    BY <2>1, <2>4, <2>5, <2>6 DEF Handled
  <2> QED BY <2>3, <2>7
<1> QED BY <1>5, <1>6, <1>7, <1>8, <1>9, <1>10, StepAt

LEMMA BookStep == BookInv /\ [Next]_vars => BookInv' /\ Moves
<1> SUFFICES ASSUME BookInv, [Next]_vars PROVE BookInv' /\ Moves
  OBVIOUS
<1>1. CASE Restart
  BY <1>1, BookRestart
<1>2. ASSUME NEW l \in Locates, List(l) PROVE BookInv' /\ Moves
  BY <1>2, BookList
<1>3. ASSUME NEW l \in Locates, NEW id \in Ids, NEW side \in Sides, NEW px \in Prices,
             NEW q \in Quantities, Add(l, id, side, px, q)
      PROVE  BookInv' /\ Moves
  BY <1>3, BookAdd
<1>4. ASSUME NEW l \in Locates, NEW side \in Sides, NEW px \in Prices, NEW q \in Quantities,
             TradeHidden(l, side, px, q)
      PROVE  BookInv' /\ Moves
  BY <1>4, BookTrade
<1>5. ASSUME NEW id \in Ids, NEW q \in Quantities, Cancel(id, q) PROVE BookInv' /\ Moves
  BY <1>5, BookCancel
<1>6. ASSUME NEW id \in Ids, NEW q \in Quantities, Execute(id, q) PROVE BookInv' /\ Moves
  BY <1>6, BookExecute
<1>7. ASSUME NEW id \in Ids, NEW q \in Quantities, NEW px \in Prices, ExecuteAt(id, q, px)
      PROVE  BookInv' /\ Moves
  BY <1>7, BookExecuteAt
<1>8. ASSUME NEW id \in Ids, Delete(id) PROVE BookInv' /\ Moves
  BY <1>8, BookDelete
<1>9. ASSUME NEW id \in Ids, NEW new \in Ids, NEW px \in Prices, NEW q \in Quantities,
             Replace(id, new, px, q)
      PROVE  BookInv' /\ Moves
  BY <1>9, BookReplace
<1>10. CASE UNCHANGED vars
  <2>1. UNCHANGED <<lookup, processors, venue, given, heard, missed>>
    BY <1>10 DEF vars
  <2>2. Routed'
    BY <2>1 DEF BookInv, Routed
  <2> QED BY <2>1, <2>2, BookSame DEF BookInv, Shapes
<1> QED BY <1>1, <1>2, <1>3, <1>4, <1>5, <1>6, <1>7, <1>8, <1>9, <1>10 DEF Next

\* The invariant of the books, whatever is lost and whenever the engine
\* starts.
THEOREM BookInvariance == Spec => []BookInv
<1>1. Init => BookInv
  BY BookInit
<1>2. BookInv /\ [Next]_vars => BookInv'
  BY BookStep
<1> QED BY <1>1, <1>2, PTL DEF Spec

\* NeverShort: a book never shows less of an order than the exchange has, so
\* no subtraction of cancel_order wraps.
THEOREM NeverShortHolds == Spec => []NeverShort
<1>1. BookInv => NeverShort
  BY NeverShortIs DEF BookInv
<1> QED BY <1>1, BookInvariance, PTL

\* Mirror: a book that has missed no packet is the exchange's.
THEOREM MirrorHolds == Spec => []Mirror
<1>1. BookInv => Mirror
  BY MirrorIs DEF BookInv
<1> QED BY <1>1, BookInvariance, PTL

\* The levels of the books.
Levels == \A s \in Targets : LevelsOK(Book(s), Prices)

\* SharesFit says it of each book.
LEMMA FitsIs == SharesFit <=> \A s \in Targets : BookFits(Book(s), Prices)
<1>1. ASSUME NEW s, NEW side, NEW px
      PROVE  [id \in Standing(s, side, px) |-> Book(s).orders[id].qty]
             = Stakes(Book(s), side, px)
  BY DEF Standing, StandingIn, Stakes
<1> QED BY <1>1 DEF SharesFit, BookFits

\* A step between two states in which every level fits keeps them right.
LEMMA LevelsStep ==
  BookInv /\ Levels /\ SharesFit /\ SharesFit' /\ [Next]_vars => Levels'
<1> SUFFICES ASSUME BookInv, Levels, SharesFit, SharesFit', [Next]_vars, NEW s \in Targets
             PROVE  LevelsOK(Book(s)', Prices)
  BY DEF Levels, LevelsOK, LevelsTyped, Stakes, StandingIn
<1>1. PICK b, c : b = Book(s) /\ c = Book(s)'
  OBVIOUS
<1>2. Moved(b, c, Ids, Prices, Most)
  BY <1>1, BookStep DEF Moves
<1>3. BookOK(b, Ids, Prices, Most) /\ LevelsOK(b, Prices)
  BY <1>1 DEF BookInv, Books, Levels
<1>4. BookFits(b, Prices)
  BY <1>1, FitsIs
<1>5. BookFits(c, Prices)
  <2>1. \A t, px : [id \in Standing(s, t, px)' |-> Book(s)'.orders[id].qty] = Stakes(c, t, px)
    BY <1>1 DEF Standing, StandingIn, Stakes
  <2> QED BY <2>1 DEF SharesFit, BookFits
<1>6. Most \in Nat /\ Most < Word
  BY MostIs
<1> QED BY <1>1, <1>2, <1>3, <1>4, <1>5, <1>6, LevelsMoved

\* The levels are right as long as every level has fitted.
THEOREM LevelsInvariance == Spec /\ []SharesFit => []Levels
<1>1. Init => Levels
  BY BookInit DEF Levels
<1>2. BookInv /\ Levels /\ SharesFit /\ SharesFit' /\ [Next]_vars => Levels'
  BY LevelsStep
<1> QED BY <1>1, <1>2, BookInvariance, PTL DEF Spec

\* LevelsAreSums: L2 is the sum of L3, at every price, as long as the shares
\* that stand at a price fit the u32 of its level.
THEOREM LevelsAreSumsHolds == Spec /\ []SharesFit => []LevelsAreSums
<1>1. ASSUME Levels, NEW s \in Targets, NEW side \in Sides, NEW px \in Prices
      PROVE  /\ px \in DOMAIN Book(s).levels[side] <=> Standing(s, side, px) # {}
             /\ px \in DOMAIN Book(s).levels[side] =>
                  Book(s).levels[side][px] =
                    Total([id \in Standing(s, side, px) |-> Book(s).orders[id].qty])
  <2>1. LevelsOK(Book(s), Prices)
    BY <1>1 DEF Levels
  <2>2. Standing(s, side, px) = StandingIn(Book(s), side, px)
    BY DEF Standing, StandingIn
  <2>3. [id \in Standing(s, side, px) |-> Book(s).orders[id].qty] = Stakes(Book(s), side, px)
    BY <2>2 DEF Stakes
  <2> QED BY <2>1, <2>2, <2>3 DEF LevelsOK
<1>2. Levels => LevelsAreSums
  BY <1>1 DEF LevelsAreSums
<1> QED BY <1>2, LevelsInvariance, PTL

\* NeverCrossed: as long as they do, a book that has missed no packet has its
\* best bid below its best ask.
THEOREM NeverCrossedHolds == Spec /\ []SharesFit => []NeverCrossed
<1>1. ASSUME BookInv, Levels, NEW l \in Locates, Complete(l),
             NEW bid \in BestBid(Book(Listing[l])), NEW ask \in BestAsk(Book(Listing[l]))
      PROVE  bid < ask
  <2>1. PICK b : b = Book(Listing[l])
    OBVIOUS
  <2>2. LevelsOK(b, Prices) /\ Mirrors(b, l) /\ Apart
    BY <1>1, <2>1 DEF BookInv, Levels, Complete
  <2>3. bid \in DOMAIN b.levels["Buy"] /\ ask \in DOMAIN b.levels["Sell"]
    BY <2>1 DEF BestBid, BestAsk
  <2>4. bid \in Prices /\ ask \in Prices
    BY <2>2, <2>3 DEF LevelsOK, LevelsTyped, Sides
  <2>5. StandingIn(b, "Buy", bid) # {} /\ StandingIn(b, "Sell", ask) # {}
    BY <2>2, <2>3, <2>4 DEF LevelsOK, Sides
  <2>6. PICK i \in DOMAIN b.orders : b.orders[i].side = "Buy" /\ b.orders[i].px = bid
    BY <2>5 DEF StandingIn
  <2>7. PICK j \in DOMAIN b.orders : b.orders[j].side = "Sell" /\ b.orders[j].px = ask
    BY <2>5 DEF StandingIn
  <2>8. /\ i \in DOMAIN venue /\ venue[i].locate = l
        /\ b.orders[i] = [side |-> venue[i].side, px |-> venue[i].px, qty |-> venue[i].qty]
    BY <2>2 DEF Mirrors
  <2>9. /\ j \in DOMAIN venue /\ venue[j].locate = l
        /\ b.orders[j] = [side |-> venue[j].side, px |-> venue[j].px, qty |-> venue[j].qty]
    BY <2>2 DEF Mirrors
  <2>10. /\ venue[i].side = "Buy" /\ venue[i].px = bid
         /\ venue[j].side = "Sell" /\ venue[j].px = ask
    BY <2>6, <2>7, <2>8, <2>9
  <2> QED BY <2>2, <2>8, <2>9, <2>10 DEF Apart
<1>2. BookInv /\ Levels => NeverCrossed
  BY <1>1 DEF NeverCrossed
<1> QED BY <1>2, BookInvariance, LevelsInvariance, PTL

----------------------------------------------------------------------------
(* The tickers.                                                            *)

TradeRecord == [px : Prices, qty : Quantities, match : Nat, side : Sides]

Volumes(trades) == [i \in DOMAIN trades |-> trades[i].qty]
Increasing(trades) == \A i, j \in DOMAIN trades : i < j => trades[i].match < trades[j].match

\* The exchange numbers its executions in their order.
PrintsOK ==
  /\ prints \in [Locates -> Seq(TradeRecord)]
  /\ \A l \in Locates :
       /\ Increasing(prints[l])
       /\ \A i \in DOMAIN prints[l] : prints[l][i].match < NextMatch

\* A ticker's volume and last price are those of its trades.
TickerOK(t) ==
  /\ t.trades \in Seq(TradeRecord)
  /\ Increasing(t.trades)
  /\ t.volume \in Nat
  /\ t.volume = Total(Volumes(t.trades))
  /\ t.trades # <<>> => t.last = t.trades[Len(t.trades)].px

\* The trades of a ticker, of the executions p.
From(t, p) == \A i \in DOMAIN t.trades : \E j \in DOMAIN p : t.trades[i] = p[j]

TickerInv ==
  /\ PrintsOK
  /\ \A s \in Targets : TickerOK(Ticker(s))
  /\ \A l \in Locates : Listing[l] \in Targets =>
       /\ From(Ticker(Listing[l]), prints[l])
       /\ Complete(l) => Ticker(Listing[l]).trades = prints[l]

LEMMA AppendIs ==
  ASSUME NEW S, NEW s \in Seq(S), NEW e \in S
  PROVE  /\ Append(s, e) \in Seq(S) /\ Append(s, e) # <<>>
         /\ Len(s) \in Nat /\ Len(Append(s, e)) = Len(s) + 1
         /\ DOMAIN s = 1 .. Len(s)
         /\ DOMAIN Append(s, e) = DOMAIN s \union {Len(s) + 1}
         /\ \A i \in DOMAIN s : i \in Int /\ i < Len(s) + 1 /\ Append(s, e)[i] = s[i]
         /\ Append(s, e)[Len(s) + 1] = e
<1>1. Len(s) \in Nat /\ DOMAIN s = 1 .. Len(s)
  OBVIOUS
<1>2. /\ Append(s, e) \in Seq(S) /\ Len(Append(s, e)) = Len(s) + 1
      /\ \A i \in 1 .. Len(s) : Append(s, e)[i] = s[i]
      /\ Append(s, e)[Len(s) + 1] = e
  OBVIOUS
<1>3. DOMAIN Append(s, e) = 1 .. Len(s) + 1
  BY <1>2
<1>4. 1 .. Len(s) + 1 = (1 .. Len(s)) \union {Len(s) + 1}
  BY <1>1
<1>5. Append(s, e) # <<>>
  BY <1>1, <1>2
<1> QED BY <1>1, <1>2, <1>3, <1>4, <1>5

\* One more trade, with a larger number than all before.
LEMMA IncreasingAppend ==
  ASSUME NEW s \in Seq(TradeRecord), NEW e \in TradeRecord, Increasing(s),
         \A i \in DOMAIN s : s[i].match < e.match
  PROVE  Increasing(Append(s, e))
<1> SUFFICES ASSUME NEW i \in DOMAIN Append(s, e), NEW j \in DOMAIN Append(s, e), i < j
             PROVE  Append(s, e)[i].match < Append(s, e)[j].match
  BY DEF Increasing
<1>1. /\ Len(s) \in Nat /\ DOMAIN s = 1 .. Len(s)
      /\ DOMAIN Append(s, e) = DOMAIN s \union {Len(s) + 1}
      /\ \A k \in DOMAIN s : Append(s, e)[k] = s[k]
      /\ Append(s, e)[Len(s) + 1] = e
  BY AppendIs
<1>2. i \in DOMAIN s
  BY <1>1
<1>3. CASE j \in DOMAIN s
  BY <1>1, <1>2, <1>3 DEF Increasing
<1>4. CASE j = Len(s) + 1
  BY <1>1, <1>2, <1>4
<1> QED BY <1>1, <1>3, <1>4

\* The volumes of trades are a finite map to numbers.
LEMMA VolumesType ==
  ASSUME NEW s \in Seq(TradeRecord)
  PROVE  IsFiniteSet(DOMAIN s) /\ Volumes(s) \in [DOMAIN s -> Nat]
<1>1. DOMAIN s = 1 .. Len(s) /\ Len(s) \in Int /\ 1 \in Int
  OBVIOUS
<1>2. IsFiniteSet(DOMAIN s)
  BY <1>1, FS_Interval
<1>3. \A i \in DOMAIN s : s[i].qty \in Nat
  <2> TAKE i \in DOMAIN s
  <2>1. s[i] \in TradeRecord
    OBVIOUS
  <2>2. s[i].qty \in Quantities
    BY <2>1 DEF TradeRecord
  <2> QED BY <2>2, QuantityType
<1> QED BY <1>2, <1>3 DEF Volumes

LEMMA NoVolume == Total(Volumes(<<>>)) = 0 /\ <<>> \in Seq(TradeRecord)
<1>1. DOMAIN <<>> = {}
  OBVIOUS
<1>2. PICK f \in [{} -> Nat \ {0}] : f = Volumes(<<>>)
  BY <1>1 DEF Volumes
<1>3. IsFiniteSet({})
  BY FS_EmptySet
<1>4. Total(f) = 0
  BY <1>3, TotalZero
<1> QED BY <1>2, <1>4

\* AddTrade adds the trade to what the ticker is about.
LEMMA AddTradeOK ==
  ASSUME NEW t, TickerOK(t), NEW px \in Prices, NEW q \in Quantities, NEW match \in Nat,
         NEW side \in Sides, \A i \in DOMAIN t.trades : t.trades[i].match < match
  PROVE  TickerOK(AddTrade(t, px, q, match, side))
<1> DEFINE e == [px |-> px, qty |-> q, match |-> match, side |-> side]
           u == AddTrade(t, px, q, match, side)
<1>1. u.trades = Append(t.trades, e) /\ u.volume = t.volume + q /\ u.last = px
  BY DEF AddTrade
<1>2. e \in TradeRecord /\ e.match = match /\ e.qty = q /\ e.px = px /\ q \in Nat
  BY QuantityType DEF TradeRecord
<1> HIDE DEF e, u
<1>3. PICK s \in Seq(TradeRecord) : s = t.trades
  BY DEF TickerOK
<1>4. /\ Append(s, e) \in Seq(TradeRecord) /\ Len(s) \in Nat /\ Len(Append(s, e)) = Len(s) + 1
      /\ DOMAIN s = 1 .. Len(s) /\ DOMAIN Append(s, e) = DOMAIN s \union {Len(s) + 1}
      /\ \A i \in DOMAIN s : Append(s, e)[i] = s[i]
      /\ Append(s, e)[Len(s) + 1] = e
  BY <1>2, AppendIs
<1>5. Increasing(Append(s, e))
  <2>1. \A i \in DOMAIN s : s[i].match < e.match
    BY <1>2, <1>3
  <2>2. Increasing(s)
    BY <1>3 DEF TickerOK
  <2> QED BY <1>2, <2>1, <2>2, IncreasingAppend
<1>6. Total(Volumes(Append(s, e))) = Total(Volumes(s)) + q
  <2>1. PICK S : S = DOMAIN s
    OBVIOUS
  <2>2. PICK f \in [S -> Nat] : f = Volumes(s)
    BY <2>1, VolumesType
  <2>3. PICK k : k = Len(s) + 1
    OBVIOUS
  <2>4. k \notin S
    BY <1>4, <2>1, <2>3
  <2>5. Volumes(Append(s, e)) = Put(f, k, q)
    <3>1. \A i \in S : Append(s, e)[i].qty = f[i]
      BY <1>4, <2>1, <2>2 DEF Volumes
    <3>2. DOMAIN Append(s, e) = S \union {k} /\ Append(s, e)[k].qty = q
      BY <1>2, <1>4, <2>1, <2>3
    <3> QED BY <2>4, <3>1, <3>2 DEF Volumes, Put
  <2>6. IsFiniteSet(S)
    BY <2>1, VolumesType
  <2>7. Total(Put(f, k, q)) = Total(f) + q
    BY <1>2, <2>4, <2>6, TotalPut
  <2> QED BY <2>2, <2>5, <2>7
<1>7. u.volume \in Nat /\ u.volume = Total(Volumes(u.trades))
  BY <1>1, <1>2, <1>3, <1>6 DEF TickerOK
<1>8. u.last = u.trades[Len(u.trades)].px
  BY <1>1, <1>2, <1>3, <1>4
<1> QED BY <1>1, <1>3, <1>4, <1>5, <1>7, <1>8 DEF TickerOK, u

\* What was printed stays printed.
LEMMA FromMore ==
  ASSUME NEW t, NEW p \in Seq(TradeRecord), NEW e \in TradeRecord, From(t, p)
  PROVE  From(t, Append(p, e))
<1>1. DOMAIN p \subseteq DOMAIN Append(p, e) /\ \A j \in DOMAIN p : Append(p, e)[j] = p[j]
  BY AppendIs
<1> QED BY <1>1 DEF From

\* A trade that has just been printed.
LEMMA FromAppend ==
  ASSUME NEW t, t.trades \in Seq(TradeRecord), NEW p \in Seq(TradeRecord), From(t, p),
         NEW px \in Prices, NEW q \in Quantities, NEW match \in Nat, NEW side \in Sides
  PROVE  From(AddTrade(t, px, q, match, side),
              Append(p, [px |-> px, qty |-> q, match |-> match, side |-> side]))
<1> DEFINE e == [px |-> px, qty |-> q, match |-> match, side |-> side]
           u == AddTrade(t, px, q, match, side)
<1>1. u.trades = Append(t.trades, e) /\ e \in TradeRecord
  BY DEF AddTrade, TradeRecord
<1> HIDE DEF e, u
<1>2. PICK s \in Seq(TradeRecord) : s = t.trades
  OBVIOUS
<1>3. /\ DOMAIN u.trades = DOMAIN s \union {Len(s) + 1}
      /\ \A i \in DOMAIN s : u.trades[i] = s[i]
      /\ u.trades[Len(s) + 1] = e
  BY <1>1, <1>2, AppendIs
<1>4. From(t, Append(p, e))
  BY <1>1, FromMore
<1>5. Len(p) + 1 \in DOMAIN Append(p, e) /\ Append(p, e)[Len(p) + 1] = e
  BY <1>1, AppendIs
<1>6. \A i \in DOMAIN u.trades : \E j \in DOMAIN Append(p, e) : u.trades[i] = Append(p, e)[j]
  <2> TAKE i \in DOMAIN u.trades
  <2>1. CASE i \in DOMAIN s
    BY <1>2, <1>3, <1>4, <2>1 DEF From
  <2>2. CASE i = Len(s) + 1
    BY <1>3, <1>5, <2>2
  <2> QED BY <1>3, <2>1, <2>2
<1> QED BY <1>6 DEF From, e, u

\* An execution is printed with the next number.
LEMMA Recorded ==
  ASSUME PrintsOK, NEW l \in Locates, NEW px \in Prices, NEW q \in Quantities, NEW side \in Sides,
         NEW match, match = NextMatch, Record(l, px, q, side)
  PROVE  /\ match \in Nat /\ NextMatch' = match + 1
         /\ PrintsOK'
         /\ prints'[l] = Append(prints[l], [px |-> px, qty |-> q, match |-> match, side |-> side])
         /\ \A k \in Locates : k # l => prints'[k] = prints[k]
<1> DEFINE e == [px |-> px, qty |-> q, match |-> match, side |-> side]
<1>1. /\ prints \in [Locates -> Seq(TradeRecord)]
      /\ prints' = [prints EXCEPT ![l] = Append(prints[l], e)]
  BY DEF PrintsOK, Record
<1>2. IsFiniteSet(Locates)
  BY ListingAssumption
<1>3. \A k \in Locates : Len(prints[k]) \in Nat
  <2> TAKE k \in Locates
  <2>1. prints[k] \in Seq(TradeRecord)
    BY <1>1
  <2> QED BY <2>1
<1>4. PICK f \in [Locates -> Nat] : f = [k \in Locates |-> Len(prints[k])]
  BY <1>3
<1>5. match \in Nat /\ match = 1 + Total(f)
  <2>1. Total(f) \in Nat
    BY <1>2, TotalType
  <2> QED BY <1>4, <2>1 DEF NextMatch
<1>6. e \in TradeRecord /\ e.match = match
  BY <1>5 DEF TradeRecord
<1> HIDE DEF e
<1>7. PICK s \in Seq(TradeRecord) : s = prints[l]
  BY <1>1
<1>8. /\ Append(s, e) \in Seq(TradeRecord) /\ Len(s) \in Nat /\ Len(Append(s, e)) = Len(s) + 1
      /\ DOMAIN Append(s, e) = DOMAIN s \union {Len(s) + 1}
      /\ \A i \in DOMAIN s : Append(s, e)[i] = s[i]
      /\ Append(s, e)[Len(s) + 1] = e
  BY <1>6, AppendIs
<1>9. /\ prints' \in [Locates -> Seq(TradeRecord)] /\ prints'[l] = Append(s, e)
      /\ \A k \in Locates : k # l => prints'[k] = prints[k]
  BY <1>1, <1>7, <1>8
<1>10. NextMatch' = match + 1
  <2>1. [k \in Locates |-> Len(prints'[k])] = Put(f, l, f[l] + 1)
    <3>1. \A k \in Locates : Len(prints'[k]) = IF k = l THEN f[l] + 1 ELSE f[k]
      BY <1>4, <1>7, <1>8, <1>9
    <3> QED BY <3>1 DEF Put
  <2>2. PICK n \in Nat : n = f[l] + 1
    OBVIOUS
  <2>3. Total(Put(f, l, n)) = Total(Without(f, l)) + n
    BY <1>2, TotalChange
  <2>4. Total(Without(f, l)) \in Nat /\ Total(f) = Total(Without(f, l)) + f[l]
    BY <1>2, TotalWithout
  <2>5. NextMatch' = 1 + Total(Put(f, l, n))
    BY <2>1, <2>2 DEF NextMatch
  <2>6. f[l] \in Nat
    OBVIOUS
  <2> QED BY <1>5, <2>2, <2>3, <2>4, <2>5, <2>6
<1>11. \A k \in Locates : Increasing(prints'[k])
  <2> TAKE k \in Locates
  <2>1. Increasing(prints[k])
    BY DEF PrintsOK
  <2>2. CASE k = l
    <3>1. \A i \in DOMAIN s : s[i].match < e.match
      BY <1>6, <1>7 DEF PrintsOK
    <3> QED BY <1>6, <1>7, <1>9, <2>1, <2>2, <3>1, IncreasingAppend
  <2>3. CASE k # l
    BY <1>9, <2>1, <2>3
  <2> QED BY <2>2, <2>3
<1>12. \A k \in Locates : \A i \in DOMAIN prints'[k] : prints'[k][i].match < NextMatch'
  <2> TAKE k \in Locates
  <2> TAKE i \in DOMAIN prints'[k]
  <2>1. CASE i \in DOMAIN prints[k] /\ prints'[k][i] = prints[k][i]
    <3>1. prints[k][i].match < match
      BY <2>1 DEF PrintsOK
    <3>2. prints[k] \in Seq(TradeRecord)
      BY <1>1
    <3>3. prints[k][i] \in TradeRecord
      BY <2>1, <3>2
    <3>4. prints[k][i].match \in Nat
      BY <3>3 DEF TradeRecord
    <3> QED BY <1>5, <1>10, <2>1, <3>1, <3>4
  <2>2. CASE k = l /\ i = Len(s) + 1
    BY <1>5, <1>6, <1>8, <1>9, <1>10, <2>2
  <2> QED BY <1>7, <1>8, <1>9, <2>1, <2>2
<1>13. PrintsOK'
  BY <1>9, <1>11, <1>12 DEF PrintsOK
<1> QED BY <1>5, <1>7, <1>9, <1>10, <1>13 DEF e

\* A step without an execution.
LEMMA TickersSame ==
  ASSUME TickerInv, prints' = prints, missed \subseteq missed',
         \A s \in Targets : Ticker(s)' = Ticker(s)
  PROVE  TickerInv'
<1>1. NextMatch' = NextMatch
  BY DEF NextMatch
<1>2. PrintsOK'
  BY <1>1 DEF TickerInv, PrintsOK
<1>3. \A s \in Targets : TickerOK(Ticker(s)')
  BY DEF TickerInv
<1>4. ASSUME NEW l \in Locates, Listing[l] \in Targets
      PROVE  /\ From(Ticker(Listing[l])', prints'[l])
             /\ Complete(l)' => Ticker(Listing[l])'.trades = prints'[l]
  <2>1. Complete(l)' => Complete(l)
    BY DEF Complete
  <2>2. Ticker(Listing[l])' = Ticker(Listing[l])
    BY <1>4
  <2> QED BY <1>4, <2>1, <2>2 DEF TickerInv
<1> QED BY <1>2, <1>3, <1>4 DEF TickerInv

\* A step with an execution: it reaches the ticker, or a packet of the stock
\* has been missed.
LEMMA TickersPrinted ==
  ASSUME TickerInv, NEW l \in Locates, NEW px \in Prices, NEW q \in Quantities, NEW side \in Sides,
         NEW match, match = NextMatch, Record(l, px, q, side), missed \subseteq missed',
         \A s \in Targets : s # Listing[l] => Ticker(s)' = Ticker(s),
         Listing[l] \in Targets =>
           \/ Ticker(Listing[l])' = Ticker(Listing[l]) /\ l \in missed'
           \/ Ticker(Listing[l])' = AddTrade(Ticker(Listing[l]), px, q, match, side)
  PROVE  TickerInv'
<1>1. PrintsOK
  BY DEF TickerInv
<1>2. /\ match \in Nat /\ NextMatch' = match + 1
      /\ PrintsOK'
      /\ prints'[l] = Append(prints[l], [px |-> px, qty |-> q, match |-> match, side |-> side])
      /\ \A k \in Locates : k # l => prints'[k] = prints[k]
  BY <1>1, Recorded
<1>3. PICK p \in Seq(TradeRecord) : p = prints[l]
  BY <1>1 DEF PrintsOK
<1>4. PICK e \in TradeRecord : e = [px |-> px, qty |-> q, match |-> match, side |-> side]
  BY <1>2 DEF TradeRecord
<1>5. ASSUME Listing[l] \in Targets
      PROVE  /\ TickerOK(Ticker(Listing[l])')
             /\ From(Ticker(Listing[l])', prints'[l])
             /\ Complete(l)' => Ticker(Listing[l])'.trades = prints'[l]
  <2>1. PICK t : t = Ticker(Listing[l])
    OBVIOUS
  <2>2. TickerOK(t) /\ From(t, p) /\ (Complete(l) => t.trades = p)
    BY <1>3, <1>5, <2>1 DEF TickerInv
  <2>3. CASE Ticker(Listing[l])' = t /\ l \in missed'
    <3>1. From(t, Append(p, e))
      BY <2>2, FromMore
    <3>2. ~ Complete(l)'
      BY <2>3 DEF Complete
    <3> QED BY <1>2, <1>3, <1>4, <2>2, <2>3, <3>1, <3>2
  <2>4. CASE Ticker(Listing[l])' = AddTrade(t, px, q, match, side)
    <3>1. t.trades \in Seq(TradeRecord)
      BY <2>2 DEF TickerOK
    <3>2. \A i \in DOMAIN t.trades : t.trades[i].match < match
      <4> TAKE i \in DOMAIN t.trades
      <4>1. PICK j \in DOMAIN p : t.trades[i] = p[j]
        BY <2>2 DEF From
      <4> QED BY <1>1, <1>3, <4>1 DEF PrintsOK
    <3>3. TickerOK(AddTrade(t, px, q, match, side))
      BY <1>2, <2>2, <3>2, AddTradeOK
    <3>4. From(AddTrade(t, px, q, match, side), Append(p, e))
      <4>1. From(AddTrade(t, px, q, match, side),
                 Append(p, [px |-> px, qty |-> q, match |-> match, side |-> side]))
        BY <1>2, <2>2, <3>1, FromAppend
      <4> QED BY <1>4, <4>1
    <3>5. ASSUME Complete(l)' PROVE AddTrade(t, px, q, match, side).trades = prints'[l]
      <4>1. Complete(l)
        BY <3>5 DEF Complete
      <4>2. t.trades = p
        BY <2>2, <4>1
      <4> QED BY <1>2, <1>3, <4>2 DEF AddTrade
    <3> QED BY <1>2, <1>3, <1>4, <2>4, <3>3, <3>4, <3>5
  <2> QED BY <1>5, <2>1, <2>3, <2>4
<1>6. \A s \in Targets : TickerOK(Ticker(s)')
  <2> TAKE s \in Targets
  <2>1. CASE s = Listing[l]
    BY <1>5, <2>1
  <2>2. CASE s # Listing[l]
    BY <2>2 DEF TickerInv
  <2> QED BY <2>1, <2>2
<1>7. ASSUME NEW k \in Locates, Listing[k] \in Targets
      PROVE  /\ From(Ticker(Listing[k])', prints'[k])
             /\ Complete(k)' => Ticker(Listing[k])'.trades = prints'[k]
  <2>1. CASE k = l
    BY <1>5, <1>7, <2>1
  <2>2. CASE k # l
    <3>1. Listing[k] # Listing[l]
      BY <2>2, ListingAssumption
    <3>2. Ticker(Listing[k])' = Ticker(Listing[k]) /\ prints'[k] = prints[k]
      BY <1>2, <1>7, <2>2, <3>1
    <3>3. Complete(k)' => Complete(k)
      BY DEF Complete
    <3> QED BY <1>7, <3>2, <3>3 DEF TickerInv
  <2> QED BY <2>1, <2>2
<1> QED BY <1>2, <1>6, <1>7 DEF TickerInv

\* A message that leaves a ticker as it was.
Quiet(m) ==
  \A b, t : \E c : HandleEvent([book |-> b, ticker |-> t], m) = [book |-> c, ticker |-> t]

LEMMA QuietEvents ==
  ASSUME NEW id, NEW side, NEW px, NEW q
  PROVE  /\ Quiet([kind |-> "AddOrder", id |-> id, side |-> side, qty |-> q, px |-> px])
         /\ Quiet([kind |-> "ModifyOrder", id |-> id, qty |-> q])
         /\ Quiet([kind |-> "DeleteOrder", id |-> id])
<1>1. Quiet([kind |-> "AddOrder", id |-> id, side |-> side, qty |-> q, px |-> px])
  BY AddEvent DEF Quiet
<1>2. Quiet([kind |-> "ModifyOrder", id |-> id, qty |-> q])
  <2>1. ASSUME NEW b, NEW t
        PROVE  \E c : HandleEvent([book |-> b, ticker |-> t], [kind |-> "ModifyOrder", id |-> id, qty |-> q])
                     = [book |-> c, ticker |-> t]
    <3>1. PICK c : c = CancelOrder(b, id, q)
      OBVIOUS
    <3>2. HandleEvent([book |-> b, ticker |-> t], [kind |-> "ModifyOrder", id |-> id, qty |-> q])
          = [book |-> c, ticker |-> t]
      BY <3>1, CancelEvent
    <3> QED BY <3>2
  <2> QED BY <2>1 DEF Quiet
<1>3. Quiet([kind |-> "DeleteOrder", id |-> id])
  <2>1. ASSUME NEW b, NEW t
        PROVE  \E c : HandleEvent([book |-> b, ticker |-> t], [kind |-> "DeleteOrder", id |-> id])
                     = [book |-> c, ticker |-> t]
    <3>1. PICK c : c = IF id \in DOMAIN b.orders THEN CancelOrder(b, id, b.orders[id].qty)
                      ELSE b
      OBVIOUS
    <3>2. HandleEvent([book |-> b, ticker |-> t], [kind |-> "DeleteOrder", id |-> id])
          = [book |-> c, ticker |-> t]
      BY <3>1, DeleteEvent
    <3> QED BY <3>2
  <2> QED BY <2>1 DEF Quiet
<1> QED BY <1>1, <1>2, <1>3

\* The packet of a change without an execution leaves all tickers as they were.
LEMMA QuietStep ==
  ASSUME BookInv, TickerInv, NEW l \in Locates, NEW data, Emit(data),
         data[0] # "R", data[1] = l, Field(data, 1) = l,
         NEW m, Parse(data) = m, m.kind # "StockDirectory",
         m.kind = "None" => data[0] \in {"F", "U"},
         m.kind # "None" => Quiet(m), prints' = prints
  PROVE  TickerInv'
<1>1. Shapes /\ Routed
  BY DEF BookInv
<1>2. /\ missed \subseteq missed'
      /\ \A s \in Targets : s # Listing[l] => processors'[s] = processors[s]
      /\ Listing[l] \in Targets =>
           \/ processors'[Listing[l]] = processors[Listing[l]] /\ l \in missed'
           \/ /\ m.kind # "None"
              /\ processors'[Listing[l]] = HandleEvent(processors[Listing[l]], m)
  BY <1>1, Effect
<1>3. \A s \in Targets : Ticker(s)' = Ticker(s)
  <2> TAKE s \in Targets
  <2>1. CASE processors'[s] = processors[s]
    BY <2>1 DEF Ticker
  <2>2. CASE m.kind # "None" /\ processors'[s] = HandleEvent(processors[s], m)
    <3>1. PICK b, t : b = Book(s) /\ t = Ticker(s)
      OBVIOUS
    <3>2. processors[s] = [book |-> b, ticker |-> t]
      BY <1>1, <3>1 DEF Shapes
    <3>3. PICK c : HandleEvent([book |-> b, ticker |-> t], m) = [book |-> c, ticker |-> t]
      <4>1. Quiet(m)
        BY <2>2
      <4> QED BY <4>1 DEF Quiet
    <3>4. processors'[s] = [book |-> c, ticker |-> t]
      BY <2>2, <3>2, <3>3
    <3> QED BY <3>1, <3>4 DEF Ticker
  <2> QED BY <1>2, <2>1, <2>2
<1> QED BY <1>2, <1>3, TickersSame

\* The packet of an execution adds it to the ticker of its stock, or the
\* engine has missed a packet of that stock.
LEMMA LoudStep ==
  ASSUME BookInv, TickerInv, NEW l \in Locates, NEW data, Emit(data),
         data[0] # "R", data[1] = l, Field(data, 1) = l,
         NEW m, Parse(data) = m, m.kind # "StockDirectory", m.kind # "None",
         NEW px \in Prices, NEW q \in Quantities, NEW side \in Sides,
         NEW match, match = NextMatch, Record(l, px, q, side),
         Listing[l] \in Targets =>
           \E c, u : /\ HandleEvent(processors[Listing[l]], m) = [book |-> c, ticker |-> u]
                     /\ \/ u = Ticker(Listing[l]) /\ l \in missed
                        \/ u = AddTrade(Ticker(Listing[l]), px, q, match, side)
  PROVE  TickerInv'
<1>1. Shapes /\ Routed
  BY DEF BookInv
<1>2. /\ missed \subseteq missed'
      /\ \A s \in Targets : s # Listing[l] => processors'[s] = processors[s]
      /\ Listing[l] \in Targets =>
           \/ processors'[Listing[l]] = processors[Listing[l]] /\ l \in missed'
           \/ processors'[Listing[l]] = HandleEvent(processors[Listing[l]], m)
  BY <1>1, Effect
<1>3. \A s \in Targets : s # Listing[l] => Ticker(s)' = Ticker(s)
  BY <1>2 DEF Ticker
<1>4. ASSUME Listing[l] \in Targets
      PROVE  \/ Ticker(Listing[l])' = Ticker(Listing[l]) /\ l \in missed'
             \/ Ticker(Listing[l])' = AddTrade(Ticker(Listing[l]), px, q, match, side)
  <2>1. CASE processors'[Listing[l]] = processors[Listing[l]] /\ l \in missed'
    BY <2>1 DEF Ticker
  <2>2. CASE processors'[Listing[l]] = HandleEvent(processors[Listing[l]], m)
    <3>1. PICK c, u : /\ HandleEvent(processors[Listing[l]], m) = [book |-> c, ticker |-> u]
                      /\ \/ u = Ticker(Listing[l]) /\ l \in missed
                         \/ u = AddTrade(Ticker(Listing[l]), px, q, match, side)
      BY <1>4
    <3>2. Ticker(Listing[l])' = u
      BY <2>2, <3>1 DEF Ticker
    <3> QED BY <1>2, <3>1, <3>2
  <2> QED BY <1>2, <1>4, <2>1, <2>2
<1> QED BY <1>2, <1>3, <1>4, TickersPrinted

\* A ticker begins empty.
LEMMA NewTickerOK == TickerOK(NewTicker) /\ NewTicker.trades = <<>>
<1>1. NewTicker.trades = <<>> /\ NewTicker.volume = 0
  BY DEF NewTicker
<1>2. \A i \in DOMAIN <<>> : FALSE
  OBVIOUS
<1> QED BY <1>1, <1>2, NoVolume DEF TickerOK, Increasing

LEMMA TickerInit == Init => TickerInv
<1> SUFFICES ASSUME Init PROVE TickerInv
  OBVIOUS
<1>1. \A s \in Targets : Ticker(s) = NewTicker
  BY DEF Init, Ticker, NewProcessor
<1>2. \A l \in Locates : prints[l] = <<>> /\ DOMAIN prints[l] = {}
  BY DEF Init
<1>3. PrintsOK
  <2>1. <<>> \in Seq(TradeRecord)
    BY NoVolume
  <2>2. prints \in [Locates -> Seq(TradeRecord)]
    BY <2>1 DEF Init
  <2> QED BY <1>2, <2>2 DEF PrintsOK, Increasing
<1>4. \A s \in Targets : TickerOK(Ticker(s))
  BY <1>1, NewTickerOK
<1>5. ASSUME NEW l \in Locates, Listing[l] \in Targets
      PROVE  From(Ticker(Listing[l]), prints[l]) /\ Ticker(Listing[l]).trades = prints[l]
  <2>1. Ticker(Listing[l]).trades = <<>>
    BY <1>1, <1>5, NewTickerOK
  <2> QED BY <1>2, <2>1 DEF From
<1> QED BY <1>3, <1>4, <1>5 DEF TickerInv

\* The engine starts again: it has missed every execution of before.
LEMMA TickerRestart == ASSUME TickerInv, Restart PROVE TickerInv'
<1>1. \A s \in Targets : Ticker(s)' = NewTicker
  BY DEF Restart, Ticker, NewProcessor
<1>2. prints' = prints /\ NextMatch' = NextMatch
  BY DEF Restart, exchangeVars, NextMatch
<1>3. PrintsOK'
  BY <1>2 DEF TickerInv, PrintsOK
<1>4. \A s \in Targets : TickerOK(Ticker(s)')
  BY <1>1, NewTickerOK
<1>5. ASSUME NEW l \in Locates, Listing[l] \in Targets
      PROVE  /\ From(Ticker(Listing[l])', prints'[l])
             /\ Complete(l)' => Ticker(Listing[l])'.trades = prints'[l]
  <2>1. Ticker(Listing[l])'.trades = <<>>
    BY <1>1, <1>5, NewTickerOK
  <2>2. DOMAIN <<>> = {}
    OBVIOUS
  <2>3. Complete(l)' => prints[l] = <<>>
    BY DEF Complete, Restart
  <2> QED BY <1>2, <2>1, <2>2, <2>3 DEF From
<1> QED BY <1>3, <1>4, <1>5 DEF TickerInv

LEMMA TickerList ==
  ASSUME BookInv, TickerInv, NEW l \in Locates, List(l)
  PROVE  TickerInv'
<1> DEFINE data == DirectoryPacket(l)
<1>1. /\ Parse(data) = [kind |-> "StockDirectory", symbol |-> Listing[l]]
      /\ data[0] = "R"
  BY DirectoryParsed
<1> HIDE DEF data
<1>2. Emit(data) /\ prints' = prints
  BY DEF List, exchangeVars, data
<1>3. processors' = processors /\ missed' = missed
  <2>1. CASE Lose(data)
    BY <1>1, <2>1 DEF Lose, engineVars
  <2>2. CASE Arrive(data)
    BY <1>1, <2>2 DEF Arrive, HandleRawPacket, HandleStockDirectory, engineVars
  <2> QED BY <1>2, <2>1, <2>2 DEF Emit
<1>4. \A s \in Targets : Ticker(s)' = Ticker(s)
  BY <1>3 DEF Ticker
<1> QED BY <1>2, <1>3, <1>4, TickersSame

LEMMA TickerAdd ==
  ASSUME BookInv, TickerInv, NEW l \in Locates, NEW id \in Ids, NEW side \in Sides,
         NEW px \in Prices, NEW q \in Quantities, Add(l, id, side, px, q)
  PROVE  TickerInv'
<1>1. prints' = prints
  BY DEF Add
<1>2. PICK type \in {"A", "F"} : Emit(AddPacket(type, l, id, Byte(side), px, q))
  BY DEF Add
<1>3. PICK data : data = AddPacket(type, l, id, Byte(side), px, q)
  OBVIOUS
<1>4. Emit(data)
  BY <1>2, <1>3
<1>5. CASE type = "A"
  <2>1. PICK m : m = [kind |-> "AddOrder", id |-> id, side |-> side, qty |-> q, px |-> px]
    OBVIOUS
  <2>2. Parse(data) = m /\ data[0] = "A" /\ data[1] = l /\ Field(data, 1) = l
    BY <1>3, <1>5, <2>1, AddParsed
  <2>3. m.kind = "AddOrder"
    BY <2>1
  <2>4. Quiet(m)
    BY <2>1, QuietEvents
  <2> QED BY <1>1, <1>4, <2>2, <2>3, <2>4, QuietStep
<1>6. CASE type = "F"
  <2>1. PICK m : m = NoMessage
    OBVIOUS
  <2>2. Parse(data) = m /\ data[0] = "F" /\ data[1] = l /\ Field(data, 1) = l
    BY <1>3, <1>6, <2>1, AttributedNotParsed
  <2>3. m.kind = "None"
    BY <2>1 DEF NoMessage
  <2> QED BY <1>1, <1>4, <2>2, <2>3, QuietStep
<1> QED BY <1>2, <1>5, <1>6

LEMMA TickerCancel ==
  ASSUME BookInv, TickerInv, NEW id \in Ids, NEW q \in Quantities, Cancel(id, q)
  PROVE  TickerInv'
<1>1. id \in DOMAIN venue /\ Emit(CancelPacket(venue[id].locate, id, q)) /\ prints' = prints
  BY DEF Cancel
<1>2. PICK l \in Locates : l = venue[id].locate
  BY <1>1 DEF BookInv, Resting
<1>3. PICK data : data = CancelPacket(l, id, q)
  OBVIOUS
<1>4. PICK m : m = [kind |-> "ModifyOrder", id |-> id, qty |-> q]
  OBVIOUS
<1>5. Parse(data) = m /\ data[0] = "X" /\ data[1] = l /\ Field(data, 1) = l
  BY <1>3, <1>4, CancelParsed
<1>6. m.kind = "ModifyOrder" /\ Emit(data)
  BY <1>1, <1>2, <1>3, <1>4
<1>7. Quiet(m)
  BY <1>4, QuietEvents
<1> QED BY <1>1, <1>5, <1>6, <1>7, QuietStep

LEMMA TickerDelete ==
  ASSUME BookInv, TickerInv, NEW id \in Ids, Delete(id)
  PROVE  TickerInv'
<1>1. id \in DOMAIN venue /\ Emit(DeletePacket(venue[id].locate, id)) /\ prints' = prints
  BY DEF Delete
<1>2. PICK l \in Locates : l = venue[id].locate
  BY <1>1 DEF BookInv, Resting
<1>3. PICK data : data = DeletePacket(l, id)
  OBVIOUS
<1>4. PICK m : m = [kind |-> "DeleteOrder", id |-> id]
  OBVIOUS
<1>5. Parse(data) = m /\ data[0] = "D" /\ data[1] = l /\ Field(data, 1) = l
  BY <1>3, <1>4, DeleteParsed
<1>6. m.kind = "DeleteOrder" /\ Emit(data)
  BY <1>1, <1>2, <1>3, <1>4
<1>7. Quiet(m)
  BY <1>4, QuietEvents
<1> QED BY <1>1, <1>5, <1>6, <1>7, QuietStep

LEMMA TickerReplace ==
  ASSUME BookInv, TickerInv, NEW id \in Ids, NEW new \in Ids, NEW px \in Prices,
         NEW q \in Quantities, Replace(id, new, px, q)
  PROVE  TickerInv'
<1>1. id \in DOMAIN venue /\ Emit(ReplacePacket(venue[id].locate, id, new, px, q)) /\ prints' = prints
  BY DEF Replace
<1>2. PICK l \in Locates : l = venue[id].locate
  BY <1>1 DEF BookInv, Resting
<1>3. PICK data : data = ReplacePacket(l, id, new, px, q)
  OBVIOUS
<1>4. PICK m : m = NoMessage
  OBVIOUS
<1>5. Parse(data) = m /\ data[0] = "U" /\ data[1] = l /\ Field(data, 1) = l
  BY <1>3, <1>4, ReplaceNotParsed
<1>6. m.kind = "None" /\ Emit(data)
  BY <1>1, <1>2, <1>3, <1>4 DEF NoMessage
<1> QED BY <1>1, <1>5, <1>6, QuietStep

\* An order that the book of its stock does not know, or shows as it is.
LEMMA Known ==
  ASSUME BookInv, NEW id \in DOMAIN venue, NEW l \in Locates, l = venue[id].locate,
         Listing[l] \in Targets, NEW b, b = Book(Listing[l])
  PROVE  IF id \in DOMAIN b.orders
         THEN b.orders[id].px = venue[id].px /\ b.orders[id].side = venue[id].side
         ELSE l \in missed
<1>1. Resting /\ NotShort(b, Listing[l])
  BY DEF BookInv
<1>2. CASE id \in DOMAIN b.orders
  BY <1>1, <1>2 DEF NotShort, Resting
<1>3. CASE id \notin DOMAIN b.orders
  <2>1. ~ Mirrors(b, l)
    BY <1>3 DEF Mirrors
  <2> QED BY <1>3, <2>1 DEF BookInv, Complete
<1> QED BY <1>2, <1>3

LEMMA AggressorType ==
  ASSUME NEW side PROVE Aggressor(side) \in Sides
BY DEF Aggressor, Sides

LEMMA TickerExecute ==
  ASSUME BookInv, TickerInv, NEW id \in Ids, NEW q \in Quantities, Execute(id, q)
  PROVE  TickerInv'
<1>1. /\ id \in DOMAIN venue
      /\ Record(venue[id].locate, venue[id].px, q, Aggressor(venue[id].side))
      /\ Emit(ExecutedPacket(venue[id].locate, id, q, NextMatch))
  BY DEF Execute
<1>2. PICK match : match = NextMatch
  OBVIOUS
<1>3. PICK l \in Locates, px \in Prices, side \in Sides :
        l = venue[id].locate /\ px = venue[id].px /\ side = Aggressor(venue[id].side)
  <2>1. venue[id].locate \in Locates /\ venue[id].px \in Prices
    BY <1>1 DEF BookInv, Resting
  <2> QED BY <2>1, AggressorType
<1>4. PICK data : data = ExecutedPacket(l, id, q, match)
  OBVIOUS
<1>5. PICK m : m = [kind |-> "OrderExecuted", id |-> id, qty |-> q, match |-> match]
  OBVIOUS
<1>6. Parse(data) = m /\ data[0] = "E" /\ data[0] # "R" /\ data[1] = l /\ Field(data, 1) = l
  BY <1>4, <1>5, ExecutedParsed
<1>7. m.kind # "StockDirectory" /\ m.kind # "None"
  BY <1>5
<1>8. Emit(data) /\ Record(l, px, q, side)
  BY <1>1, <1>2, <1>3, <1>4
<1>9. ASSUME Listing[l] \in Targets
      PROVE  \E c, u : /\ HandleEvent(processors[Listing[l]], m) = [book |-> c, ticker |-> u]
                       /\ \/ u = Ticker(Listing[l]) /\ l \in missed
                          \/ u = AddTrade(Ticker(Listing[l]), px, q, match, side)
  <2>1. PICK b, t : b = Book(Listing[l]) /\ t = Ticker(Listing[l])
    OBVIOUS
  <2>2. processors[Listing[l]] = [book |-> b, ticker |-> t]
    BY <1>9, <2>1 DEF BookInv, Shapes
  <2>3. HandleEvent([book |-> b, ticker |-> t], m)
        = [book |-> CancelOrder(b, id, q),
           ticker |-> IF id \in DOMAIN b.orders
                      THEN AddTrade(t, b.orders[id].px, q, match, Aggressor(b.orders[id].side))
                      ELSE t]
    BY <1>5, ExecutedEvent
  <2>4. IF id \in DOMAIN b.orders
        THEN b.orders[id].px = venue[id].px /\ b.orders[id].side = venue[id].side
        ELSE l \in missed
    BY <1>1, <1>3, <1>9, <2>1, Known
  <2>5. CASE id \in DOMAIN b.orders
    <3>1. b.orders[id].px = px /\ Aggressor(b.orders[id].side) = side
      BY <1>3, <2>4, <2>5
    <3>2. HandleEvent([book |-> b, ticker |-> t], m)
          = [book |-> CancelOrder(b, id, q), ticker |-> AddTrade(t, px, q, match, side)]
      BY <2>3, <2>5, <3>1
    <3> QED BY <2>1, <2>2, <3>2
  <2>6. CASE id \notin DOMAIN b.orders
    <3>1. HandleEvent([book |-> b, ticker |-> t], m) = [book |-> CancelOrder(b, id, q), ticker |-> t]
      BY <2>3, <2>6
    <3> QED BY <2>1, <2>2, <2>4, <2>6, <3>1
  <2> QED BY <2>5, <2>6
<1> QED BY <1>2, <1>6, <1>7, <1>8, <1>9, LoudStep

LEMMA TickerExecuteAt ==
  ASSUME BookInv, TickerInv, NEW id \in Ids, NEW q \in Quantities, NEW px \in Prices,
         ExecuteAt(id, q, px)
  PROVE  TickerInv'
<1>1. /\ id \in DOMAIN venue
      /\ Record(venue[id].locate, px, q, Aggressor(venue[id].side))
      /\ Emit(ExecutedAtPacket(venue[id].locate, id, q, px, NextMatch))
  BY DEF ExecuteAt
<1>2. PICK match : match = NextMatch
  OBVIOUS
<1>3. PICK l \in Locates, side \in Sides :
        l = venue[id].locate /\ side = Aggressor(venue[id].side)
  <2>1. venue[id].locate \in Locates
    BY <1>1 DEF BookInv, Resting
  <2> QED BY <2>1, AggressorType
<1>4. PICK data : data = ExecutedAtPacket(l, id, q, px, match)
  OBVIOUS
<1>5. PICK m : m = [kind |-> "OrderExecutedWithPrice", id |-> id, qty |-> q, match |-> match,
                    px |-> px]
  OBVIOUS
<1>6. Parse(data) = m /\ data[0] = "C" /\ data[0] # "R" /\ data[1] = l /\ Field(data, 1) = l
  BY <1>4, <1>5, ExecutedAtParsed
<1>7. m.kind # "StockDirectory" /\ m.kind # "None"
  BY <1>5
<1>8. Emit(data) /\ Record(l, px, q, side)
  BY <1>1, <1>2, <1>3, <1>4
<1>9. ASSUME Listing[l] \in Targets
      PROVE  \E c, u : /\ HandleEvent(processors[Listing[l]], m) = [book |-> c, ticker |-> u]
                       /\ \/ u = Ticker(Listing[l]) /\ l \in missed
                          \/ u = AddTrade(Ticker(Listing[l]), px, q, match, side)
  <2>1. PICK b, t : b = Book(Listing[l]) /\ t = Ticker(Listing[l])
    OBVIOUS
  <2>2. processors[Listing[l]] = [book |-> b, ticker |-> t]
    BY <1>9, <2>1 DEF BookInv, Shapes
  <2>3. HandleEvent([book |-> b, ticker |-> t], m)
        = [book |-> CancelOrder(b, id, q),
           ticker |-> IF id \in DOMAIN b.orders
                      THEN AddTrade(t, px, q, match, Aggressor(b.orders[id].side))
                      ELSE t]
    BY <1>5, ExecutedAtEvent
  <2>4. IF id \in DOMAIN b.orders
        THEN b.orders[id].px = venue[id].px /\ b.orders[id].side = venue[id].side
        ELSE l \in missed
    BY <1>1, <1>3, <1>9, <2>1, Known
  <2>5. CASE id \in DOMAIN b.orders
    <3>1. Aggressor(b.orders[id].side) = side
      BY <1>3, <2>4, <2>5
    <3>2. HandleEvent([book |-> b, ticker |-> t], m)
          = [book |-> CancelOrder(b, id, q), ticker |-> AddTrade(t, px, q, match, side)]
      BY <2>3, <2>5, <3>1
    <3> QED BY <2>1, <2>2, <3>2
  <2>6. CASE id \notin DOMAIN b.orders
    <3>1. HandleEvent([book |-> b, ticker |-> t], m) = [book |-> CancelOrder(b, id, q), ticker |-> t]
      BY <2>3, <2>6
    <3> QED BY <2>1, <2>2, <2>4, <2>6, <3>1
  <2> QED BY <2>5, <2>6
<1> QED BY <1>2, <1>6, <1>7, <1>8, <1>9, LoudStep

LEMMA TickerTrade ==
  ASSUME BookInv, TickerInv, NEW l \in Locates, NEW side \in Sides, NEW px \in Prices,
         NEW q \in Quantities, TradeHidden(l, side, px, q)
  PROVE  TickerInv'
<1>1. Emit(TradePacket(l, Byte(side), px, q, NextMatch)) /\ Record(l, px, q, side)
  BY DEF TradeHidden
<1>2. PICK match : match = NextMatch
  OBVIOUS
<1>3. PICK data : data = TradePacket(l, Byte(side), px, q, match)
  OBVIOUS
<1>4. PICK m : m = [kind |-> "Trade", side |-> side, qty |-> q, px |-> px, match |-> match]
  OBVIOUS
<1>5. Parse(data) = m /\ data[0] = "P" /\ data[0] # "R" /\ data[1] = l /\ Field(data, 1) = l
  BY <1>3, <1>4, TradeParsed
<1>6. m.kind # "StockDirectory" /\ m.kind # "None"
  BY <1>4
<1>7. Emit(data)
  BY <1>1, <1>2, <1>3
<1>8. ASSUME Listing[l] \in Targets
      PROVE  \E c, u : /\ HandleEvent(processors[Listing[l]], m) = [book |-> c, ticker |-> u]
                       /\ \/ u = Ticker(Listing[l]) /\ l \in missed
                          \/ u = AddTrade(Ticker(Listing[l]), px, q, match, side)
  <2>1. PICK b, t : b = Book(Listing[l]) /\ t = Ticker(Listing[l])
    OBVIOUS
  <2>2. processors[Listing[l]] = [book |-> b, ticker |-> t]
    BY <1>8, <2>1 DEF BookInv, Shapes
  <2>3. HandleEvent([book |-> b, ticker |-> t], m)
        = [book |-> b, ticker |-> AddTrade(t, px, q, match, side)]
    BY <1>4, TradeEvent
  <2> QED BY <2>1, <2>2, <2>3
<1> QED BY <1>1, <1>2, <1>5, <1>6, <1>7, <1>8, LoudStep

LEMMA TickerStep == BookInv /\ TickerInv /\ [Next]_vars => TickerInv'
<1> SUFFICES ASSUME BookInv, TickerInv, [Next]_vars PROVE TickerInv'
  OBVIOUS
<1>1. CASE Restart
  BY <1>1, TickerRestart
<1>2. ASSUME NEW l \in Locates, List(l) PROVE TickerInv'
  BY <1>2, TickerList
<1>3. ASSUME NEW l \in Locates, NEW id \in Ids, NEW side \in Sides, NEW px \in Prices,
             NEW q \in Quantities, Add(l, id, side, px, q)
      PROVE  TickerInv'
  BY <1>3, TickerAdd
<1>4. ASSUME NEW l \in Locates, NEW side \in Sides, NEW px \in Prices, NEW q \in Quantities,
             TradeHidden(l, side, px, q)
      PROVE  TickerInv'
  BY <1>4, TickerTrade
<1>5. ASSUME NEW id \in Ids, NEW q \in Quantities, Cancel(id, q) PROVE TickerInv'
  BY <1>5, TickerCancel
<1>6. ASSUME NEW id \in Ids, NEW q \in Quantities, Execute(id, q) PROVE TickerInv'
  BY <1>6, TickerExecute
<1>7. ASSUME NEW id \in Ids, NEW q \in Quantities, NEW px \in Prices, ExecuteAt(id, q, px)
      PROVE  TickerInv'
  BY <1>7, TickerExecuteAt
<1>8. ASSUME NEW id \in Ids, Delete(id) PROVE TickerInv'
  BY <1>8, TickerDelete
<1>9. ASSUME NEW id \in Ids, NEW new \in Ids, NEW px \in Prices, NEW q \in Quantities,
             Replace(id, new, px, q)
      PROVE  TickerInv'
  BY <1>9, TickerReplace
<1>10. CASE UNCHANGED vars
  <2>1. prints' = prints /\ missed' = missed /\ processors' = processors
    BY <1>10 DEF vars
  <2>2. \A s \in Targets : Ticker(s)' = Ticker(s)
    BY <2>1 DEF Ticker
  <2> QED BY <2>1, <2>2, TickersSame
<1> QED BY <1>1, <1>2, <1>3, <1>4, <1>5, <1>6, <1>7, <1>8, <1>9, <1>10 DEF Next

\* The invariant of the tickers, which needs that of the books: the price and
\* the aggressor of an execution are taken from the order in the book.
THEOREM TickerInvariance == Spec => []TickerInv
<1>1. Init => TickerInv
  BY TickerInit
<1>2. BookInv /\ TickerInv /\ [Next]_vars => TickerInv'
  BY TickerStep
<1> QED BY <1>1, <1>2, BookInvariance, PTL DEF Spec

\* TickerGenuine: a ticker holds executions of its own stock, each once and
\* in their order, with their volume and the last price -- all of them if no
\* packet of the stock was missed.
THEOREM TickerGenuineHolds == Spec => []TickerGenuine
<1>1. ASSUME TickerInv, NEW l \in Locates, Listing[l] \in Targets, NEW t, t = Ticker(Listing[l])
      PROVE  /\ \A i \in DOMAIN t.trades : \E j \in DOMAIN prints[l] : t.trades[i] = prints[l][j]
             /\ \A i, j \in DOMAIN t.trades : i < j => t.trades[i].match < t.trades[j].match
             /\ t.volume = Total([i \in DOMAIN t.trades |-> t.trades[i].qty])
             /\ t.trades # <<>> => t.last = t.trades[Len(t.trades)].px
             /\ Complete(l) => t.trades = prints[l]
  <2>1. TickerOK(t) /\ From(t, prints[l]) /\ (Complete(l) => t.trades = prints[l])
    BY <1>1 DEF TickerInv
  <2> QED BY <2>1 DEF TickerOK, From, Increasing, Volumes
<1>2. TickerInv => TickerGenuine
  BY <1>1 DEF TickerGenuine
<1> QED BY <1>2, TickerInvariance, PTL

\* TypeOK of Feed.
THEOREM FeedTypeOK == Spec => []TypeOK
<1>1. ASSUME BookInv, TickerInv PROVE TypeOK
  <2>1. \A l \in Locates : lookup[l] \in {None, Listing[l]}
    BY <1>1 DEF BookInv, Shapes
  <2>2. ASSUME NEW s \in Targets, NEW id \in DOMAIN Book(s).orders
        PROVE  Book(s).orders[id] \in [side : Sides, px : Prices, qty : 1 .. Word - 1]
    <3>1. Book(s).orders[id] \in [side : Sides, px : Prices, qty : 1 .. Most]
      BY <1>1, <2>2 DEF BookInv, Books, BookOK, OrdersOK
    <3>2. 1 .. Most \subseteq 1 .. Word - 1
      BY MostIs, WordAssumption
    <3> QED BY <3>1, <3>2
  <2>3. \A s \in Targets, side \in Sides : DOMAIN Book(s).levels[side] \subseteq Prices
    BY <1>1 DEF BookInv, Books, BookOK, LevelsTyped
  <2>4. \A s \in Targets : Ticker(s).volume \in Nat
    BY <1>1 DEF TickerInv, TickerOK
  <2> QED BY <2>1, <2>2, <2>3, <2>4 DEF TypeOK
<1> QED BY <1>1, BookInvariance, TickerInvariance, PTL

=============================================================================
