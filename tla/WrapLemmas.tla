---------------------------- MODULE WrapLemmas ----------------------------
(***************************************************************************)
(* Arithmetic of an index that wraps: what  n & (capacity - 1)  gives in   *)
(* ShmRing::read and ShmRing::write, a remainder when the capacity is a    *)
(* power of two.                                                           *)
(***************************************************************************)
EXTENDS Integers, TLAPS

\* Quotient and remainder determine the number.
LEMMA DivMod ==
  ASSUME NEW C \in Nat, C > 0, NEW n \in Nat
  PROVE  /\ n \div C \in Nat
         /\ (n % C) \in 0 .. C - 1
         /\ n = C * (n \div C) + (n % C)
  OBVIOUS

\* A whole number of turns is at least one turn.
LEMMA Turn == ASSUME NEW C \in Nat, NEW d \in Int, d >= 1 PROVE C * d >= C
  OBVIOUS

LEMMA Distribute ==
  ASSUME NEW C \in Nat, NEW x \in Int, NEW y \in Int
  PROVE  C * (x - y) = C * x - C * y
  OBVIOUS

\* A number has one quotient and one remainder.
LEMMA Unique ==
  ASSUME NEW C \in Nat, NEW x \in Int, NEW y \in Int,
         NEW r \in 0 .. C - 1, NEW s \in 0 .. C - 1,
         C * x + r = C * y + s
  PROVE  x = y /\ r = s
<1>1. C * x \in Int /\ C * y \in Int
  OBVIOUS
<1>2. ~(x - y >= 1)
  <2> SUFFICES ASSUME x - y >= 1 PROVE FALSE OBVIOUS
  <2>1. C * (x - y) = C * x - C * y
    BY Distribute
  <2>2. C * (x - y) >= C
    BY Turn
  <2> QED BY <2>1, <2>2, <1>1
<1>3. ~(y - x >= 1)
  <2> SUFFICES ASSUME y - x >= 1 PROVE FALSE OBVIOUS
  <2>1. C * (y - x) = C * y - C * x
    BY Distribute
  <2>2. C * (y - x) >= C
    BY Turn
  <2> QED BY <2>1, <2>2, <1>1
<1>4. x = y
  BY <1>2, <1>3
<1> QED BY <1>1, <1>4

\* Two messages less than one lap apart have different slots.
LEMMA SameSlot ==
  ASSUME NEW C \in Nat, C > 0, NEW a \in Nat, NEW b \in Nat,
         a <= b, b - a < C, (a % C) = (b % C)
  PROVE  a = b
<1>1. /\ a \div C \in Nat /\ b \div C \in Nat
      /\ a = C * (a \div C) + (a % C) /\ b = C * (b \div C) + (b % C)
  BY DivMod
<1>2. C * (a \div C) + (b - a) = C * (b \div C) + 0
  <2>1. C * (a \div C) \in Int /\ C * (b \div C) \in Int
    BY <1>1
  <2> QED BY <1>1, <2>1
<1>3. b - a \in 0 .. C - 1 /\ 0 \in 0 .. C - 1
  OBVIOUS
<1>4. a \div C \in Int /\ b \div C \in Int
  BY <1>1
<1>5. b - a = 0
  BY <1>2, <1>3, <1>4, Unique, Zenon
<1> QED BY <1>5

\* Messages one lap apart share a slot.
LEMMA NextLap ==
  ASSUME NEW C \in Nat, C > 0, NEW n \in Nat
  PROVE  ((n + C) % C) = (n % C)
<1> DEFINE m == n + C
<1>1. m \in Nat
  OBVIOUS
<1>2. /\ n \div C \in Nat /\ m \div C \in Nat
      /\ (n % C) \in 0 .. C - 1 /\ (m % C) \in 0 .. C - 1
      /\ n = C * (n \div C) + (n % C) /\ m = C * (m \div C) + (m % C)
  BY DivMod, <1>1
<1>3. PICK q \in Int : q = (n \div C) + 1
  BY <1>2
<1>4. C * q + (n % C) = C * (m \div C) + (m % C)
  <2>1. C * q = C * (n \div C) + C /\ C * (n \div C) \in Int
    BY <1>2, <1>3
  <2> QED BY <1>2, <2>1
<1>5. /\ m \div C \in Int
      /\ (n % C) \in 0 .. C - 1 /\ (m % C) \in 0 .. C - 1
  BY <1>2
<1>6. (n % C) = (m % C)
  BY <1>4, <1>5, Unique, Zenon
<1> QED BY <1>6

=============================================================================
