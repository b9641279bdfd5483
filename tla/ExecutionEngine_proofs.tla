------------------------ MODULE ExecutionEngine_proofs ------------------------
(***************************************************************************)
(* Safety of ExecutionEngine, for any size of the structs, the buffers,    *)
(* the connection and the ring.                                            *)
(***************************************************************************)
EXTENDS ExecutionEngine, SequenceTheorems, WrapLemmas

----------------------------------------------------------------------------
(* Cutting and joining.                                                    *)

\* The two parts of a sequence, cut after n elements.
LEMMA Cut ==
  ASSUME NEW S, NEW s \in Seq(S), NEW n \in 0 .. Len(s)
  PROVE  /\ FirstOf(s, n) \in Seq(S) /\ After(s, n) \in Seq(S)
         /\ Len(FirstOf(s, n)) = n /\ Len(After(s, n)) = Len(s) - n
         /\ \A i \in 1 .. n : FirstOf(s, n)[i] = s[i]
         /\ \A i \in 1 .. Len(s) - n : After(s, n)[i] = s[n + i]
<1>1. Len(s) \in Nat /\ \A i \in 1 .. Len(s) : s[i] \in S
  BY LenProperties, ElementOfSeq
<1>2. /\ FirstOf(s, n) \in Seq(S)
      /\ Len(FirstOf(s, n)) = n
      /\ \A i \in 1 .. n : FirstOf(s, n)[i] = s[i]
  <2>1. \A i \in 1 .. n : s[i] \in S
    BY <1>1
  <2>2. /\ SubSeq(s, 1, n) \in Seq(S)
        /\ Len(SubSeq(s, 1, n)) = IF 1 <= n THEN n - 1 + 1 ELSE 0
        /\ \A i \in 1 .. n - 1 + 1 : SubSeq(s, 1, n)[i] = s[1 + i - 1]
    BY <2>1, SubSeqProperties
  <2>3. n \in Nat /\ n - 1 + 1 = n /\ (~(1 <= n) => n = 0)
    BY <1>1
  <2>4. \A i \in 1 .. n : 1 + i - 1 = i
    BY <2>3
  <2> QED BY <2>2, <2>3, <2>4 DEF FirstOf
<1>3. /\ After(s, n) \in Seq(S)
      /\ Len(After(s, n)) = Len(s) - n
      /\ \A i \in 1 .. Len(s) - n : After(s, n)[i] = s[n + i]
  <2>1. \A i \in n + 1 .. Len(s) : s[i] \in S
    BY <1>1
  <2>2. /\ SubSeq(s, n + 1, Len(s)) \in Seq(S)
        /\ Len(SubSeq(s, n + 1, Len(s))) = IF n + 1 <= Len(s) THEN Len(s) - (n + 1) + 1 ELSE 0
        /\ \A i \in 1 .. Len(s) - (n + 1) + 1 : SubSeq(s, n + 1, Len(s))[i] = s[n + 1 + i - 1]
    BY <1>1, <2>1, SubSeqProperties
  <2>3. Len(s) - (n + 1) + 1 = Len(s) - n /\ (~(n + 1 <= Len(s)) => Len(s) - n = 0)
    BY <1>1
  <2>4. \A i \in 1 .. Len(s) - n : n + 1 + i - 1 = n + i
    BY <1>1
  <2> QED BY <2>2, <2>3, <2>4 DEF After
<1> QED BY <1>2, <1>3

\* Bytes joined in either grouping are the same bytes.
LEMMA Regrouped ==
  \A x, y, z \in Seq(Byte) : (x \o y) \o z = x \o (y \o z)
BY ConcatAssociative, SMT

LEMMA RegroupedFour ==
  \A b, f, t, r \in Seq(Byte) : (b \o f) \o (t \o r) = b \o ((f \o t) \o r)
<1> TAKE b, f, t, r \in Seq(Byte)
<1>1. t \o r \in Seq(Byte)
  BY ConcatProperties
<1>2. \A y, z \in Seq(Byte) : (b \o y) \o z = b \o (y \o z)
  BY Regrouped, Zenon
<1>3. \A z \in Seq(Byte) : (b \o f) \o z = b \o (f \o z)
  BY <1>2, Zenon
<1>4. (b \o f) \o (t \o r) = b \o (f \o (t \o r))
  BY <1>1, <1>3, Zenon
<1>5. \A y, z \in Seq(Byte) : (f \o y) \o z = f \o (y \o z)
  BY Regrouped, Zenon
<1>6. \A z \in Seq(Byte) : (f \o t) \o z = f \o (t \o z)
  BY <1>5, Zenon
<1>7. (f \o t) \o r = f \o (t \o r)
  BY <1>6, Zenon
<1> QED BY <1>4, <1>7, Zenon

\* Moving the front of b to the end of a leaves what they hold together.
LEMMA Moved ==
  ASSUME NEW S, NEW a \in Seq(S), NEW b \in Seq(S), NEW n \in 0 .. Len(b)
  PROVE  (a \o FirstOf(b, n)) \o After(b, n) = a \o b
<1>1. /\ FirstOf(b, n) \in Seq(S) /\ After(b, n) \in Seq(S)
  BY Cut
<1>2. FirstOf(b, n) \o After(b, n) = b
  <2>1. Len(b) \in Nat
    BY LenProperties
  <2>2. /\ 1 \in 1 .. Len(b) + 1 /\ n \in 1 - 1 .. Len(b) /\ Len(b) \in n .. Len(b)
    BY <2>1
  <2>3. SubSeq(b, 1, n) \o SubSeq(b, n + 1, Len(b)) = SubSeq(b, 1, Len(b))
    BY <2>2, ConcatAdjacentSubSeq
  <2> QED BY <2>3, SubSeqFull DEF FirstOf, After
<1>3. PICK f \in Seq(S), t \in Seq(S) : f = FirstOf(b, n) /\ t = After(b, n)
  BY <1>1
<1>4. (a \o f) \o t = a \o (f \o t)
  BY ConcatAssociative
<1> QED BY <1>2, <1>3, <1>4

\* What is taken from the front of a is taken from the front of a \o b.
LEMMA TakenFromFront ==
  ASSUME NEW S, NEW a \in Seq(S), NEW b \in Seq(S), NEW n \in 0 .. Len(a)
  PROVE  /\ FirstOf(a \o b, n) = FirstOf(a, n)
         /\ After(a \o b, n) = After(a, n) \o b
<1>1. /\ Len(a) \in Nat /\ Len(b) \in Nat
      /\ a \o b \in Seq(S) /\ Len(a \o b) = Len(a) + Len(b)
      /\ \A i \in 1 .. Len(a) + Len(b) : (a \o b)[i] = IF i <= Len(a) THEN a[i] ELSE b[i - Len(a)]
  BY LenProperties, ConcatProperties
<1>2. n \in 0 .. Len(a \o b)
  BY <1>1
<1>3. /\ FirstOf(a, n) \in Seq(S) /\ After(a, n) \in Seq(S)
      /\ Len(FirstOf(a, n)) = n /\ Len(After(a, n)) = Len(a) - n
      /\ \A i \in 1 .. n : FirstOf(a, n)[i] = a[i]
      /\ \A i \in 1 .. Len(a) - n : After(a, n)[i] = a[n + i]
  BY Cut
<1>4. /\ FirstOf(a \o b, n) \in Seq(S) /\ After(a \o b, n) \in Seq(S)
      /\ Len(FirstOf(a \o b, n)) = n /\ Len(After(a \o b, n)) = Len(a) + Len(b) - n
      /\ \A i \in 1 .. n : FirstOf(a \o b, n)[i] = (a \o b)[i]
      /\ \A i \in 1 .. Len(a) + Len(b) - n : After(a \o b, n)[i] = (a \o b)[n + i]
  <2>1. PICK c \in Seq(S) : c = a \o b
    BY <1>1
  <2>2. n \in 0 .. Len(c)
    BY <1>2, <2>1
  <2>3. /\ FirstOf(c, n) \in Seq(S) /\ After(c, n) \in Seq(S)
        /\ Len(FirstOf(c, n)) = n /\ Len(After(c, n)) = Len(c) - n
        /\ \A i \in 1 .. n : FirstOf(c, n)[i] = c[i]
        /\ \A i \in 1 .. Len(c) - n : After(c, n)[i] = c[n + i]
    BY <2>2, Cut
  <2> QED BY <1>1, <2>1, <2>3
<1>5. FirstOf(a \o b, n) = FirstOf(a, n)
  <2>1. \A i \in 1 .. n : FirstOf(a \o b, n)[i] = FirstOf(a, n)[i]
    BY <1>1, <1>3, <1>4
  <2> QED BY <1>3, <1>4, <2>1, SeqEqual
<1>6. After(a \o b, n) = After(a, n) \o b
  <2>1. /\ After(a, n) \o b \in Seq(S)
        /\ Len(After(a, n) \o b) = Len(a) - n + Len(b)
        /\ \A i \in 1 .. Len(a) - n + Len(b) :
             (After(a, n) \o b)[i] = IF i <= Len(a) - n THEN After(a, n)[i] ELSE b[i - (Len(a) - n)]
    <3>1. PICK t \in Seq(S) : t = After(a, n)
      BY <1>3
    <3>2. /\ t \o b \in Seq(S)
          /\ Len(t \o b) = Len(t) + Len(b)
          /\ \A i \in 1 .. Len(t) + Len(b) :
               (t \o b)[i] = IF i <= Len(t) THEN t[i] ELSE b[i - Len(t)]
      BY ConcatProperties
    <3> QED BY <1>3, <3>1, <3>2
  <2>2. \A i \in 1 .. Len(a) + Len(b) - n : After(a \o b, n)[i] = (After(a, n) \o b)[i]
    <3> TAKE i \in 1 .. Len(a) + Len(b) - n
    <3>1. /\ i \in 1 .. Len(a) - n + Len(b) /\ n + i \in 1 .. Len(a) + Len(b)
          /\ n + i - Len(a) = i - (Len(a) - n)
          /\ n + i <= Len(a) <=> i <= Len(a) - n
      BY <1>1
    <3>2. After(a \o b, n)[i] = IF n + i <= Len(a) THEN a[n + i] ELSE b[n + i - Len(a)]
      BY <1>1, <1>4, <3>1
    <3>3. CASE i <= Len(a) - n
      <4>1. i \in 1 .. Len(a) - n
        BY <3>3, <1>1
      <4> QED BY <3>1, <3>2, <3>3, <4>1, <1>3, <2>1
    <3>4. CASE ~(i <= Len(a) - n)
      BY <3>1, <3>2, <3>4, <2>1
    <3> QED BY <3>3, <3>4
  <2>3. Len(a) - n + Len(b) = Len(a) + Len(b) - n
    BY <1>1
  <2>4. PICK x \in Seq(S), y \in Seq(S) : x = After(a \o b, n) /\ y = After(a, n) \o b
    BY <1>4, <2>1
  <2>5. Len(x) = Len(a) + Len(b) - n /\ Len(y) = Len(x)
    BY <1>4, <2>1, <2>3, <2>4
  <2>6. \A i \in 1 .. Len(x) : x[i] = y[i]
    BY <2>2, <2>4, <2>5
  <2>7. x = y
    BY <2>5, <2>6, SeqEqual
  <2> QED BY <2>4, <2>7
<1> QED BY <1>5, <1>6

\* The same of bytes and of order numbers, to cite without instantiating S.
LEMMA CutBytes ==
  \A s \in Seq(Byte) : \A n \in 0 .. Len(s) :
    /\ FirstOf(s, n) \in Seq(Byte) /\ Len(FirstOf(s, n)) = n
    /\ After(s, n) \in Seq(Byte) /\ Len(After(s, n)) = Len(s) - n
<1> TAKE s \in Seq(Byte)
<1> TAKE n \in 0 .. Len(s)
<1> QED BY Cut

LEMMA CutNumbers ==
  \A s \in Seq(Numbers) : \A n \in 0 .. Len(s) :
    /\ After(s, n) \in Seq(Numbers) /\ Len(After(s, n)) = Len(s) - n
    /\ \A i \in 1 .. Len(s) - n : After(s, n)[i] = s[n + i]
<1> TAKE s \in Seq(Numbers)
<1> TAKE n \in 0 .. Len(s)
<1> QED BY Cut

----------------------------------------------------------------------------
(* Structs.                                                                *)

\* The bytes of an order of a given size.
LEMMA BytesOf ==
  ASSUME NEW n \in Numbers, NEW size \in Nat
  PROVE  /\ Bytes(n, size) \in Seq(Byte)
         /\ Len(Bytes(n, size)) = size
         /\ \A k \in 1 .. size : Bytes(n, size)[k] = <<n, k>>
<1>1. Bytes(n, size) \in [1 .. size -> Byte]
  BY DEF Bytes, Byte
<1>2. Bytes(n, size) \in Seq(Byte)
  BY <1>1, SeqDef
<1>3. /\ DOMAIN Bytes(n, size) = 1 .. size
      /\ DOMAIN Bytes(n, size) = 1 .. Len(Bytes(n, size))
      /\ Len(Bytes(n, size)) \in Nat
  <2>1. PICK s \in Seq(Byte) : s = Bytes(n, size)
    BY <1>2
  <2>2. Len(s) \in Nat /\ DOMAIN s = 1 .. Len(s)
    BY LenProperties
  <2> QED BY <1>1, <2>1, <2>2
<1>4. Len(Bytes(n, size)) = size
  BY <1>3
<1>5. \A k \in 1 .. size : Bytes(n, size)[k] = <<n, k>>
  BY DEF Bytes
<1> QED BY <1>2, <1>4, <1>5

\* The bytes of one order are taken for that order.
LEMMA Decoded ==
  ASSUME NEW n \in Numbers, NEW size \in Nat \ {0}
  PROVE  Decode(Bytes(n, size)) = n
<1>1. Len(Bytes(n, size)) = size /\ Bytes(n, size)[1] = <<n, 1>>
  BY BytesOf
<1>2. \E m \in Numbers : Bytes(n, size) = Bytes(m, Len(Bytes(n, size)))
  BY <1>1
<1> QED BY <1>1, <1>2 DEF Decode

\* What is decoded is a number in any case.
LEMMA DecodeType ==
  ASSUME NEW s \in Seq(Byte), s # <<>>
  PROVE  Decode(s) \in Numbers
<1>1. Len(s) \in Nat \ {0}
  BY EmptySeq
<1>2. s[1] \in Byte
  BY <1>1, ElementOfSeq
<1>3. s[1][1] \in Numbers
  BY <1>2 DEF Byte
<1>4. MaxOrders \in Numbers
  BY SizeAssumption DEF Numbers
<1> QED BY <1>3, <1>4 DEF Decode, Garbled

----------------------------------------------------------------------------
(* Rows of structs.                                                        *)

\* One struct more takes size bytes more.
LEMMA NextMultiple ==
  ASSUME NEW size \in Nat, NEW m \in Nat
  PROVE  /\ size * m \in Nat
         /\ size * (m + 1) = size * m + size
  OBVIOUS

\* A multiple is not less.
LEMMA NotLess ==
  ASSUME NEW size \in Nat \ {0}, NEW m \in Nat
  PROVE  m <= size * m
<1>1. PICK y \in Nat : size = y + 1
  <2>1. size - 1 \in Nat /\ size = (size - 1) + 1
    OBVIOUS
  <2> QED BY <2>1
<1>2. (y + 1) * m = y * m + m /\ y * m \in Nat
  OBVIOUS
<1> QED BY <1>1, <1>2

\* A row is as long as any part of it.
LEMMA MoreStructs ==
  ASSUME NEW size \in Nat, NEW m \in Nat, NEW i \in Nat, i <= m
  PROVE  size * i <= size * m
<1>1. PICK d \in Nat : m = i + d
  <2>1. m - i \in Nat /\ m = i + (m - i)
    OBVIOUS
  <2> QED BY <2>1
<1>2. size * (i + d) = size * i + size * d /\ size * d \in Nat /\ size * i \in Nat
  OBVIOUS
<1> QED BY <1>1, <1>2

\* An empty row.
LEMMA CarriesNothing ==
  ASSUME NEW size \in Nat
  PROVE  Carries(<<>>, size, <<>>)
<1>1. size * 0 = 0 /\ Len(<<>>) = 0
  OBVIOUS
<1> QED BY <1>1 DEF Carries

\* A struct is added at the end.
LEMMA CarriesOneMore ==
  ASSUME NEW s \in Seq(Byte), NEW ns \in Seq(Numbers), NEW n \in Numbers,
         NEW size \in Nat, Carries(s, size, ns)
  PROVE  Carries(s \o Bytes(n, size), size, Append(ns, n))
<1>1. PICK b \in Seq(Byte) : b = Bytes(n, size)
  BY BytesOf
<1>2. Len(b) = size /\ \A k \in 1 .. size : b[k] = <<n, k>>
  BY <1>1, BytesOf
<1>3. PICK m \in Nat : m = Len(ns)
  BY LenProperties
<1>4. PICK l \in Nat : l = size * m
  BY NextMultiple
<1>5. Len(s) = l /\ \A i \in 1 .. m, k \in 1 .. size : s[size * (i - 1) + k] = <<ns[i], k>>
  BY <1>3, <1>4 DEF Carries
<1>6. /\ s \o b \in Seq(Byte) /\ Len(s \o b) = l + size
      /\ \A j \in 1 .. l + size : (s \o b)[j] = IF j <= l THEN s[j] ELSE b[j - l]
  BY <1>2, <1>5, ConcatProperties
<1>7. /\ Len(Append(ns, n)) = m + 1
      /\ \A i \in 1 .. m : Append(ns, n)[i] = ns[i]
      /\ Append(ns, n)[m + 1] = n
  BY <1>3, AppendProperties
<1>8. Len(s \o b) = size * Len(Append(ns, n))
  BY <1>4, <1>6, <1>7, NextMultiple
<1>9. ASSUME NEW i \in 1 .. m + 1, NEW k \in 1 .. size
      PROVE  (s \o b)[size * (i - 1) + k] = <<Append(ns, n)[i], k>>
  <2>1. CASE i \in 1 .. m
    <3>1. PICK p \in Nat : p = size * (i - 1)
      <4>1. i - 1 \in Nat
        BY <2>1
      <4> QED BY <4>1, NextMultiple
    <3>2. p + size <= l
      <4>1. PICK h \in Nat : h = i - 1 /\ h + 1 <= m
        BY <2>1
      <4>2. size * (h + 1) = size * h + size
        BY NextMultiple
      <4>3. size * (h + 1) <= size * m
        BY <4>1, MoreStructs
      <4> QED BY <3>1, <4>1, <4>2, <4>3, <1>4
    <3>3. p + k \in 1 .. l + size /\ p + k <= l
      BY <3>2
    <3>4. (s \o b)[p + k] = s[p + k]
      BY <3>3, <1>6
    <3>5. s[p + k] = <<ns[i], k>>
      BY <2>1, <3>1, <1>5
    <3> QED BY <2>1, <3>1, <3>4, <3>5, <1>7
  <2>2. CASE i = m + 1
    <3>1. i - 1 = m
      BY <2>2
    <3>2. l + k \in 1 .. l + size /\ ~(l + k <= l) /\ (l + k) - l = k
      OBVIOUS
    <3>3. (s \o b)[l + k] = b[k]
      BY <3>2, <1>6
    <3>4. b[k] = <<n, k>>
      BY <1>2
    <3> QED BY <2>2, <3>1, <3>3, <3>4, <1>4, <1>7
  <2>3. i \in 1 .. m \/ i = m + 1
    OBVIOUS
  <2> QED BY <2>1, <2>2, <2>3, Zenon
<1>10. \A i \in 1 .. Len(Append(ns, n)), k \in 1 .. size :
         (s \o b)[size * (i - 1) + k] = <<Append(ns, n)[i], k>>
  BY <1>7, <1>9, Zenon
<1> QED BY <1>1, <1>8, <1>10, Zenon DEF Carries

\* The same behind bytes that are already buffered.
LEMMA CarriesOneMoreBehind ==
  ASSUME NEW u \in Seq(Byte), NEW i \in Seq(Byte), NEW ns \in Seq(Numbers), NEW n \in Numbers,
         NEW size \in Nat, Carries(u \o i, size, ns)
  PROVE  Carries(u \o (i \o Bytes(n, size)), size, Append(ns, n))
<1>1. PICK b \in Seq(Byte) : b = Bytes(n, size)
  BY BytesOf
<1>2. PICK s \in Seq(Byte) : s = u \o i
  BY ConcatProperties
<1>3. Carries(s \o Bytes(n, size), size, Append(ns, n))
  BY <1>2, CarriesOneMore
<1>4. (u \o i) \o b = u \o (i \o b)
  BY ConcatAssociative
<1> QED BY <1>1, <1>2, <1>3, <1>4, Zenon

\* A struct is taken from the front.
LEMMA CarriesOneLess ==
  ASSUME NEW s \in Seq(Byte), NEW ns \in Seq(Numbers), Len(ns) > 0,
         NEW size \in Nat, Carries(s, size, ns)
  PROVE  /\ size <= Len(s)
         /\ FirstOf(s, size) = Bytes(ns[1], size)
         /\ Carries(After(s, size), size, After(ns, 1))
<1>1. PICK m \in Nat : Len(ns) = m + 1
  <2>1. Len(ns) \in Nat /\ Len(ns) - 1 \in Nat /\ Len(ns) = (Len(ns) - 1) + 1
    BY LenProperties
  <2> QED BY <2>1
<1>2. PICK l \in Nat : l = size * m
  BY NextMultiple
<1>3. /\ Len(s) = l + size
      /\ \A i \in 1 .. m + 1, k \in 1 .. size : s[size * (i - 1) + k] = <<ns[i], k>>
  <2>1. size * (m + 1) = l + size
    BY <1>2, NextMultiple
  <2> QED BY <1>1, <2>1 DEF Carries
<1>4. size \in 0 .. Len(s)
  BY <1>3
<1>5. /\ FirstOf(s, size) \in Seq(Byte) /\ After(s, size) \in Seq(Byte)
      /\ Len(FirstOf(s, size)) = size /\ Len(After(s, size)) = Len(s) - size
      /\ \A j \in 1 .. size : FirstOf(s, size)[j] = s[j]
      /\ \A j \in 1 .. Len(s) - size : After(s, size)[j] = s[size + j]
  BY <1>4, Cut
<1>6. FirstOf(s, size) = Bytes(ns[1], size)
  <2>1. ns[1] \in Numbers
    BY <1>1, ElementOfSeq
  <2>2. /\ Bytes(ns[1], size) \in Seq(Byte)
        /\ Len(Bytes(ns[1], size)) = size
        /\ \A k \in 1 .. size : Bytes(ns[1], size)[k] = <<ns[1], k>>
    BY <2>1, BytesOf
  <2>3. \A k \in 1 .. size : s[k] = <<ns[1], k>>
    <3> TAKE k \in 1 .. size
    <3>1. 1 \in 1 .. m + 1 /\ 1 - 1 = 0 /\ size * 0 = 0 /\ 0 + k = k
      OBVIOUS
    <3>2. s[size * (1 - 1) + k] = <<ns[1], k>>
      BY <3>1, <1>3
    <3> QED BY <3>1, <3>2
  <2>4. \A k \in 1 .. size : FirstOf(s, size)[k] = Bytes(ns[1], size)[k]
    BY <1>5, <2>2, <2>3
  <2> QED BY <1>5, <2>2, <2>4, SeqEqual
<1>7. /\ Len(After(ns, 1)) = m
      /\ \A i \in 1 .. m : After(ns, 1)[i] = ns[1 + i]
  <2>1. 1 \in 0 .. Len(ns) /\ Len(ns) - 1 = m
    BY <1>1
  <2> QED BY <2>1, Cut
<1>8. Len(After(s, size)) = size * Len(After(ns, 1))
  <2>1. (l + size) - size = l
    OBVIOUS
  <2>2. Len(After(s, size)) = l
    BY <2>1, <1>3, <1>5
  <2> QED BY <2>2, <1>2, <1>7
<1>9. ASSUME NEW i \in 1 .. m, NEW k \in 1 .. size
      PROVE  After(s, size)[size * (i - 1) + k] = <<After(ns, 1)[i], k>>
  <2>1. PICK h \in Nat : h = i - 1 /\ h + 1 = i /\ h + 1 <= m
    OBVIOUS
  <2>2. PICK p \in Nat : p = size * h
    BY NextMultiple
  <2>3. size * i = p + size
    BY <2>1, <2>2, NextMultiple
  <2>4. p + size <= l
    BY <2>1, <2>3, <1>2, MoreStructs
  <2>5. p + k \in 1 .. Len(s) - size
    BY <2>4, <1>3
  <2>6. After(s, size)[p + k] = s[size + (p + k)]
    BY <2>5, <1>5
  <2>7. i + 1 \in 1 .. m + 1 /\ (i + 1) - 1 = i
    OBVIOUS
  <2>8. s[size * i + k] = <<ns[i + 1], k>>
    BY <2>7, <1>3
  <2>9. size + (p + k) = size * i + k /\ 1 + i = i + 1
    BY <2>3
  <2>10. After(s, size)[p + k] = <<ns[1 + i], k>>
    BY <2>6, <2>8, <2>9
  <2>11. ns[1 + i] = After(ns, 1)[i]
    BY <1>7
  <2>12. size * (i - 1) + k = p + k
    BY <2>1, <2>2, Zenon
  <2> QED BY <2>10, <2>11, <2>12, Zenon
<1>10. \A i \in 1 .. Len(After(ns, 1)), k \in 1 .. size :
         After(s, size)[size * (i - 1) + k] = <<After(ns, 1)[i], k>>
  BY <1>7, <1>9, Zenon
<1>11. Carries(After(s, size), size, After(ns, 1))
  BY <1>8, <1>10, Zenon DEF Carries
<1> QED BY <1>4, <1>6, <1>11

----------------------------------------------------------------------------
(* Facts that all the steps use.                                           *)

\* The sizes.
LEMMA Sizes ==
  /\ OrderSize \in Nat \ {0} /\ ReportSize \in Nat \ {0} /\ OrderSize = ReportSize
  /\ OutRoom \in Nat /\ InRoom \in Nat /\ RingSize \in Nat \ {0} /\ MaxOrders \in Nat
  /\ BufSize \in Nat /\ BufSize >= ReportSize + ReportSize
  /\ InRoom >= ReportSize + ReportSize
BY SizeAssumption, RoomAssumption

\* The smaller of two numbers.
LEMMA LeastIs ==
  ASSUME NEW i \in Int, NEW j \in Int
  PROVE  /\ Least(i, j) \in Int /\ Least(i, j) <= i /\ Least(i, j) <= j
         /\ Least(i, j) = i \/ Least(i, j) = j
BY DEF Least

\* The lengths are numbers.
LEMMA Lengths ==
  ASSUME TypeOK, StreamInv
  PROVE  /\ sending \in Nat /\ out \in Seq(Byte) /\ reply \in Seq(Byte)
         /\ in \in Seq(Byte) /\ buf \in Seq(Byte)
         /\ filled \in Seq(Numbers) /\ published \in Seq(Numbers)
         /\ Len(out) \in Nat /\ Len(reply) \in Nat
         /\ Len(in) \in Nat /\ Len(buf) \in Nat
         /\ Len(filled) \in Nat /\ Len(published) \in Nat
<1>1. /\ out \in Seq(Byte) /\ reply \in Seq(Byte)
      /\ in \in Seq(Byte) /\ buf \in Seq(Byte)
      /\ filled \in Seq(Numbers) /\ published \in Seq(Numbers)
  BY DEF StreamInv
<1>2. sending \in Nat
  BY Sizes DEF TypeOK
<1> QED BY <1>1, <1>2, LenProperties

\* What is in the tail of filled.
LEMMA UnpublishedIs ==
  ASSUME NEW f \in Seq(Numbers), NEW p \in Nat, p <= Len(f)
  PROVE  /\ After(f, p) \in Seq(Numbers)
         /\ Len(After(f, p)) = Len(f) - p
         /\ \A i \in 1 .. Len(f) - p : After(f, p)[i] = f[p + i]
<1>1. p \in 0 .. Len(f)
  BY LenProperties
<1> QED BY <1>1, Cut

\* The tail of a sequence, as one more is put behind it or its head is done.
LEMMA TailMoves ==
  ASSUME NEW f \in Seq(Numbers), NEW p \in Nat, p <= Len(f), NEW n \in Numbers
  PROVE  /\ After(Append(f, n), p) = Append(After(f, p), n)
         /\ p < Len(f) => After(After(f, p), 1) = After(f, p + 1)
<1>1. Len(f) \in Nat
  BY LenProperties
<1>2. PICK t \in Seq(Numbers) :
        /\ t = After(f, p) /\ Len(t) = Len(f) - p
        /\ \A i \in 1 .. Len(f) - p : t[i] = f[p + i]
  BY UnpublishedIs
<1>3. After(Append(f, n), p) = Append(After(f, p), n)
  <2>1. PICK g \in Seq(Numbers) :
          /\ g = Append(f, n) /\ Len(g) = Len(f) + 1
          /\ \A i \in 1 .. Len(f) : g[i] = f[i]
          /\ g[Len(f) + 1] = n
    BY AppendProperties
  <2>2. /\ After(g, p) \in Seq(Numbers) /\ Len(After(g, p)) = (Len(f) + 1) - p
        /\ \A i \in 1 .. (Len(f) + 1) - p : After(g, p)[i] = g[p + i]
    <3>1. p <= Len(g)
      BY <1>1, <2>1
    <3>2. /\ After(g, p) \in Seq(Numbers) /\ Len(After(g, p)) = Len(g) - p
          /\ \A i \in 1 .. Len(g) - p : After(g, p)[i] = g[p + i]
      BY <3>1, UnpublishedIs, Zenon
    <3>3. Len(g) = Len(f) + 1
      BY <2>1
    <3> QED BY <3>2, <3>3, Zenon
  <2>3. /\ Append(t, n) \in Seq(Numbers) /\ Len(Append(t, n)) = Len(f) - p + 1
        /\ \A i \in 1 .. Len(f) - p : Append(t, n)[i] = t[i]
        /\ Append(t, n)[Len(f) - p + 1] = n
    <3>1. /\ Append(t, n) \in Seq(Numbers) /\ Len(Append(t, n)) = Len(t) + 1
          /\ \A i \in 1 .. Len(t) : Append(t, n)[i] = t[i]
          /\ Append(t, n)[Len(t) + 1] = n
      BY AppendProperties
    <3>2. Len(t) = Len(f) - p
      BY <1>2
    <3> QED BY <3>1, <3>2, Zenon
  <2>4. \A i \in 1 .. (Len(f) + 1) - p : After(g, p)[i] = Append(t, n)[i]
    <3> TAKE i \in 1 .. (Len(f) + 1) - p
    <3>1. After(g, p)[i] = g[p + i]
      BY <2>2
    <3>2. CASE i \in 1 .. Len(f) - p
      <4>1. p + i \in 1 .. Len(f)
        BY <1>1, <3>2
      <4>2. g[p + i] = f[p + i] /\ t[i] = f[p + i]
        BY <4>1, <3>2, <2>1, <1>2
      <4> QED BY <3>1, <3>2, <4>2, <2>3
    <3>3. CASE i = Len(f) - p + 1
      <4>1. p + i = Len(f) + 1
        BY <1>1, <3>3
      <4> QED BY <3>1, <3>3, <4>1, <2>1, <2>3
    <3>4. i \in 1 .. Len(f) - p \/ i = Len(f) - p + 1
      BY <1>1
    <3> QED BY <3>2, <3>3, <3>4
  <2>5. (Len(f) + 1) - p = Len(f) - p + 1
    BY <1>1
  <2>6. After(g, p) = Append(t, n)
    BY <2>2, <2>3, <2>4, <2>5, SeqEqual
  <2> QED BY <2>1, <2>6, <1>2
<1>4. ASSUME p < Len(f) PROVE After(After(f, p), 1) = After(f, p + 1)
  <2>1. /\ After(t, 1) \in Seq(Numbers) /\ Len(After(t, 1)) = Len(f) - p - 1
        /\ \A i \in 1 .. Len(f) - p - 1 : After(t, 1)[i] = t[1 + i]
    <3>1. 1 <= Len(t) /\ Len(t) - 1 = Len(f) - p - 1
      BY <1>1, <1>2, <1>4
    <3> QED BY <3>1, UnpublishedIs
  <2>2. /\ After(f, p + 1) \in Seq(Numbers) /\ Len(After(f, p + 1)) = Len(f) - p - 1
        /\ \A i \in 1 .. Len(f) - p - 1 : After(f, p + 1)[i] = f[p + 1 + i]
    <3>1. p + 1 \in Nat /\ p + 1 <= Len(f) /\ Len(f) - (p + 1) = Len(f) - p - 1
      BY <1>1, <1>4
    <3>2. /\ After(f, p + 1) \in Seq(Numbers) /\ Len(After(f, p + 1)) = Len(f) - (p + 1)
          /\ \A i \in 1 .. Len(f) - (p + 1) : After(f, p + 1)[i] = f[(p + 1) + i]
      BY <3>1, UnpublishedIs, Zenon
    <3> QED BY <3>1, <3>2, Zenon
  <2>3. \A i \in 1 .. Len(f) - p - 1 : After(t, 1)[i] = After(f, p + 1)[i]
    <3> TAKE i \in 1 .. Len(f) - p - 1
    <3>1. 1 + i \in 1 .. Len(f) - p /\ p + (1 + i) = p + 1 + i
      BY <1>1
    <3>2. t[1 + i] = f[p + (1 + i)]
      BY <3>1, <1>2
    <3> QED BY <3>1, <3>2, <2>1, <2>2
  <2>4. After(t, 1) = After(f, p + 1)
    BY <2>1, <2>2, <2>3, SeqEqual
  <2> QED BY <2>4, <1>2
<1> QED BY <1>3, <1>4

----------------------------------------------------------------------------
(* What a step that leaves one side alone keeps.                           *)

\* The orders' side.
LEMMA OrdersKept ==
  ASSUME OrderInv, FilledInOrder,
         UNCHANGED <<sending, next, filled, simUp, out>>, spoiled \subseteq spoiled'
  PROVE  OrderInv' /\ FilledInOrder'
<1>1. Handed' = Handed
  BY DEF Handed
<1>2. \A n : Lost(n) => Lost(n)'
  BY DEF Lost, Unmapped, Slot
<1>3. OrderInv'
  BY <1>1, <1>2 DEF OrderInv
<1>4. FilledInOrder'
  BY <1>2 DEF FilledInOrder
<1> QED BY <1>3, <1>4

\* The reports' side.
LEMMA ReportsKept ==
  ASSUME ReportInv, UNCHANGED <<published, filled, buf, in, reply>>
  PROVE  ReportInv'
<1>1. Unpublished' = Unpublished
  BY DEF Unpublished
<1>2. (buf \o (in \o reply))' = buf \o (in \o reply)
  OBVIOUS
<1>3. ReportsFramed'
  BY DEF ReportInv, ReportsFramed
<1> QED BY <1>1, <1>2, <1>3 DEF ReportInv, Carries

----------------------------------------------------------------------------
(* The steps.                                                              *)

\* It holds at the start.
LEMMA InitHolds == Init => IInv
<1> SUFFICES ASSUME Init PROVE IInv
  OBVIOUS
<1>1. /\ head = 0 /\ next = 0 /\ pc = "top" /\ sending = 0 /\ out = <<>> /\ simUp = TRUE
      /\ reply = <<>> /\ filled = <<>> /\ in = <<>> /\ buf = <<>> /\ published = <<>>
      /\ storing = FALSE /\ spoiled = {}
  BY DEF Init
<1>2. /\ Len(out) = 0 /\ Len(reply) = 0 /\ Len(filled) = 0
      /\ Len(in) = 0 /\ Len(buf) = 0 /\ Len(published) = 0 /\ DOMAIN filled = {}
  <2>1. Len(<<>>) = 0 /\ DOMAIN <<>> = {}
    OBVIOUS
  <2> QED BY <1>1, <2>1, Zenon
<1>3. TypeOK /\ PlaceInv /\ LoadInv /\ FilledInOrder
  <2>1. TypeOK
    <3>1. /\ head \in 0 .. MaxOrders /\ next \in 0 .. head
          /\ pc \in {"top", "send", "recv", "dead"} /\ simUp \in BOOLEAN /\ storing \in BOOLEAN
          /\ spoiled \subseteq 0 .. MaxOrders
      <4>1. head = 0 /\ next = 0 /\ pc = "top" /\ simUp = TRUE /\ storing = FALSE /\ spoiled = {}
        BY <1>1
      <4>2. head \in 0 .. MaxOrders /\ next \in 0 .. head
        BY <4>1, Sizes
      <4> QED BY <4>1, <4>2
    <3>2. /\ sending \in 0 .. OrderSize /\ Len(out) <= OutRoom /\ Len(in) <= InRoom
          /\ Len(reply) <= ReportSize /\ Len(buf) <= BufSize
      BY <1>1, <1>2, Sizes
    <3> QED BY <3>1, <3>2 DEF TypeOK
  <2>2. PlaceInv
    <3>1. next .. head - 1 = {}
      BY <1>1
    <3>2. Len(buf) < ReportSize
      BY <1>2, Sizes
    <3> QED BY <1>1, <3>1, <3>2 DEF PlaceInv
  <2>3. LoadInv
    BY <1>1, <1>2, Sizes DEF LoadInv, Load
  <2>4. FilledInOrder
    BY <1>2, Zenon DEF FilledInOrder
  <2> QED BY <2>1, <2>2, <2>3, <2>4
<1>4. StreamInv
  BY <1>1 DEF StreamInv
<1>5. OrderInv
  <2>1. Handed = 0
    BY <1>1 DEF Handed
  <2>2. OrderSize * (0 - 0) = 0
    BY Sizes
  <2>3. ASSUME NEW m \in 0 .. OutRoom, NEW k \in 1 .. OrderSize
        PROVE  ~(OrderSize * m + k <= Len(out))
    <3>1. OrderSize * m \in Nat
      BY Sizes, NextMultiple
    <3> QED BY <1>2, <3>1, Sizes
  <2> QED BY <1>1, <1>2, <2>1, <2>2, <2>3 DEF OrderInv
<1>6. ReportInv
  <2>1. Unpublished = <<>>
    <3>1. filled \in Seq(Numbers) /\ Len(filled) = 0 /\ Len(published) = 0
      BY <1>1, <1>2
    <3>2. 0 \in Nat /\ 0 <= Len(filled)
      BY <3>1
    <3>3. After(filled, 0) \in Seq(Numbers) /\ Len(After(filled, 0)) = Len(filled) - 0
      BY <3>1, <3>2, UnpublishedIs
    <3>4. Unpublished \in Seq(Numbers) /\ Len(Unpublished) = 0
      BY <3>1, <3>3 DEF Unpublished
    <3> QED BY <3>4, EmptySeq
  <2>2. buf \o (in \o reply) = <<>>
    BY <1>1, ConcatEmptySeq
  <2>3. Carries(buf \o (in \o reply), ReportSize, Unpublished)
    BY <2>1, <2>2, CarriesNothing, Sizes
  <2>4. ReportsFramed
    BY <1>1, <1>2 DEF ReportsFramed
  <2> QED BY <2>3, <2>4 DEF ReportInv
<1> QED BY <1>3, <1>4, <1>5, <1>6 DEF IInv

\* The live engine stores into the slot of the order a ring before.
LEMMA BeginOrderKeeps == ASSUME IInv, BeginOrder PROVE IInv'
<1>1. /\ ~storing /\ storing' = TRUE /\ head < MaxOrders
      /\ spoiled' = spoiled \cup ({head - RingSize} \cap (next .. head))
      /\ UNCHANGED <<head, next, pc, sending, buf, published, simUp, reply, filled, out, in>>
  BY DEF BeginOrder, engineOnly, simOnly
<1>2. StreamInv' /\ LoadInv'
  BY <1>1 DEF IInv, StreamInv, LoadInv, Load
<1>3. head \in 0 .. MaxOrders /\ next \in 0 .. head
  BY DEF IInv, TypeOK
<1>4. TypeOK'
  <2>1. next .. head \subseteq 0 .. MaxOrders
    BY <1>3, Sizes
  <2>2. spoiled' \subseteq 0 .. MaxOrders
    BY <1>1, <2>1 DEF IInv, TypeOK
  <2> QED BY <1>1, <2>2 DEF IInv, TypeOK
<1>5. PlaceInv'
  <2>1. ASSUME NEW n \in next .. head - 1
        PROVE  (head + 1) - n <= RingSize \/ n \in spoiled'
    <3>1. head - n <= RingSize \/ n \in spoiled
      BY <1>1 DEF IInv, PlaceInv, Stored
    <3>2. CASE n = head - RingSize
      <4>1. n \in next .. head
        BY <1>3
      <4> QED BY <1>1, <3>2, <4>1
    <3>3. CASE n # head - RingSize
      <4>1. head - n <= RingSize => (head + 1) - n <= RingSize
        BY <1>3, <3>3, Sizes
      <4> QED BY <1>1, <3>1, <4>1
    <3> QED BY <3>2, <3>3
  <2>2. Stored' = head + 1
    BY <1>1 DEF Stored
  <2> QED BY <1>1, <2>1, <2>2 DEF IInv, PlaceInv
<1>6. OrderInv' /\ FilledInOrder'
  BY <1>1, OrdersKept DEF IInv
<1>7. ReportInv'
  BY <1>1, ReportsKept DEF IInv
<1> QED BY <1>2, <1>4, <1>5, <1>6, <1>7 DEF IInv

\* The live engine publishes what it has stored.
LEMMA EndOrderKeeps == ASSUME IInv, EndOrder PROVE IInv'
<1>1. /\ storing /\ storing' = FALSE /\ head' = head + 1
      /\ UNCHANGED <<spoiled, next, pc, sending, buf, published, simUp, reply, filled, out, in>>
  BY DEF EndOrder, engineOnly, simOnly
<1>2. StreamInv' /\ LoadInv'
  BY <1>1 DEF IInv, StreamInv, LoadInv, Load
<1>3. head \in 0 .. MaxOrders /\ next \in 0 .. head /\ head < MaxOrders
  BY <1>1 DEF IInv, TypeOK, PlaceInv
<1>4. TypeOK'
  <2>1. head' \in 0 .. MaxOrders /\ next' \in 0 .. head'
    BY <1>1, <1>3, Sizes
  <2> QED BY <1>1, <2>1 DEF IInv, TypeOK
<1>5. PlaceInv'
  <2>1. Stored = head + 1 /\ Stored' = head + 1
    BY <1>1 DEF Stored
  <2>2. ASSUME NEW n \in next .. (head + 1) - 1
        PROVE  (head + 1) - n <= RingSize \/ n \in spoiled
    <3>1. CASE n = head
      BY <1>3, <3>1, Sizes
    <3>2. CASE n # head
      <4>1. n \in next .. head - 1
        BY <1>3, <3>2
      <4> QED BY <2>1, <4>1 DEF IInv, PlaceInv
    <3> QED BY <3>1, <3>2
  <2>3. sending' # 0 => next' < head'
    BY <1>1, <1>3 DEF IInv, PlaceInv
  <2> QED BY <1>1, <2>1, <2>2, <2>3 DEF IInv, PlaceInv
<1>6. OrderInv' /\ FilledInOrder'
  BY <1>1, OrdersKept DEF IInv
<1>7. ReportInv'
  BY <1>1, ReportsKept DEF IInv
<1> QED BY <1>2, <1>4, <1>5, <1>6, <1>7 DEF IInv

\* The execution engine ends.
LEMMA ExitKeeps == ASSUME IInv, Exit PROVE IInv'
<1>1. /\ pc' = "dead"
      /\ UNCHANGED <<head, storing, next, sending, buf, published, simUp, reply, filled, out, in,
                     spoiled>>
  BY DEF Exit, simOnly, ringOnly
<1>2. StreamInv' /\ LoadInv' /\ TypeOK' /\ PlaceInv'
  BY <1>1 DEF IInv, StreamInv, LoadInv, TypeOK, PlaceInv, Stored
<1>4. OrderInv' /\ FilledInOrder'
  BY <1>1, OrdersKept DEF IInv
<1>5. ReportInv'
  BY <1>1, ReportsKept DEF IInv
<1> QED BY <1>2, <1>4, <1>5 DEF IInv

\* The exchange ends.
LEMMA SimExitKeeps == ASSUME IInv, SimExit PROVE IInv'
<1>1. /\ simUp' = FALSE
      /\ UNCHANGED <<head, storing, next, pc, sending, buf, published, reply, filled, out, in,
                     spoiled>>
  BY DEF SimExit, engineOnly, ringOnly
<1>2. StreamInv' /\ LoadInv' /\ TypeOK' /\ PlaceInv' /\ FilledInOrder'
  BY <1>1 DEF IInv, StreamInv, LoadInv, Load, TypeOK, PlaceInv, Stored, FilledInOrder, Lost,
                Unmapped, Slot
<1>3. OrderInv'
  BY <1>1 DEF IInv, OrderInv, Handed
<1>4. ReportInv'
  BY <1>1, ReportsKept DEF IInv
<1> QED BY <1>2, <1>3, <1>4 DEF IInv

\* Nothing happens.
LEMMA IdleKeeps == ASSUME IInv, UNCHANGED vars PROVE IInv'
<1>1. UNCHANGED <<head, storing, next, pc, sending, out, simUp, reply, filled, in, buf, published,
                  spoiled>>
  BY DEF vars
<1>2. StreamInv' /\ LoadInv' /\ TypeOK' /\ PlaceInv'
  BY <1>1 DEF IInv, StreamInv, LoadInv, Load, TypeOK, PlaceInv, Stored
<1>4. OrderInv' /\ FilledInOrder'
  BY <1>1, OrdersKept DEF IInv
<1>5. ReportInv'
  BY <1>1, ReportsKept DEF IInv
<1> QED BY <1>2, <1>4, <1>5 DEF IInv

\* The slot of an order to be sent has bytes of some order, and of that order
\* alone unless it is lost.
LEMMA FoundIs ==
  ASSUME TypeOK, PlaceInv, next < head
  PROVE  /\ Found(next) \subseteq Numbers
         /\ ~Lost(next) => Found(next) = {next}
<1>1. /\ head \in 0 .. MaxOrders /\ next \in 0 .. head
      /\ RingSize \in Nat /\ RingSize > 0 /\ MaxOrders \in Nat
  BY Sizes DEF TypeOK
<1>2. PICK d \in Nat : d = head - 1 - next /\ (head - 1) - d = next /\ next + d < head
  <2>1. /\ head - 1 - next \in Nat /\ (head - 1) - (head - 1 - next) = next
        /\ next + (head - 1 - next) < head
    BY <1>1
  <2> QED BY <2>1
<1>3. PICK q \in Nat, r \in 0 .. RingSize - 1 : r = d % RingSize /\ d = RingSize * q + r
  <2>1. d \div RingSize \in Nat /\ (d % RingSize) \in 0 .. RingSize - 1
        /\ d = RingSize * (d \div RingSize) + (d % RingSize)
    BY <1>1, DivMod
  <2> QED BY <2>1
<1>4. SlotOrder(next) = (head - 1) - r
  BY <1>2, <1>3 DEF SlotOrder
<1>5. r <= d
  <2>1. RingSize * q \in Nat
    BY <1>1
  <2> QED BY <1>3, <2>1
<1>6. (head - 1) - r \in Numbers /\ head \in Numbers /\ Garbled \in Numbers
  BY <1>1, <1>2, <1>5 DEF Numbers, Garbled
<1>7. Found(next) \subseteq Numbers
  BY <1>4, <1>6 DEF Found
<1>8. ASSUME ~Lost(next) PROVE Found(next) = {next}
  <2>1. ~Unmapped(next) /\ Stored - next <= RingSize
    <3>1. next \in next .. head - 1
      BY <1>1
    <3> QED BY <1>8, <3>1 DEF Lost, PlaceInv
  <2>2. head - next <= RingSize /\ (storing => head - next < RingSize)
    BY <1>1, <2>1 DEF Stored
  <2>3. d \in 0 .. RingSize - 1
    BY <1>1, <1>2, <2>2
  <2>4. 0 \in Int /\ q \in Int /\ RingSize * q + r = RingSize * 0 + d
    BY <1>1, <1>3
  <2>5. r = d
    BY <1>1, <2>3, <2>4, Unique
  <2>6. ~(storing /\ Slot(head) = Slot(next))
    <3> SUFFICES ASSUME storing, Slot(head) = Slot(next) PROVE FALSE
      OBVIOUS
    <3>1. next \in Nat /\ head \in Nat /\ next <= head /\ head - next < RingSize
      BY <1>1, <2>2
    <3>2. (next % RingSize) = (head % RingSize)
      BY DEF Slot
    <3>3. next = head
      BY <1>1, <3>1, <3>2, SameSlot
    <3> QED BY <1>1, <3>3
  <2> QED BY <1>2, <1>4, <2>1, <2>5, <2>6 DEF Found
<1> QED BY <1>7, <1>8

\* A row of n bytes.
LEMMA RowOfBytes ==
  ASSUME NEW n \in Nat, NEW row \in [1 .. n -> Byte]
  PROVE  row \in Seq(Byte) /\ Len(row) = n
<1>1. row \in Seq(Byte)
  BY SeqDef
<1>2. Len(row) \in Nat /\ DOMAIN row = 1 .. Len(row) /\ DOMAIN row = 1 .. n
  BY <1>1, LenProperties
<1>3. Len(row) = n
  BY <1>2
<1> QED BY <1>1, <1>3

\* What send() hands over is added to the wire, byte for byte.
LEMMA HandedOver ==
  ASSUME IInv, next < head, NEW n \in Nat, n <= sending, Hand(n)
  PROVE  /\ out' \in Seq(Byte) /\ Len(out') = Len(out) + n
         /\ \A i \in 1 .. Len(out) : out'[i] = out[i]
         /\ \A k \in 1 .. n :
              out'[Len(out) + k] = <<next, OrderSize - sending + k>> \/ Lost(next)
<1>1. out \in Seq(Byte) /\ Len(out) \in Nat /\ sending \in 0 .. OrderSize
  BY Lengths DEF IInv, TypeOK
<1>2. PICK from \in [1 .. n -> Found(next)] :
        out' = out \o [k \in 1 .. n |-> <<from[k], OrderSize - sending + k>>]
  BY DEF Hand
<1>3. Found(next) \subseteq Numbers /\ (~Lost(next) => Found(next) = {next})
  BY FoundIs DEF IInv
<1>4. PICK b \in Seq(Byte) :
        /\ b = [k \in 1 .. n |-> <<from[k], OrderSize - sending + k>>]
        /\ Len(b) = n
        /\ \A k \in 1 .. n : b[k] = <<from[k], OrderSize - sending + k>>
  <2> DEFINE row == [k \in 1 .. n |-> <<from[k], OrderSize - sending + k>>]
  <2>1. \A k \in 1 .. n : from[k] \in Numbers /\ OrderSize - sending + k \in Nat
    BY <1>1, <1>3, Sizes
  <2>2. row \in [1 .. n -> Byte]
    BY <2>1 DEF Byte
  <2>3. \A k \in 1 .. n : row[k] = <<from[k], OrderSize - sending + k>>
    OBVIOUS
  <2> HIDE DEF row
  <2>4. row \in Seq(Byte) /\ Len(row) = n
    BY <2>2, RowOfBytes
  <2>5. row = [k \in 1 .. n |-> <<from[k], OrderSize - sending + k>>]
    BY DEF row
  <2> QED BY <2>3, <2>4, <2>5
<1>5. /\ out \o b \in Seq(Byte) /\ Len(out \o b) = Len(out) + n
      /\ \A i \in 1 .. Len(out) + n :
           (out \o b)[i] = IF i <= Len(out) THEN out[i] ELSE b[i - Len(out)]
  <2>1. /\ out \o b \in Seq(Byte) /\ Len(out \o b) = Len(out) + Len(b)
        /\ \A i \in 1 .. Len(out) + Len(b) :
             (out \o b)[i] = IF i <= Len(out) THEN out[i] ELSE b[i - Len(out)]
    BY <1>1, ConcatProperties
  <2>2. Len(b) = n
    BY <1>4
  <2> QED BY <2>1, <2>2
<1>6. out' = out \o b
  BY <1>2, <1>4
<1>7. \A i \in 1 .. Len(out) : out'[i] = out[i]
  BY <1>1, <1>5, <1>6
<1>8. ASSUME NEW k \in 1 .. n, ~Lost(next)
      PROVE  out'[Len(out) + k] = <<next, OrderSize - sending + k>>
  <2>1. /\ Len(out) + k \in 1 .. Len(out) + n /\ ~(Len(out) + k <= Len(out))
        /\ (Len(out) + k) - Len(out) = k
    BY <1>1
  <2>2. out'[Len(out) + k] = b[k]
    BY <1>5, <1>6, <2>1
  <2>3. from[k] = next
    BY <1>3, <1>8
  <2> QED BY <1>4, <2>2, <2>3
<1> QED BY <1>5, <1>6, <1>7, <1>8

\* Where in the row of orders a byte that is handed over comes to lie.
LEMMA PlaceOfByte ==
  ASSUME NEW z \in Nat, NEW h \in Nat, NEW l \in Nat, NEW s \in Nat, s <= z,
         l + s = z * (h + 1),
         NEW m \in Nat, NEW k \in Nat, 1 <= k, k <= z,
         NEW p \in Nat, p = z * m + k, l < p, p <= l + s
  PROVE  m = h /\ p - l = k - (z - s)
<1>1. PICK a \in Nat, b \in Nat : /\ a = z * h /\ b = z * m
                                /\ z * (h + 1) = a + z /\ z * (m + 1) = b + z
  BY NextMultiple
<1>2. ~(m < h)
  <2> SUFFICES ASSUME m < h PROVE FALSE
    OBVIOUS
  <2>1. z * (m + 1) <= z * h
    BY MoreStructs
  <2> QED BY <1>1, <2>1
<1>3. ~(h < m)
  <2> SUFFICES ASSUME h < m PROVE FALSE
    OBVIOUS
  <2>1. z * (h + 1) <= z * m
    BY MoreStructs
  <2> QED BY <1>1, <2>1
<1>4. m = h
  BY <1>2, <1>3
<1>5. b = a
  BY <1>1, <1>4
<1> QED BY <1>1, <1>4, <1>5

\* send() hands bytes of the slot to the wire.
LEMMA SendKeeps == ASSUME IInv, Send PROVE IInv'
<1>1. /\ sending \in Nat /\ out \in Seq(Byte) /\ reply \in Seq(Byte)
      /\ in \in Seq(Byte) /\ buf \in Seq(Byte)
      /\ filled \in Seq(Numbers) /\ published \in Seq(Numbers)
      /\ Len(out) \in Nat /\ Len(reply) \in Nat
      /\ Len(in) \in Nat /\ Len(buf) \in Nat /\ Len(filled) \in Nat
  BY Lengths DEF IInv
<1>2. PICK n \in Nat :
        /\ n > 0 /\ n <= sending /\ n <= OutRoom - Len(out)
        /\ Hand(n) /\ sending' = sending - n
  <2>1. PICK n \in Int : n = Room
    BY <1>1, Sizes, LeastIs DEF Room
  <2>2. n <= sending /\ n <= OutRoom - Len(out)
    BY <1>1, <2>1, Sizes, LeastIs DEF Room
  <2>3. n > 0 /\ Hand(n) /\ sending' = sending - n
    BY <2>1 DEF Send
  <2> QED BY <2>2, <2>3
<1>3. /\ pc = "send"
      /\ sending' = 0 => next' = next + 1 /\ pc' = "recv"
      /\ sending' # 0 => next' = next /\ pc' = pc
      /\ UNCHANGED <<head, storing, buf, published, simUp, reply, filled, in, spoiled>>
  BY Zenon DEF Send, simOnly, ringOnly
<1>4. sending # 0
  BY <1>3 DEF IInv, PlaceInv
<1>5. head \in 0 .. MaxOrders /\ next \in 0 .. head /\ next < head
  BY <1>4 DEF IInv, TypeOK, PlaceInv
<1>6. /\ out' \in Seq(Byte) /\ Len(out') = Len(out) + n
      /\ \A i \in 1 .. Len(out) : out'[i] = out[i]
      /\ \A k \in 1 .. n :
           out'[Len(out) + k] = <<next, OrderSize - sending + k>> \/ Lost(next)
  BY <1>2, <1>5, HandedOver
<1>7. Handed = next + 1 /\ Handed' = Handed
  <2>1. Handed = next + 1
    BY <1>4 DEF Handed
  <2>2. sending' = 0 => Handed' = next'
    BY DEF Handed
  <2>3. sending' # 0 => Handed' = next' + 1
    BY DEF Handed
  <2> QED BY <1>3, <2>1, <2>2, <2>3
<1>8. TypeOK'
  <2>1. next' \in 0 .. head'
    BY <1>3, <1>5, Sizes
  <2>2. pc' \in {"top", "send", "recv", "dead"}
    BY <1>3
  <2>3. sending' \in 0 .. OrderSize
    BY <1>1, <1>2, Sizes DEF IInv, TypeOK
  <2>4. Len(out') <= OutRoom
    BY <1>1, <1>2, <1>6, Sizes
  <2> QED BY <1>3, <1>5, <2>1, <2>2, <2>3, <2>4 DEF IInv, TypeOK
<1>9. StreamInv'
  BY <1>1, <1>3, <1>6 DEF StreamInv
<1>10. PlaceInv'
  <2>1. /\ pc' \in {"top", "recv"} => sending' = 0
        /\ pc' = "send" => sending' # 0
    BY <1>3
  <2>2. sending' # 0 => next' < head'
    BY <1>3, <1>5
  <2>3. Len(buf') < ReportSize
    BY <1>3 DEF IInv, PlaceInv
  <2>4. \A i \in next' .. head' - 1 : Stored' - i <= RingSize \/ i \in spoiled'
    <3>1. Stored' = Stored /\ next' .. head' - 1 \subseteq next .. head - 1
      BY <1>3, <1>5 DEF Stored
    <3> QED BY <1>3, <3>1 DEF IInv, PlaceInv
  <2>5. storing' => head' < MaxOrders
    BY <1>3 DEF IInv, PlaceInv
  <2> QED BY <2>1, <2>2, <2>3, <2>4, <2>5 DEF PlaceInv
<1>11. \A i : Lost(i)' = Lost(i)
  BY <1>3 DEF Lost, Unmapped, Slot
<1>12. OrderInv'
  <2>1. Len(filled') <= Handed'
    BY <1>3, <1>7, Zenon DEF IInv, OrderInv
  <2> SUFFICES ASSUME simUp
               PROVE  /\ Len(out') + sending' = OrderSize * (Handed' - Len(filled'))
                      /\ \A m \in 0 .. OutRoom, k \in 1 .. OrderSize :
                           OrderSize * m + k <= Len(out') =>
                             \/ out'[OrderSize * m + k] = <<Len(filled') + m, k>>
                             \/ Lost(Len(filled') + m)
    BY <1>3, <1>11, <2>1 DEF OrderInv
  <2>2. PICK z \in Nat : z = OrderSize /\ sending \in 0 .. z
    BY Sizes DEF IInv, TypeOK
  <2>3. PICK h \in Nat : h = next - Len(filled) /\ Handed - Len(filled) = h + 1
    <3>1. Len(filled) <= next + 1
      BY <1>7 DEF IInv, OrderInv
    <3>2. Len(out) + sending = z * (Handed - Len(filled))
      BY <2>2, Zenon DEF IInv, OrderInv
    <3>3. Handed - Len(filled) # 0
      <4>1. z * 0 = 0 /\ Len(out) + sending # 0
        BY <1>1, <1>4
      <4> QED BY <3>2, <4>1
    <3>4. next - Len(filled) \in Nat /\ Handed - Len(filled) = (next - Len(filled)) + 1
      BY <1>1, <1>5, <1>7, <3>1, <3>3
    <3> QED BY <3>4
  <2>4. Len(out) + sending = z * (h + 1)
    BY <2>2, <2>3 DEF IInv, OrderInv
  <2>5. Len(out') + sending' = OrderSize * (Handed' - Len(filled'))
    <3>1. Len(out') + sending' = Len(out) + sending
      BY <1>1, <1>2, <1>6
    <3> QED BY <1>3, <1>7, <2>2, <2>3, <2>4, <3>1
  <2>6. ASSUME NEW m \in 0 .. OutRoom, NEW k \in 1 .. z, z * m + k <= Len(out')
        PROVE  out'[z * m + k] = <<Len(filled) + m, k>> \/ Lost(Len(filled) + m)
    <3>1. m \in Nat /\ k \in Nat /\ k > 0 /\ z * m \in Nat
      <4>1. m \in Nat /\ k \in Nat /\ k > 0
        BY <2>2, Sizes
      <4> QED BY <4>1, NextMultiple
    <3>2. CASE z * m + k <= Len(out)
      <4>1. PICK q \in Nat : q = z * m
        BY <3>1
      <4>2. q + k \in 1 .. Len(out)
        <5>1. q + k <= Len(out)
          BY <3>2, <4>1, Zenon
        <5>2. k \in Nat /\ k > 0
          BY <3>1, Zenon
        <5> QED BY <1>1, <5>1, <5>2
      <4>3. out'[q + k] = out[q + k]
        BY <1>6, <4>2
      <4>4. out[OrderSize * m + k] = <<Len(filled) + m, k>> \/ Lost(Len(filled) + m)
        BY <2>2, <3>2 DEF IInv, OrderInv
      <4> QED BY <2>2, <4>1, <4>3, <4>4
    <3>3. CASE ~(z * m + k <= Len(out))
      <4>1. PICK p \in Nat : p = z * m + k
        BY <3>1
      <4>2. Len(out) < p /\ p <= Len(out) + n /\ p <= Len(out) + sending
        BY <1>1, <1>2, <1>6, <2>6, <3>3, <4>1
      <4>3. m = h /\ p - Len(out) = k - (z - sending)
        <5>1. /\ Len(out) \in Nat /\ sending \in Nat /\ sending <= z
              /\ m \in Nat /\ k \in Nat /\ 1 <= k /\ k <= z
          BY <1>1, <2>2, <3>1
        <5> QED BY <2>4, <4>1, <4>2, <5>1, PlaceOfByte
      <4>4. PICK j \in 1 .. n : j = p - Len(out) /\ p = Len(out) + j /\ z - sending + j = k
        <5>1. /\ p - Len(out) \in 1 .. n /\ p = Len(out) + (p - Len(out))
              /\ z - sending + (p - Len(out)) = k
          BY <1>1, <2>2, <4>2, <4>3
        <5> QED BY <5>1
      <4>5. Len(filled) + m = next
        BY <1>1, <1>5, <2>3, <4>3
      <4> QED BY <1>6, <2>2, <4>1, <4>4, <4>5
    <3> QED BY <3>2, <3>3
  <2> QED BY <1>3, <2>2, <2>5, <2>6
<1>13. FilledInOrder'
  BY <1>3, <1>11 DEF IInv, FilledInOrder
<1>14. ReportInv'
  BY <1>3, ReportsKept DEF IInv
<1>15. LoadInv'
  <2>1. Load <= OutRoom + ReportSize + OrderSize
    BY <1>3 DEF IInv, LoadInv
  <2>2. Load' = Load
    BY <1>1, <1>2, <1>3, <1>6 DEF Load
  <2>3. pc' # "top"
    BY <1>3
  <2> QED BY <2>1, <2>2, <2>3 DEF LoadInv
<1> QED BY <1>8, <1>9, <1>10, <1>12, <1>13, <1>14, <1>15 DEF IInv

\* The engine takes an order up: a struct more is under way.
LEMMA TakeOrderKeeps == ASSUME IInv, TakeOrder PROVE IInv'
<1>1. /\ sending \in Nat /\ out \in Seq(Byte) /\ reply \in Seq(Byte)
      /\ in \in Seq(Byte) /\ buf \in Seq(Byte)
      /\ filled \in Seq(Numbers) /\ published \in Seq(Numbers)
      /\ Len(out) \in Nat /\ Len(reply) \in Nat
      /\ Len(in) \in Nat /\ Len(buf) \in Nat /\ Len(filled) \in Nat
  BY Lengths DEF IInv
<1>2. /\ pc = "top" /\ Len(buf) < ReportSize
      /\ UNCHANGED <<head, storing, next, buf, published, simUp, reply, filled, out, in, spoiled>>
  BY DEF TakeOrder, Drained, ringOnly, simOnly
<1>3. sending = 0
  BY <1>2 DEF IInv, PlaceInv
<1>4. head \in 0 .. MaxOrders /\ next \in 0 .. head
  BY DEF IInv, TypeOK
<1>5. ReportInv' /\ StreamInv'
  BY <1>1, <1>2, ReportsKept DEF IInv, StreamInv
<1>6. Load <= OutRoom + ReportSize /\ Load = Len(out) + Len(reply) + Len(in)
  <2>1. Load <= OutRoom + ReportSize
    BY <1>2 DEF IInv, LoadInv
  <2> QED BY <1>1, <1>3, <2>1 DEF Load
<1>7. CASE next < head
  <2>1. pc' = "send" /\ sending' = OrderSize /\ sending' # 0
    BY <1>7, Sizes DEF TakeOrder
  <2>2. TypeOK'
    BY <1>2, <2>1, Sizes DEF IInv, TypeOK
  <2>3. PlaceInv'
    BY <1>2, <1>7, <2>1 DEF IInv, PlaceInv, Stored
  <2>4. Handed = next /\ Handed' = next + 1
    BY <1>2, <1>3, <2>1 DEF Handed
  <2>5. Len(filled) <= next
    BY <2>4 DEF IInv, OrderInv
  <2>6. Len(filled') <= Handed'
    BY <1>1, <1>2, <1>4, <2>4, <2>5
  <2>7. simUp' => Len(out') + sending' = OrderSize * (Handed' - Len(filled'))
    <3>1. PICK m \in Nat : m = next - Len(filled) /\ m + 1 = (next + 1) - Len(filled)
      <4>1. next - Len(filled) \in Nat /\ (next - Len(filled)) + 1 = (next + 1) - Len(filled)
        BY <1>1, <1>4, <2>5
      <4> QED BY <4>1
    <3>2. PICK l \in Nat : l = OrderSize * m /\ OrderSize * (m + 1) = l + OrderSize
      BY Sizes, NextMultiple
    <3>3. simUp => Len(out) + sending = l
      BY <2>4, <3>1, <3>2, Zenon DEF IInv, OrderInv
    <3>4. simUp => Len(out') + sending' = l + OrderSize
      BY <1>1, <1>2, <1>3, <2>1, <3>3
    <3> QED BY <1>2, <2>4, <3>1, <3>2, <3>4
  <2>8. \A i : Lost(i)' = Lost(i)
    BY <1>2 DEF Lost, Unmapped, Slot
  <2>9. OrderInv' /\ FilledInOrder'
    BY <1>2, <2>6, <2>7, <2>8 DEF IInv, OrderInv, FilledInOrder
  <2>10. LoadInv'
    <3>1. Load' = Len(out) + OrderSize + Len(reply) + Len(in)
      BY <1>2, <2>1 DEF Load
    <3>2. Load' <= OutRoom + ReportSize + OrderSize
      BY <1>1, <1>6, <3>1, Sizes
    <3> QED BY <2>1, <3>2 DEF LoadInv
  <2> QED BY <1>5, <2>2, <2>3, <2>9, <2>10 DEF IInv
<1>8. CASE ~(next < head)
  <2>1. pc' = "recv" /\ sending' = sending
    BY <1>8 DEF TakeOrder
  <2>2. TypeOK'
    BY <1>2, <2>1 DEF IInv, TypeOK
  <2>3. PlaceInv'
    BY <1>2, <1>3, <2>1 DEF IInv, PlaceInv, Stored
  <2>4. OrderInv' /\ FilledInOrder'
    BY <1>2, <2>1, OrdersKept DEF IInv
  <2>5. LoadInv'
    <3>1. Load' = Load
      BY <1>2, <2>1 DEF Load
    <3>2. Load' <= OutRoom + ReportSize + OrderSize
      BY <1>1, <1>6, <3>1, Sizes
    <3> QED BY <2>1, <3>2 DEF LoadInv
  <2> QED BY <1>5, <2>2, <2>3, <2>4, <2>5 DEF IInv
<1> QED BY <1>7, <1>8

\* sendall() moves bytes of the report from the exchange to the wire.
LEMMA SimReplyKeeps == ASSUME IInv, SimReply PROVE IInv'
<1>1. /\ sending \in Nat /\ out \in Seq(Byte) /\ reply \in Seq(Byte)
      /\ in \in Seq(Byte) /\ buf \in Seq(Byte)
      /\ filled \in Seq(Numbers) /\ published \in Seq(Numbers)
      /\ Len(out) \in Nat /\ Len(reply) \in Nat
      /\ Len(in) \in Nat /\ Len(buf) \in Nat
  BY Lengths DEF IInv
<1>2. PICK n \in Nat :
        /\ n > 0 /\ n <= Len(reply) /\ n <= InRoom - Len(in)
        /\ in' = in \o FirstOf(reply, n)
        /\ reply' = After(reply, n)
  <2>1. PICK n \in Int : n = Least(Len(reply), InRoom - Len(in))
    BY <1>1, Sizes, LeastIs
  <2>2. n <= Len(reply) /\ n <= InRoom - Len(in)
    BY <1>1, <2>1, Sizes, LeastIs
  <2>3. n > 0 /\ in' = in \o FirstOf(reply, n) /\ reply' = After(reply, n)
    BY <2>1 DEF SimReply
  <2> QED BY <2>2, <2>3
<1>3. UNCHANGED <<head, next, pc, sending, buf, published, simUp, filled, out, storing, spoiled>>
  BY DEF SimReply, engineOnly, ringOnly
<1>4. PICK f \in Seq(Byte) :
        /\ f = FirstOf(reply, n) /\ Len(f) = n
        /\ reply' \in Seq(Byte) /\ Len(reply') = Len(reply) - n
  <2>1. n \in 0 .. Len(reply)
    BY <1>1, <1>2
  <2>2. /\ FirstOf(reply, n) \in Seq(Byte) /\ Len(FirstOf(reply, n)) = n
        /\ After(reply, n) \in Seq(Byte) /\ Len(After(reply, n)) = Len(reply) - n
    BY <1>1, <2>1, CutBytes, Zenon
  <2> QED BY <1>2, <2>2, Zenon
<1>5. in' \in Seq(Byte) /\ Len(in') = Len(in) + n
  <2>1. in \o f \in Seq(Byte) /\ Len(in \o f) = Len(in) + Len(f)
    BY <1>1, ConcatProperties
  <2> QED BY <1>2, <1>4, <2>1
<1>6. in' \o reply' = in \o reply
  <2>1. n \in 0 .. Len(reply)
    BY <1>1, <1>2
  <2>2. (in \o FirstOf(reply, n)) \o After(reply, n) = in \o reply
    BY <1>1, <2>1, Moved
  <2> QED BY <1>2, <2>2, Zenon
<1>7. TypeOK'
  <2>1. Len(in') <= InRoom
    BY <1>1, <1>2, <1>5, Sizes
  <2>2. Len(reply') <= ReportSize
    BY <1>1, <1>2, <1>4, Sizes DEF IInv, TypeOK
  <2> QED BY <1>3, <2>1, <2>2 DEF IInv, TypeOK
<1>8. StreamInv'
  BY <1>1, <1>3, <1>4, <1>5 DEF StreamInv
<1>9. PlaceInv'
  BY <1>3 DEF IInv, PlaceInv, Stored
<1>10. OrderInv' /\ FilledInOrder'
  BY <1>3, OrdersKept DEF IInv
<1>11. ReportInv'
  <2>1. Unpublished' = Unpublished
    BY <1>3 DEF Unpublished
  <2>2. ReportsFramed'
    BY <1>3 DEF IInv, ReportInv, ReportsFramed
  <2>3. Carries(buf' \o (in' \o reply'), ReportSize, Unpublished')
    BY <1>3, <1>6, <2>1, Zenon DEF IInv, ReportInv
  <2> QED BY <2>2, <2>3, Zenon DEF ReportInv, Carries
<1>12. LoadInv'
  <2>1. Load' = Load
    BY <1>1, <1>2, <1>3, <1>4, <1>5 DEF Load
  <2> QED BY <1>3, <2>1 DEF IInv, LoadInv
<1> QED BY <1>7, <1>8, <1>9, <1>10, <1>11, <1>12 DEF IInv

\* recv() moves all the bytes on the wire, or all that fit, to the buffer.
LEMMA ReceiveKeeps == ASSUME IInv, Receive PROVE IInv'
<1>1. /\ sending \in Nat /\ out \in Seq(Byte) /\ reply \in Seq(Byte)
      /\ in \in Seq(Byte) /\ buf \in Seq(Byte)
      /\ filled \in Seq(Numbers) /\ published \in Seq(Numbers)
      /\ Len(out) \in Nat /\ Len(reply) \in Nat
      /\ Len(in) \in Nat /\ Len(buf) \in Nat
  BY Lengths DEF IInv
<1>2. /\ pc = "recv" /\ pc' = "top"
      /\ UNCHANGED <<head, next, sending, published, simUp, reply, filled, out, storing, spoiled>>
  BY DEF Receive, ringOnly, simOnly
<1>3. Len(buf) < ReportSize /\ sending = 0
  BY <1>2 DEF IInv, PlaceInv
<1>4. PICK n \in Nat :
        /\ n <= Len(in) /\ n <= BufSize - Len(buf)
        /\ n = Len(in) \/ n > ReportSize
        /\ buf' = buf \o FirstOf(in, n)
        /\ in' = After(in, n)
  <2>1. PICK come \in Int, free \in Int : come = Len(in) /\ free = BufSize - Len(buf)
    <3>1. Len(in) \in Int /\ BufSize - Len(buf) \in Int
      BY <1>1, Sizes
    <3> QED BY <3>1
  <2>2. PICK n \in Int :
          /\ n = Least(Len(in), BufSize - Len(buf))
          /\ n <= Len(in) /\ n <= BufSize - Len(buf)
          /\ n = Len(in) \/ n = BufSize - Len(buf)
    <3>1. /\ Least(come, free) \in Int /\ Least(come, free) <= come
          /\ Least(come, free) <= free
          /\ Least(come, free) = come \/ Least(come, free) = free
      BY LeastIs
    <3> QED BY <2>1, <3>1
  <2>3. n \in Nat /\ (n = Len(in) \/ n > ReportSize)
    BY <1>1, <1>3, <2>2, Sizes
  <2>4. buf' = buf \o FirstOf(in, n) /\ in' = After(in, n)
    BY <2>2 DEF Receive
  <2> QED BY <2>2, <2>3, <2>4
<1>5. PICK f \in Seq(Byte), t \in Seq(Byte) :
        /\ f = FirstOf(in, n) /\ Len(f) = n
        /\ t = After(in, n) /\ Len(t) = Len(in) - n
  <2>1. n \in 0 .. Len(in)
    BY <1>1, <1>4
  <2>2. /\ FirstOf(in, n) \in Seq(Byte) /\ After(in, n) \in Seq(Byte)
        /\ Len(FirstOf(in, n)) = n /\ Len(After(in, n)) = Len(in) - n
    BY <1>1, <2>1, Cut
  <2> QED BY <2>2
<1>6. /\ in' = t /\ buf' = buf \o f
      /\ buf' \in Seq(Byte) /\ Len(buf') = Len(buf) + n
  <2>1. buf \o f \in Seq(Byte) /\ Len(buf \o f) = Len(buf) + Len(f)
    BY <1>1, ConcatProperties
  <2> QED BY <1>4, <1>5, <2>1
<1>7. buf' \o (in' \o reply') = buf \o (in \o reply)
  <2>1. f \o t = in
    <3>1. n \in 0 .. Len(in) /\ <<>> \in Seq(Byte)
      BY <1>1, <1>4
    <3>2. (<<>> \o FirstOf(in, n)) \o After(in, n) = <<>> \o in
      BY <1>1, <3>1, Moved
    <3>3. <<>> \o f = f /\ <<>> \o in = in
      BY <1>1, ConcatEmptySeq
    <3> QED BY <1>5, <3>2, <3>3, Zenon
  <2>2. \A x, y, z \in Seq(Byte) : (buf \o x) \o (y \o z) = buf \o ((x \o y) \o z)
    BY <1>1, RegroupedFour, Zenon
  <2>3. \A y, z \in Seq(Byte) : (buf \o f) \o (y \o z) = buf \o ((f \o y) \o z)
    BY <2>2, Zenon
  <2>4. \A z \in Seq(Byte) : (buf \o f) \o (t \o z) = buf \o ((f \o t) \o z)
    BY <2>3, Zenon
  <2>5. (buf \o f) \o (t \o reply) = buf \o ((f \o t) \o reply)
    BY <1>1, <2>4, Zenon
  <2> QED BY <1>2, <1>6, <2>1, <2>5, Zenon
<1>8. TypeOK'
  <2>1. Len(in') <= InRoom
    BY <1>1, <1>4, <1>5, <1>6, Sizes DEF IInv, TypeOK
  <2>2. Len(buf') <= BufSize
    BY <1>1, <1>4, <1>6, Sizes
  <2> QED BY <1>2, <2>1, <2>2 DEF IInv, TypeOK
<1>9. StreamInv'
  BY <1>1, <1>2, <1>6 DEF StreamInv
<1>10. PlaceInv'
  BY <1>2, <1>3 DEF IInv, PlaceInv, Stored
<1>11. OrderInv' /\ FilledInOrder'
  BY <1>2, OrdersKept DEF IInv
<1>12. ReportInv'
  <2>1. Unpublished' = Unpublished
    BY <1>2 DEF Unpublished
  <2>2. ReportsFramed'
    BY <1>2 DEF IInv, ReportInv, ReportsFramed
  <2>3. Carries(buf' \o (in' \o reply'), ReportSize, Unpublished')
    BY <1>7, <2>1, Zenon DEF IInv, ReportInv
  <2> QED BY <2>2, <2>3, Zenon DEF ReportInv, Carries
<1>13. LoadInv'
  <2>1. Load <= OutRoom + ReportSize + OrderSize
    BY <1>2 DEF IInv, LoadInv
  <2>2. sending = 0
    BY <1>3
  <2>3. Load' <= OutRoom + ReportSize
    <3>1. Load' = Len(out) + 0 + Len(reply) + (Len(in) - n)
      BY <1>2, <1>5, <1>6, <2>2 DEF Load
    <3>2. Load = Len(out) + 0 + Len(reply) + Len(in)
      BY <2>2 DEF Load
    <3>3. CASE n = Len(in)
      BY <1>1, <3>1, <3>3, Sizes DEF IInv, TypeOK
    <3>4. CASE n > ReportSize
      BY <1>1, <2>1, <3>1, <3>2, <3>4, Sizes
    <3> QED BY <1>4, <3>3, <3>4
  <2> QED BY <1>2, <2>3 DEF LoadInv
<1> QED BY <1>8, <1>9, <1>10, <1>11, <1>12, <1>13 DEF IInv

\* The first report of the buffer is published.
LEMMA ParseKeeps == ASSUME IInv, Parse PROVE IInv'
<1>1. /\ sending \in Nat /\ out \in Seq(Byte) /\ reply \in Seq(Byte)
      /\ in \in Seq(Byte) /\ buf \in Seq(Byte)
      /\ filled \in Seq(Numbers) /\ published \in Seq(Numbers)
      /\ Len(in) \in Nat /\ Len(reply) \in Nat
      /\ Len(buf) \in Nat /\ Len(filled) \in Nat /\ Len(published) \in Nat
  BY Lengths DEF IInv
<1>2. /\ pc = "top" /\ ReportSize <= Len(buf)
      /\ published' = Append(published, Decode(FirstOf(buf, ReportSize)))
      /\ buf' = After(buf, ReportSize)
      /\ UNCHANGED <<head, next, pc, sending, simUp, reply, filled, out, in, storing, spoiled>>
  <2>1. ~(Len(buf) < ReportSize) => ReportSize <= Len(buf)
    BY <1>1, Sizes
  <2> QED BY <2>1 DEF Parse, Drained, ProcessExecution, simOnly, ringOnly
<1>3. ReportSize \in 0 .. Len(buf) /\ ReportSize \in Nat \ {0}
  BY <1>1, <1>2, Sizes
<1>4. buf' \in Seq(Byte) /\ Len(buf') = Len(buf) - ReportSize
  BY <1>1, <1>2, <1>3, Cut
<1>5. PICK w \in Seq(Byte) : w = in \o reply
  BY <1>1, ConcatProperties
<1>6. PICK s \in Seq(Byte) : s = buf \o w /\ Len(s) >= ReportSize
  <2>1. Len(w) \in Nat
    BY LenProperties
  <2>2. buf \o w \in Seq(Byte) /\ Len(buf \o w) = Len(buf) + Len(w)
    BY <1>1, ConcatProperties
  <2>3. Len(buf) + Len(w) >= ReportSize
    BY <1>1, <1>2, <2>1, Sizes
  <2> QED BY <2>2, <2>3
<1>7. PICK ns \in Seq(Numbers) :
        /\ ns = Unpublished /\ Len(ns) = Len(filled) - Len(published)
        /\ \A i \in 1 .. Len(filled) - Len(published) : ns[i] = filled[Len(published) + i]
  <2>1. Len(published) <= Len(filled)
    BY DEF IInv, ReportInv, ReportsFramed
  <2> QED BY <1>1, <2>1, UnpublishedIs DEF Unpublished
<1>8. Carries(s, ReportSize, ns)
  BY <1>5, <1>6, <1>7, Zenon DEF IInv, ReportInv
<1>9. Len(ns) > 0
  <2>1. Len(ns) \in Nat /\ Len(s) = ReportSize * Len(ns)
    BY <1>8, LenProperties DEF Carries
  <2>2. ReportSize * 0 = 0
    BY Sizes
  <2>3. Len(ns) # 0
    BY <1>3, <1>6, <2>1, <2>2
  <2> QED BY <2>1, <2>3
<1>10. /\ FirstOf(s, ReportSize) = Bytes(ns[1], ReportSize)
       /\ Carries(After(s, ReportSize), ReportSize, After(ns, 1))
  BY <1>3, <1>8, <1>9, CarriesOneLess
<1>11. /\ FirstOf(s, ReportSize) = FirstOf(buf, ReportSize)
       /\ After(s, ReportSize) = buf' \o w
  BY <1>1, <1>2, <1>3, <1>6, TakenFromFront
<1>12. PICK o \in Numbers : o = ns[1] /\ o = filled[Len(published) + 1]
  <2>1. 1 \in 1 .. Len(ns) /\ 1 \in 1 .. Len(filled) - Len(published)
    BY <1>1, <1>7, <1>9
  <2> QED BY <1>7, <2>1, ElementOfSeq
<1>13. published' = Append(published, o)
  <2>1. Decode(Bytes(o, ReportSize)) = o
    BY <1>3, Decoded
  <2> QED BY <1>2, <1>10, <1>11, <1>12, <2>1
<1>14. /\ published' \in Seq(Numbers) /\ Len(published') = Len(published) + 1
       /\ \A i \in 1 .. Len(published) : published'[i] = published[i]
       /\ published'[Len(published) + 1] = o
  BY <1>1, <1>13, AppendProperties
<1>15. Len(published) + 1 <= Len(filled)
  BY <1>1, <1>7, <1>9
<1>16. ReportsFramed'
  <2>1. DOMAIN published' = 1 .. Len(published) + 1 /\ DOMAIN published = 1 .. Len(published)
    BY <1>1, <1>14, LenProperties
  <2>2. \A i \in 1 .. Len(published) : published[i] = filled[i]
    BY <2>1 DEF IInv, ReportInv, ReportsFramed
  <2>3. \A i \in 1 .. Len(published) + 1 : published'[i] = filled[i]
    <3> TAKE i \in 1 .. Len(published) + 1
    <3>1. CASE i \in 1 .. Len(published)
      BY <1>14, <2>2, <3>1
    <3>2. CASE i = Len(published) + 1
      BY <1>12, <1>14, <3>2
    <3>3. i \in 1 .. Len(published) \/ i = Len(published) + 1
      BY <1>1
    <3> QED BY <3>1, <3>2, <3>3
  <2> QED BY <1>2, <1>14, <1>15, <2>1, <2>3 DEF ReportsFramed
<1>17. Unpublished' = After(ns, 1)
  <2>1. Len(published) < Len(filled) /\ Len(published) <= Len(filled)
    BY <1>1, <1>15
  <2>2. 0 \in Numbers
    BY Sizes DEF Numbers
  <2>3. After(After(filled, Len(published)), 1) = After(filled, Len(published) + 1)
    BY <1>1, <2>1, <2>2, TailMoves
  <2> QED BY <1>2, <1>7, <1>14, <2>3 DEF Unpublished
<1>18. ReportInv'
  <2>1. buf' \o (in' \o reply') = buf' \o w
    BY <1>2, <1>5
  <2>2. Carries(buf' \o (in' \o reply'), ReportSize, Unpublished')
    BY <1>10, <1>11, <1>17, <2>1, Zenon
  <2> QED BY <1>16, <2>2, Zenon DEF ReportInv, Carries
<1>19. TypeOK'
  <2>1. Len(buf') <= BufSize
    BY <1>1, <1>3, <1>4, Sizes DEF IInv, TypeOK
  <2> QED BY <1>2, <2>1 DEF IInv, TypeOK
<1>20. StreamInv'
  BY <1>1, <1>2, <1>4, <1>14 DEF StreamInv
<1>21. PlaceInv' /\ LoadInv'
  BY <1>2 DEF IInv, PlaceInv, Stored, LoadInv, Load
<1>22. OrderInv' /\ FilledInOrder'
  BY <1>2, OrdersKept DEF IInv
<1> QED BY <1>18, <1>19, <1>20, <1>21, <1>22 DEF IInv

\* Less than an order has come: it does not unpack, and the exchange ends.
LEMMA SimTakesTooLittle ==
  ASSUME IInv, SimTake, Len(out) < OrderSize
  PROVE  IInv'
<1>1. /\ sending \in Nat /\ out \in Seq(Byte) /\ reply \in Seq(Byte)
      /\ in \in Seq(Byte) /\ buf \in Seq(Byte)
      /\ filled \in Seq(Numbers) /\ published \in Seq(Numbers)
      /\ Len(out) \in Nat /\ Len(reply) \in Nat
      /\ Len(in) \in Nat
  BY Lengths DEF IInv
<1>2. Least(Len(out), OrderSize) = Len(out)
  BY DEF Least
<1>3. Len(FirstOf(out, Len(out))) = Len(out)
  <2>1. Len(out) \in 0 .. Len(out)
    BY <1>1
  <2> QED BY <1>1, <2>1, Cut
<1>4. /\ simUp' = FALSE /\ out' = After(out, Len(out))
      /\ UNCHANGED <<head, next, pc, sending, buf, published, reply, filled, in, storing, spoiled>>
  BY <1>2, <1>3 DEF SimTake, engineOnly, ringOnly
<1>5. out' \in Seq(Byte) /\ Len(out') = 0
  <2>1. Len(out) \in 0 .. Len(out) /\ Len(out) - Len(out) = 0
    BY <1>1
  <2>2. /\ After(out, Len(out)) \in Seq(Byte)
        /\ Len(After(out, Len(out))) = Len(out) - Len(out)
    BY <1>1, <2>1, Cut
  <2> QED BY <1>4, <2>1, <2>2
<1>6. TypeOK'
  <2>1. Len(out') <= OutRoom
    BY <1>5, Sizes
  <2> QED BY <1>4, <2>1 DEF IInv, TypeOK
<1>7. StreamInv'
  BY <1>1, <1>4, <1>5 DEF StreamInv
<1>8. PlaceInv' /\ FilledInOrder'
  BY <1>4 DEF IInv, PlaceInv, Stored, FilledInOrder, Lost, Unmapped, Slot
<1>9. OrderInv'
  BY <1>4 DEF IInv, OrderInv, Handed
<1>10. ReportInv'
  BY <1>4, ReportsKept DEF IInv
<1>11. LoadInv'
  <2>1. Load' \in Int /\ Load \in Int /\ Load' <= Load
    <3>1. /\ Load = Len(out) + sending + Len(reply) + Len(in)
          /\ Load' = Len(out') + sending + Len(reply) + Len(in)
      BY <1>4 DEF Load
    <3> QED BY <1>1, <1>5, <3>1
  <2>2. \A room \in Int : Load <= room => Load' <= room
    BY <2>1
  <2>3. OutRoom + ReportSize \in Int /\ OutRoom + ReportSize + OrderSize \in Int
    BY Sizes
  <2> QED BY <1>4, <2>2, <2>3 DEF IInv, LoadInv
<1> QED BY <1>6, <1>7, <1>8, <1>9, <1>10, <1>11 DEF IInv

\* An order has come whole: it is filled, and its report is to be sent.
LEMMA SimTakesAnOrder ==
  ASSUME IInv, SimTake, ~(Len(out) < OrderSize)
  PROVE  IInv'
<1>1. /\ sending \in Nat /\ out \in Seq(Byte) /\ reply \in Seq(Byte)
      /\ in \in Seq(Byte) /\ buf \in Seq(Byte)
      /\ filled \in Seq(Numbers) /\ published \in Seq(Numbers)
      /\ Len(out) \in Nat /\ Len(reply) \in Nat
      /\ Len(in) \in Nat /\ Len(filled) \in Nat /\ Len(published) \in Nat
  BY Lengths DEF IInv
<1>2. PICK z \in Nat \ {0} : z = OrderSize /\ z = ReportSize /\ z <= Len(out)
  BY <1>1, Sizes
<1>3. z \in 0 .. Len(out) /\ Least(Len(out), OrderSize) = z
  BY <1>1, <1>2 DEF Least
<1>4. PICK f \in Seq(Byte), t \in Seq(Byte) :
        /\ f = FirstOf(out, z) /\ Len(f) = z
        /\ t = After(out, z) /\ Len(t) = Len(out) - z
  <2>1. /\ FirstOf(out, z) \in Seq(Byte) /\ After(out, z) \in Seq(Byte)
        /\ Len(FirstOf(out, z)) = z /\ Len(After(out, z)) = Len(out) - z
    BY <1>1, <1>3, Cut
  <2> QED BY <2>1
<1>5. PICK o \in Numbers : o = Decode(f)
  <2>1. Len(<<>>) = 0
    OBVIOUS
  <2>2. f # <<>>
    BY <1>4, <2>1
  <2> QED BY <2>2, DecodeType
<1>6. /\ simUp /\ simUp' = simUp /\ reply = <<>> /\ out' = t
      /\ filled' = Append(filled, o) /\ reply' = Bytes(o, z)
      /\ UNCHANGED <<head, next, pc, sending, buf, published, in, storing, spoiled>>
  <2>1. Len(FirstOf(out, Least(Len(out), OrderSize))) = z
    BY <1>3, <1>4
  <2>2. ~(z < OrderSize)
    BY <1>2
  <2>3. /\ filled' = Append(filled, Decode(FirstOf(out, Least(Len(out), OrderSize))))
        /\ reply' = Bytes(Decode(FirstOf(out, Least(Len(out), OrderSize))), ReportSize)
        /\ simUp' = simUp
        /\ out' = After(out, Len(FirstOf(out, Least(Len(out), OrderSize))))
    BY <2>1, <2>2 DEF SimTake
  <2>4. /\ simUp /\ reply = <<>>
        /\ UNCHANGED <<head, next, pc, sending, buf, published, in, storing, spoiled>>
    BY DEF SimTake, engineOnly, ringOnly
  <2> QED BY <1>2, <1>3, <1>4, <1>5, <2>1, <2>3, <2>4
<1>7. PICK b \in Seq(Byte) : b = Bytes(o, z) /\ Len(b) = z
  BY BytesOf
<1>8. /\ filled' \in Seq(Numbers) /\ Len(filled') = Len(filled) + 1
      /\ \A i \in 1 .. Len(filled) : filled'[i] = filled[i]
      /\ filled'[Len(filled) + 1] = o
  BY <1>1, <1>6, AppendProperties
<1>9. Len(reply) = 0
  BY <1>6
<1>10. head \in 0 .. MaxOrders /\ next \in 0 .. head
  BY DEF IInv, TypeOK
\* The orders' side.
<1>11. PICK h \in Nat : Handed = h + 1 /\ Len(filled) <= h /\ h < MaxOrders
  <2>1. Handed \in Nat /\ Handed <= MaxOrders /\ Len(filled) <= Handed
    <3>1. sending # 0 => next < head
      BY DEF IInv, PlaceInv
    <3>2. Handed \in Nat /\ Handed <= MaxOrders
      BY <1>10, <3>1, Sizes DEF Handed
    <3> QED BY <3>2 DEF IInv, OrderInv
  <2>2. Len(filled) # Handed
    <3>1. Len(out) + sending = z * (Handed - Len(filled))
      BY <1>2, <1>6, Zenon DEF IInv, OrderInv
    <3>2. z * 0 = 0
      OBVIOUS
    <3>3. Len(out) + sending # 0
      BY <1>1, <1>2
    <3>4. Len(filled) = Handed => Handed - Len(filled) = 0
      BY <2>1
    <3> QED BY <3>1, <3>2, <3>3, <3>4
  <2>3. Handed - 1 \in Nat /\ Handed = (Handed - 1) + 1 /\ Len(filled) <= Handed - 1
        /\ Handed - 1 < MaxOrders
    BY <1>1, <2>1, <2>2, Sizes
  <2> QED BY <2>3
<1>12. Handed' = Handed
  BY <1>6 DEF Handed
<1>13. PICK m \in Nat : m = h - Len(filled) /\ (h + 1) - Len(filled) = m + 1
                        /\ (h + 1) - (Len(filled) + 1) = m
  <2>1. /\ h - Len(filled) \in Nat
        /\ (h + 1) - Len(filled) = (h - Len(filled)) + 1
        /\ (h + 1) - (Len(filled) + 1) = h - Len(filled)
    BY <1>1, <1>11
  <2> QED BY <2>1
<1>14. Len(out') + sending' = OrderSize * (Handed' - Len(filled'))
  <2>1. PICK l \in Nat : l = z * m /\ z * (m + 1) = l + z
    BY NextMultiple
  <2>2. Len(out) + sending = z * ((h + 1) - Len(filled))
    BY <1>2, <1>6, <1>11, Zenon DEF IInv, OrderInv
  <2>3. Len(out) + sending = l + z
    BY <1>13, <2>1, <2>2
  <2>4. (Len(out) - z) + sending = l
    BY <1>1, <2>3
  <2>5. Len(out') = Len(out) - z /\ sending' = sending
    BY <1>4, <1>6
  <2>6. OrderSize * (Handed' - Len(filled')) = l
    BY <1>2, <1>8, <1>11, <1>12, <1>13, <2>1
  <2> QED BY <2>4, <2>5, <2>6
<1>15. \A i : Lost(i)' = Lost(i)
  BY <1>6 DEF Lost, Unmapped, Slot
<1>16. o = Len(filled) \/ Lost(Len(filled))
  <2> SUFFICES ASSUME ~Lost(Len(filled)) PROVE o = Len(filled)
    OBVIOUS
  <2>1. Len(filled) \in Numbers
    BY <1>1, <1>11, Sizes DEF Numbers
  <2>2. \A k \in 1 .. z : out[k] = <<Len(filled), k>>
    <3> TAKE k \in 1 .. z
    <3>1. 0 \in 0 .. OutRoom /\ OrderSize * 0 + k = k /\ Len(filled) + 0 = Len(filled)
      BY <1>1, <1>2, Sizes
    <3>2. k \in 1 .. OrderSize /\ k <= Len(out)
      BY <1>1, <1>2
    <3>3. out[OrderSize * 0 + k] = <<Len(filled) + 0, k>> \/ Lost(Len(filled) + 0)
      BY <1>6, <3>1, <3>2 DEF IInv, OrderInv
    <3> QED BY <3>1, <3>3
  <2>3. \A k \in 1 .. z : f[k] = <<Len(filled), k>>
    <3>1. \A k \in 1 .. z : FirstOf(out, z)[k] = out[k]
      BY <1>1, <1>3, Cut
    <3> QED BY <1>4, <2>2, <3>1
  <2>4. PICK c \in Seq(Byte) : /\ c = Bytes(Len(filled), z) /\ Len(c) = z
                             /\ \A k \in 1 .. z : c[k] = <<Len(filled), k>>
    BY <2>1, BytesOf
  <2>5. f = c
    BY <1>4, <2>3, <2>4, SeqEqual
  <2>6. Decode(Bytes(Len(filled), z)) = Len(filled)
    BY <2>1, Decoded
  <2> QED BY <1>5, <2>4, <2>5, <2>6
<1>17. OrderInv' /\ FilledInOrder'
  <2>1. Len(filled') <= Handed'
    BY <1>1, <1>8, <1>11, <1>12
  <2>2. ASSUME NEW j \in 0 .. OutRoom, NEW k \in 1 .. OrderSize,
               OrderSize * j + k <= Len(out')
        PROVE  \/ out'[OrderSize * j + k] = <<Len(filled') + j, k>>
               \/ Lost(Len(filled') + j)
    <3> j \in Nat /\ z \in Nat
      BY <1>2, Sizes
    <3>1. PICK p \in Nat : p = z * j /\ z * (j + 1) = p + z
      BY NextMultiple
    <3>2. p + k \in 1 .. Len(out) - z
      <4>1. k \in Nat /\ k > 0
        BY Sizes
      <4>2. OrderSize * j + k = p + k /\ Len(out') = Len(out) - z
        BY <1>2, <1>4, <1>6, <3>1
      <4> QED BY <1>1, <2>2, <4>1, <4>2
    <3>3. j + 1 \in 0 .. OutRoom
      <4>1. j <= p
        BY <1>2, <3>1, NotLess
      <4>2. Len(out) <= OutRoom
        BY DEF IInv, TypeOK
      <4>3. j + 1 <= p + z /\ p + z <= Len(out)
        <5>1. k \in Nat /\ k > 0
          BY Sizes
        <5> QED BY <1>1, <1>2, <3>2, <4>1, <5>1
      <4> QED BY <1>1, <4>2, <4>3, Sizes
    <3>4. t[p + k] = out[z + (p + k)]
      <4>1. \A i \in 1 .. Len(out) - z : After(out, z)[i] = out[z + i]
        BY <1>1, <1>3, Cut
      <4> QED BY <1>4, <3>2, <4>1
    <3>5. /\ OrderSize * (j + 1) + k = z + (p + k) /\ z + (p + k) <= Len(out)
          /\ Len(filled) + (j + 1) = (Len(filled) + 1) + j
      <4>1. OrderSize * (j + 1) = p + z
        BY <1>2, <3>1
      <4>2. PICK q \in Nat : q = OrderSize * (j + 1) /\ q = p + z
        BY <4>1
      <4>3. k \in Nat
        BY Sizes
      <4>4. (p + z) + k = z + (p + k) /\ z + (p + k) <= Len(out)
        BY <1>1, <3>2, <4>3
      <4>5. Len(filled) + (j + 1) = (Len(filled) + 1) + j
        BY <1>1
      <4> QED BY <4>2, <4>4, <4>5, Zenon
    <3>6. \/ out[OrderSize * (j + 1) + k] = <<Len(filled) + (j + 1), k>>
          \/ Lost(Len(filled) + (j + 1))
      BY <1>6, <3>3, <3>5 DEF IInv, OrderInv
    <3>7. out' = t /\ Len(filled') = Len(filled) + 1 /\ OrderSize * j + k = p + k
      BY <1>2, <1>6, <1>8, <3>1
    <3> QED BY <3>4, <3>5, <3>6, <3>7
  <2>3. OrderInv'
    BY <1>14, <1>15, <2>1, <2>2 DEF OrderInv
  <2>4. DOMAIN filled' = 1 .. Len(filled) + 1 /\ DOMAIN filled = 1 .. Len(filled)
    BY <1>1, <1>8, LenProperties
  <2>5. \A i \in 1 .. Len(filled) : filled[i] = i - 1 \/ Lost(i - 1)
    BY <2>4 DEF IInv, FilledInOrder
  <2>6. \A i \in 1 .. Len(filled) + 1 : filled'[i] = i - 1 \/ Lost(i - 1)
    <3> TAKE i \in 1 .. Len(filled) + 1
    <3>1. CASE i \in 1 .. Len(filled)
      BY <1>8, <2>5, <3>1
    <3>2. CASE i = Len(filled) + 1
      <4>1. i - 1 = Len(filled)
        BY <1>1, <3>2
      <4> QED BY <1>8, <1>16, <3>2, <4>1
    <3>3. i \in 1 .. Len(filled) \/ i = Len(filled) + 1
      <4>1. PICK l \in Nat : l = Len(filled)
        BY <1>1
      <4>2. i \in 1 .. l \/ i = l + 1
        BY <4>1
      <4> QED BY <4>1, <4>2
    <3> QED BY <3>1, <3>2, <3>3
  <2>7. FilledInOrder'
    BY <1>15, <2>4, <2>6 DEF FilledInOrder
  <2> QED BY <2>3, <2>7
\* The reports' side.
<1>18. PICK ns \in Seq(Numbers) : ns = Unpublished /\ Unpublished' = Append(ns, o)
  <2>1. Len(published) <= Len(filled)
    BY DEF IInv, ReportInv, ReportsFramed
  <2>2. After(filled, Len(published)) \in Seq(Numbers)
    BY <1>1, <2>1, UnpublishedIs
  <2>3. After(Append(filled, o), Len(published)) = Append(After(filled, Len(published)), o)
    BY <1>1, <2>1, TailMoves
  <2> QED BY <1>6, <2>2, <2>3 DEF Unpublished
<1>19. Carries(buf' \o (in' \o reply'), ReportSize, Unpublished')
  <2>1. PICK u \in Seq(Byte), i \in Seq(Byte) : u = buf /\ i = in
    BY <1>1
  <2>2. in \o reply = in
    BY <1>1, <1>6, ConcatEmptySeq
  <2>3. Carries(u \o i, z, ns)
    BY <1>2, <1>18, <2>1, <2>2, Zenon DEF IInv, ReportInv
  <2>4. Carries(u \o (i \o Bytes(o, z)), z, Append(ns, o))
    BY <2>3, CarriesOneMoreBehind
  <2> QED BY <1>2, <1>6, <1>18, <2>1, <2>4, Zenon
<1>20. ReportInv'
  <2>1. ReportsFramed'
    <3>1. Len(published') <= Len(filled')
      BY <1>1, <1>6, <1>8 DEF IInv, ReportInv, ReportsFramed
    <3>2. DOMAIN published = 1 .. Len(published)
      BY <1>1, LenProperties
    <3>3. \A i \in 1 .. Len(published) : i \in 1 .. Len(filled)
      BY <1>1 DEF IInv, ReportInv, ReportsFramed
    <3>4. \A i \in DOMAIN published : published[i] = filled'[i]
      BY <1>8, <3>2, <3>3 DEF IInv, ReportInv, ReportsFramed
    <3> QED BY <1>6, <3>1, <3>4 DEF ReportsFramed
  <2> QED BY <1>19, <2>1, Zenon DEF ReportInv, Carries
<1>21. TypeOK'
  <2>1. Len(out') <= OutRoom
    BY <1>1, <1>2, <1>4, <1>6, Sizes DEF IInv, TypeOK
  <2>2. Len(reply') <= ReportSize
    BY <1>2, <1>6, <1>7
  <2> QED BY <1>6, <2>1, <2>2 DEF IInv, TypeOK
<1>22. StreamInv'
  BY <1>1, <1>6, <1>7, <1>8 DEF StreamInv
<1>23. PlaceInv'
  BY <1>6 DEF IInv, PlaceInv, Stored
<1>24. LoadInv'
  <2>1. Load' = (Len(out) - z) + sending + z + Len(in)
    BY <1>4, <1>6, <1>7 DEF Load
  <2>2. Load = Len(out) + sending + 0 + Len(in)
    BY <1>9 DEF Load
  <2>3. Load' = Load
    BY <1>1, <2>1, <2>2
  <2> QED BY <1>6, <2>3 DEF IInv, LoadInv
<1> QED BY <1>17, <1>20, <1>21, <1>22, <1>23, <1>24 DEF IInv

----------------------------------------------------------------------------
(* The theorems.                                                           *)

\* The inductive invariant holds of every reachable state.
THEOREM Invariance == Spec => []IInv
<1>1. Init => IInv
  BY InitHolds
<1>2. IInv /\ [Next]_vars => IInv'
  <2> SUFFICES ASSUME IInv, [Next]_vars PROVE IInv'
    OBVIOUS
  <2>1. CASE BeginOrder \/ EndOrder
    BY <2>1, BeginOrderKeeps, EndOrderKeeps
  <2>2. CASE TakeOrder
    BY <2>2, TakeOrderKeeps
  <2>3. CASE Send
    BY <2>3, SendKeeps
  <2>4. CASE Receive
    BY <2>4, ReceiveKeeps
  <2>5. CASE Parse
    BY <2>5, ParseKeeps
  <2>6. CASE Exit
    BY <2>6, ExitKeeps
  <2>7. CASE SimTake
    BY <2>7, SimTakesTooLittle, SimTakesAnOrder
  <2>8. CASE SimReply
    BY <2>8, SimReplyKeeps
  <2>9. CASE SimExit
    BY <2>9, SimExitKeeps
  <2>10. CASE UNCHANGED vars
    BY <2>10, IdleKeeps
  <2> QED
    BY <2>1, <2>2, <2>3, <2>4, <2>5, <2>6, <2>7, <2>8, <2>9, <2>10
    DEF Next, Engine, Exchange
<1> QED BY <1>1, <1>2, PTL DEF Spec

\* The variables keep their ranges: nothing outgrows its buffer.
THEOREM TypeCorrect == Spec => []TypeOK
<1>1. IInv => TypeOK
  BY DEF IInv
<1> QED BY <1>1, Invariance, PTL

\* The exchange fills what the live engine wrote, each order whole, once and in
\* turn, whatever the laps of the ring, save the orders they stored over and
\* those of the slot that is not memory.
THEOREM OrdersInOrder == Spec => []FilledInOrder
<1>1. IInv => FilledInOrder
  BY DEF IInv
<1> QED BY <1>1, Invariance, PTL

\* However the stream of reports is cut, those published are those sent.
THEOREM Framing == Spec => []ReportsFramed
<1>1. IInv => ReportsFramed
  BY DEF IInv, ReportInv
<1> QED BY <1>1, Invariance, PTL

\* recv() is always offered room for a whole report.
THEOREM RoomForAReport == Spec => []BufferHasRoom
<1>1. IInv => BufferHasRoom
  <2> SUFFICES ASSUME IInv, pc = "recv" PROVE BufSize - Len(buf) >= ReportSize
    BY DEF BufferHasRoom
  <2>1. Len(buf) \in Nat
    BY Lengths DEF IInv
  <2>2. Len(buf) < ReportSize
    BY DEF IInv, PlaceInv
  <2> QED BY <2>1, <2>2, Sizes
<1> QED BY <1>1, Invariance, PTL

\* While no order waits in send() the wire holds whole orders only.
THEOREM CutOnlyWhenFull == Spec => []OrdersCutOnlyWhenFull
<1>1. IInv => OrdersCutOnlyWhenFull
  <2> SUFFICES ASSUME IInv, simUp, sending = 0 PROVE Len(out) % OrderSize = 0
    BY DEF OrdersCutOnlyWhenFull
  <2>1. PICK z \in Nat \ {0} : z = OrderSize
    BY Sizes
  <2>2. PICK n \in Nat : n = Len(out)
    BY Lengths DEF IInv
  <2>3. PICK k \in Int : k = Handed - Len(filled)
    <3>1. next \in Int /\ Handed = next
      BY DEF IInv, TypeOK, Handed
    <3>2. Len(filled) \in Int
      BY Lengths DEF IInv
    <3>3. Handed - Len(filled) \in Int
      BY <3>1, <3>2
    <3> QED BY <3>3
  <2>4. n = z * k
    <3>1. Len(out) + sending = OrderSize * (Handed - Len(filled))
      BY Zenon DEF IInv, OrderInv
    <3> QED BY <2>1, <2>2, <2>3, <3>1
  <2>5. /\ n \div z \in Nat /\ (n % z) \in 0 .. z - 1
        /\ n = z * (n \div z) + (n % z)
    BY <2>1, DivMod
  <2>6. PICK q \in Int, r \in 0 .. z - 1 : r = n % z /\ n = z * q + r
    <3>1. PICK r \in 0 .. z - 1 : r = n % z
      BY <2>5
    <3>2. PICK q \in Int : q = n \div z
      BY <2>5
    <3> QED BY <2>5, <3>1, <3>2, Zenon
  <2>7. 0 \in 0 .. z - 1 /\ z * q + r = z * k + 0
    BY <2>1, <2>4, <2>6
  <2>8. r = 0
    BY <2>1, <2>7, Unique
  <2> QED BY <2>1, <2>2, <2>6, <2>8
<1> QED BY <1>1, Invariance, PTL

\* The engine and the exchange never wait for one another: what would have to
\* be under way is more than ever is.
THEOREM NeverStandoff == Spec => []NoStandoff
<1>1. IInv => NoStandoff
  <2> SUFFICES ASSUME IInv, pc = "send", Len(out) = OutRoom, reply # <<>>, Len(in) = InRoom
               PROVE  FALSE
    BY DEF NoStandoff
  <2>1. sending \in Nat /\ Len(reply) \in Nat /\ reply \in Seq(Byte)
    BY Lengths DEF IInv
  <2>2. sending # 0
    BY DEF IInv, PlaceInv
  <2>3. Len(reply) # 0
    BY <2>1, <2>2, EmptySeq
  <2>4. Load <= OutRoom + ReportSize + OrderSize
    BY DEF IInv, LoadInv
  <2>5. Load = OutRoom + sending + Len(reply) + InRoom
    BY DEF Load
  <2> QED BY <2>1, <2>2, <2>3, <2>4, <2>5, Sizes
<1> QED BY <1>1, Invariance, PTL

=============================================================================
