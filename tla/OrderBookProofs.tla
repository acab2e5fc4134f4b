--------------------------- MODULE OrderBookProofs ----------------------------
(***************************************************************************)
(* Theorems about OrderBook, for any identifiers, prices and quantities.    *)
(***************************************************************************)
EXTENDS OrderBook, Sums, SequenceTheorems

-----------------------------------------------------------------------------
(* Sequences *)

\* The rest of a sequence after its first k elements.
LEMMA RestOf ==
    ASSUME NEW S, NEW s \in Seq(S), NEW k \in 0 .. Len(s)
    PROVE  /\ SubSeq(s, k + 1, Len(s)) \in Seq(S)
           /\ Len(SubSeq(s, k + 1, Len(s))) = Len(s) - k
           /\ \A i \in 1 .. Len(s) - k : SubSeq(s, k + 1, Len(s))[i] = s[k + i]
<1>1. PICK n \in Nat : n = Len(s) /\ k \in 0 .. n
    OBVIOUS
<1>2. PICK m \in Int : m = k + 1
    BY <1>1
<1>3. \A i \in m .. n : s[i] \in S
    BY <1>1, <1>2
<1>4. PICK b : b = SubSeq(s, m, n)
    OBVIOUS
<1>5. b \in Seq(S) /\ Len(b) = IF m <= n THEN n - m + 1 ELSE 0
    BY <1>3, <1>4, SubSeqProperties
<1>6. \A i \in 1 .. n - m + 1 : b[i] = s[m + i - 1]
    BY <1>3, <1>4, SubSeqProperties
<1>7. Len(b) = n - k /\ n - m + 1 = n - k
    BY <1>1, <1>2, <1>5
<1>8. ASSUME NEW i \in 1 .. n - k PROVE b[i] = s[k + i]
    <2>1. m + i - 1 = k + i
        BY <1>1, <1>2
    <2>2. b[i] = s[m + i - 1]
        BY <1>6, <1>7
    <2>3. QED BY <2>1, <2>2
<1>9. QED BY <1>1, <1>2, <1>4, <1>5, <1>7, <1>8

-----------------------------------------------------------------------------
(* What the loop of match_against_book leaves *)

\* A side of the book.
Line(book, side) ==
    /\ book \in Seq(Order)
    /\ \A i \in DOMAIN book :
        book[i].side = side /\ book[i].limit \in Int /\ book[i].quantity > 0

\* The sums are sums.
LEMMA DepthIs ==
    ASSUME NEW book, Len(book) \in Nat, \A i \in 1 .. Len(book) : book[i].quantity \in Int
    PROVE  /\ Depth(book) \in [0 .. Len(book) -> Int]
           /\ Depth(book)[0] = 0
           /\ \A n \in 1 .. Len(book) : Depth(book)[n] = Depth(book)[n - 1] + book[n].quantity
<1> DEFINE N == 0 .. Len(book)
           Sums(f, m) == /\ f \in [0 .. m -> Int]
                         /\ \A n \in 0 .. m : f[n] = IF n = 0 THEN 0 ELSE f[n - 1] + book[n].quantity
           S == {m \in Nat : m <= Len(book) => \E f : Sums(f, m)}
<1>1. 0 \in S
    <2>1. Sums([n \in 0 .. 0 |-> 0], 0)
        OBVIOUS
    <2>2. QED BY <2>1
<1>2. ASSUME NEW m \in Nat, m \in S PROVE m + 1 \in S
    <2>1. ASSUME m + 1 <= Len(book) PROVE \E g : Sums(g, m + 1)
        <3>1. PICK f : Sums(f, m)
            BY <1>2, <2>1
        <3>2. book[m + 1].quantity \in Int /\ f[m] \in Int
            BY <2>1, <3>1
        <3>3. PICK g : g = [n \in 0 .. m + 1 |-> IF n <= m THEN f[n] ELSE f[m] + book[m + 1].quantity]
            OBVIOUS
        <3>4. g \in [0 .. m + 1 -> Int]
            BY <3>1, <3>2, <3>3
        <3>5. \A n \in 0 .. m : g[n] = IF n = 0 THEN 0 ELSE g[n - 1] + book[n].quantity
            BY <3>1, <3>3
        <3>6. g[m + 1] = g[m] + book[m + 1].quantity
            BY <3>3
        <3>7. ASSUME NEW n \in 0 .. m + 1
              PROVE  g[n] = IF n = 0 THEN 0 ELSE g[n - 1] + book[n].quantity
            <4>1. CASE n = m + 1
                BY <3>6, <4>1
            <4>2. CASE n \in 0 .. m
                BY <3>5, <4>2
            <4>3. QED BY <4>1, <4>2
        <3>8. Sums(g, m + 1)
            BY <3>4, <3>7
        <3>9. QED BY <3>8
    <2> HIDE DEF Sums
    <2>2. QED BY <2>1
<1>3. Len(book) \in S
    <2> HIDE DEF S
    <2>1. QED BY <1>1, <1>2, EveryNumber
<1>4. PICK f : Sums(f, Len(book))
    BY <1>3
<1>5. f = [n \in N |-> IF n = 0 THEN 0 ELSE f[n - 1] + book[n].quantity]
    BY <1>4
<1>6. Depth(book) = [n \in N |-> IF n = 0 THEN 0 ELSE Depth(book)[n - 1] + book[n].quantity]
    BY <1>5 DEF Depth
<1>7. \A n \in N : Depth(book)[n] = IF n = 0 THEN 0 ELSE Depth(book)[n - 1] + book[n].quantity
    BY <1>6
<1>8. \A n \in N : Depth(book)[n] \in Int
    <2> DEFINE D == {n \in Nat : n <= Len(book) => Depth(book)[n] \in Int}
    <2>1. 0 \in D
        BY <1>7
    <2>2. ASSUME NEW n \in Nat, n \in D PROVE n + 1 \in D
        BY <1>7, <2>2
    <2>3. Nat \subseteq D
        <3> HIDE DEF D
        <3>1. QED BY <2>1, <2>2, EveryNumber
    <2>4. QED BY <2>3
<1>9. Depth(book) \in [N -> Int]
    BY <1>6, <1>8
<1>10. QED BY <1>7, <1>9

\* What is taken from the next order is less than it has, and something is left over
\* only when the next order does not cross.
LEMMA Matched ==
    ASSUME NEW side \in Sides, NEW book, Line(book, side), NEW o \in Order, NEW filled \in 0 .. Len(book),
           StopsAfter(o, book, filled)
    PROVE  /\ Portion(o, book, filled) \in Nat
           /\ Leftover(o, book, filled) \in Nat
           /\ Portion(o, book, filled) > 0 =>
                /\ filled < Len(book) /\ Crosses(o, book[filled + 1])
           /\ filled < Len(book) => Portion(o, book, filled) < book[filled + 1].quantity
           /\ Leftover(o, book, filled) > 0 /\ filled < Len(book) => ~ Crosses(o, book[filled + 1])
<1>1. Len(book) \in Nat /\ \A i \in 1 .. Len(book) : book[i] \in Order /\ book[i].quantity > 0
    BY DEF Line
<1>2. \A i \in 1 .. Len(book) : book[i].quantity \in Int
    BY <1>1 DEF Order
<1>3. /\ Depth(book)[filled] \in Int
      /\ filled < Len(book) => Depth(book)[filled + 1] = Depth(book)[filled] + book[filled + 1].quantity
    BY <1>1, <1>2, DepthIs
<1>4. o.quantity \in Int /\ Depth(book)[filled] <= o.quantity
    BY DEF StopsAfter, Order
<1>5. CASE filled < Len(book) /\ Crosses(o, book[filled + 1])
    <2>1. Portion(o, book, filled) = o.quantity - Depth(book)[filled]
        BY <1>5 DEF Portion
    <2>2. Depth(book)[filled] = o.quantity \/ o.quantity < Depth(book)[filled + 1]
        BY <1>5 DEF StopsAfter
    <2>3. filled + 1 \in 1 .. Len(book)
        BY <1>1, <1>5
    <2>4. QED BY <1>1, <1>2, <1>3, <1>4, <1>5, <2>1, <2>2, <2>3 DEF Leftover
<1>6. CASE ~ (filled < Len(book) /\ Crosses(o, book[filled + 1]))
    <2>1. Portion(o, book, filled) = 0
        BY <1>6 DEF Portion
    <2>2. filled < Len(book) => filled + 1 \in 1 .. Len(book)
        BY <1>1
    <2>3. QED BY <1>1, <1>3, <1>4, <1>6, <2>1, <2>2 DEF Leftover
<1>7. QED BY <1>5, <1>6

\* The orders that stay are the later ones, in their places, the first of them with less.
LEMMA RemainingIs ==
    ASSUME NEW side \in Sides, NEW book, Line(book, side), NEW o \in Order, NEW filled \in 0 .. Len(book),
           StopsAfter(o, book, filled), NEW rest, rest = Remaining(o, book, filled)
    PROVE  /\ Line(rest, side) /\ Len(rest) = Len(book) - filled
           /\ \A i \in 1 .. Len(rest) :
                /\ rest[i].id = book[filled + i].id /\ rest[i].limit = book[filled + i].limit
                /\ rest[i].sequence = book[filled + i].sequence
                /\ i > 1 => rest[i] = book[filled + i]
<1> DEFINE n == Len(book) - filled
           part(i) == IF i = 1 THEN Portion(o, book, filled) ELSE 0
<1>1. Len(book) \in Nat /\ n \in Nat
      /\ \A i \in 1 .. Len(book) : book[i] \in Order /\ book[i].quantity > 0 /\ book[i].limit \in Int
                                   /\ book[i].side = side
    BY DEF Line
<1>2. rest = [i \in 1 .. n |-> [book[filled + i] EXCEPT !.quantity = book[filled + i].quantity - part(i)]]
    BY DEF Remaining
<1>3. ASSUME NEW i \in 1 .. n
      PROVE  /\ rest[i] \in Order /\ rest[i].side = side /\ rest[i].limit \in Int /\ rest[i].quantity > 0
             /\ rest[i].id = book[filled + i].id /\ rest[i].limit = book[filled + i].limit
             /\ rest[i].sequence = book[filled + i].sequence
             /\ i > 1 => rest[i] = book[filled + i]
    <2>1. filled + i \in 1 .. Len(book)
        BY <1>1
    <2>2. PICK r \in Order : r = book[filled + i] /\ r.quantity > 0 /\ r.limit \in Int /\ r.side = side
        BY <1>1, <2>1
    <2>3. part(i) \in Nat /\ part(i) < r.quantity /\ (i > 1 => part(i) = 0)
        BY <1>1, <2>1, <2>2, Matched DEF Order
    <2> HIDE DEF part
    <2>4. PICK left \in Int : left = r.quantity - part(i) /\ left > 0
        BY <2>3 DEF Order
    <2>5. rest[i] = [r EXCEPT !.quantity = left]
        BY <1>2, <2>2, <2>4
    <2>6. /\ rest[i] \in Order /\ rest[i].quantity = left /\ rest[i].id = r.id /\ rest[i].side = r.side
          /\ rest[i].limit = r.limit /\ rest[i].sequence = r.sequence
        BY <2>5 DEF Order
    <2>7. i > 1 => left = r.quantity
        BY <2>3, <2>4 DEF Order
    <2>8. left = r.quantity => rest[i] = r
        BY <2>5 DEF Order
    <2>9. QED BY <2>2, <2>4, <2>6, <2>7, <2>8
<1>4. rest \in Seq(Order) /\ Len(rest) = n /\ DOMAIN rest = 1 .. n
    <2>1. rest \in [1 .. n -> Order]
        BY <1>2, <1>3
    <2>2. QED BY <1>1, <2>1, SeqDef
<1>5. QED BY <1>3, <1>4 DEF Line

-----------------------------------------------------------------------------
(* Where an order comes to rest *)

Sorted(book) == \A i, j \in DOMAIN book : i < j => Ahead(book[i], book[j])

\* A newcomer is placed behind all that are ahead of it, and before the others.
LEMMA RestedIs ==
    ASSUME NEW side \in Sides, NEW book, Line(book, side), Sorted(book), NEW o \in Order,
           o.side = side, o.limit \in Int, o.quantity > 0,
           \A i \in DOMAIN book : book[i].sequence < o.sequence,
           NEW rest, rest = Rested(o, book)
    PROVE  /\ Line(rest, side) /\ Sorted(rest) /\ Len(rest) = Len(book) + 1
           /\ \E k \in 0 .. Len(book) :
                \A i \in 1 .. Len(rest) :
                    rest[i] = IF i <= k THEN book[i] ELSE IF i = k + 1 THEN o ELSE book[i - 1]
<1>0. book \in Seq(Order) /\ Len(book) \in Nat
    BY DEF Line
<1>1. Len(book) \in Nat /\ DOMAIN book = 1 .. Len(book)
      /\ \A i \in 1 .. Len(book) : book[i] \in Order /\ book[i].limit \in Int /\ book[i].side = side
                                   /\ book[i].quantity > 0
    BY DEF Line
<1> DEFINE T == {n \in 1 .. Len(book) + 1 : n = Len(book) + 1 \/ ~ Ahead(book[n], o)}
<1>2. PICK n \in T : \A m \in T : n <= m
    <2>1. Len(book) + 1 \in T /\ T \in SUBSET Nat
        BY <1>1
    <2> HIDE DEF T
    <2>2. QED BY <2>1, Least
<1>3. PICK k \in 0 .. Len(book) : k = n - 1
    BY <1>1, <1>2
<1>4. \A i \in 1 .. k : Ahead(book[i], o)
    BY <1>1, <1>2, <1>3
<1>5. \A i \in 1 .. Len(book) : i > k => ~ Ahead(book[i], o) /\ Ahead(o, book[i])
    <2>1. SUFFICES ASSUME NEW i \in 1 .. Len(book), i > k PROVE ~ Ahead(book[i], o) /\ Ahead(o, book[i])
        OBVIOUS
    <2>2. n \in 1 .. Len(book) /\ ~ Ahead(book[n], o) /\ n <= i
        BY <1>1, <1>2, <1>3, <2>1
    <2>3. n < i => Ahead(book[n], book[i])
        BY <1>1, <2>2 DEF Sorted
    <2>4. book[n].sequence \in Nat /\ book[i].sequence \in Nat /\ o.sequence \in Nat
        BY <1>1, <2>2 DEF Order
    <2>5. /\ book[n].side = side /\ book[i].side = side
          /\ book[n].limit \in Int /\ book[i].limit \in Int
        BY <1>1, <2>2
    <2>6. /\ IF side = "Buy" THEN book[n].limit < o.limit ELSE book[n].limit > o.limit
          /\ n = i \/ Ahead(book[n], book[i])
        <3>1. book[n].sequence < o.sequence
            BY <1>1, <2>2
        <3>2. QED BY <2>2, <2>3, <2>4, <2>5, <3>1 DEF Ahead
    <2>7. IF side = "Buy" THEN book[i].limit < o.limit ELSE book[i].limit > o.limit
        <3>1. o.limit \in Int
            BY <1>1
        <3>2. CASE side = "Buy"
            BY <2>5, <2>6, <3>1, <3>2 DEF Ahead
        <3>3. CASE side # "Buy"
            BY <2>5, <2>6, <3>1, <3>3 DEF Ahead
        <3>4. QED BY <3>2, <3>3
    <2>8. QED BY <2>5, <2>7 DEF Ahead
<1>6. Cardinality({i \in DOMAIN book : Ahead(book[i], o)}) = k
    <2> DEFINE ahead == {i \in DOMAIN book : Ahead(book[i], o)}
    <2>1. ahead = 1 .. k
        BY <1>1, <1>4, <1>5
    <2>2. k \in Int /\ Cardinality(1 .. k) = IF 1 > k THEN 0 ELSE (k - 1) + 1
        BY <1>1, FS_Interval
    <2>3. Cardinality(1 .. k) = k
        BY <2>2
    <2> HIDE DEF ahead
    <2>4. Cardinality(ahead) = k
        BY <2>1, <2>3
    <2>5. QED BY <2>4 DEF ahead
<1> DEFINE front == SubSeq(book, 1, k)
           back == SubSeq(book, k + 1, Len(book))
<1>7. rest = front \o <<o>> \o back
    <2>1. k \in Int /\ (k + 1) - 1 = k
        BY <1>1
    <2>2. Rested(o, book) = InsertAt(book, k + 1, o)
        BY <1>6 DEF Rested
    <2>3. QED BY <2>1, <2>2 DEF InsertAt
<1>8. /\ front \in Seq(Order) /\ Len(front) = k /\ \A i \in 1 .. k : front[i] = book[i]
      /\ back \in Seq(Order) /\ Len(back) = Len(book) - k
      /\ \A i \in 1 .. Len(book) - k : back[i] = book[k + i]
    <2>1. /\ front \in Seq(Order) /\ Len(front) = k /\ \A i \in 1 .. k : front[i] = book[i]
        <3>1. k \in Int /\ \A i \in 1 .. k : book[i] \in Order
            BY <1>1
        <3>2. QED BY <1>1, <3>1, SubSeqProperties
    <2>2. /\ back \in Seq(Order) /\ Len(back) = Len(book) - k
          /\ \A i \in 1 .. Len(book) - k : back[i] = book[k + i]
        BY <1>0, RestOf
    <2>3. QED BY <2>1, <2>2
<1> HIDE DEF front, back
<1>9. /\ front \o <<o>> \in Seq(Order) /\ Len(front \o <<o>>) = k + 1
      /\ \A i \in 1 .. k + 1 : (front \o <<o>>)[i] = IF i <= k THEN book[i] ELSE o
    <2>1. <<o>> \in Seq(Order) /\ Len(<<o>>) = 1 /\ <<o>>[1] = o
        OBVIOUS
    <2>2. QED BY <1>1, <1>8, <2>1, ConcatProperties
<1>10. /\ rest \in Seq(Order) /\ Len(rest) = Len(book) + 1
       /\ \A i \in 1 .. Len(rest) :
            rest[i] = IF i <= k THEN book[i] ELSE IF i = k + 1 THEN o ELSE book[i - 1]
    <2>1. /\ rest \in Seq(Order) /\ Len(rest) = (k + 1) + (Len(book) - k)
          /\ \A i \in 1 .. (k + 1) + (Len(book) - k) :
                rest[i] = IF i <= k + 1 THEN (front \o <<o>>)[i] ELSE back[i - (k + 1)]
        <3>1. PICK mid \in Seq(Order) : mid = front \o <<o>> /\ Len(mid) = k + 1
            BY <1>9
        <3>2. /\ mid \o back \in Seq(Order) /\ Len(mid \o back) = Len(mid) + Len(back)
              /\ \A i \in 1 .. Len(mid) + Len(back) :
                    (mid \o back)[i] = IF i <= Len(mid) THEN mid[i] ELSE back[i - Len(mid)]
            BY <1>8, ConcatProperties
        <3>3. QED BY <1>7, <1>8, <3>1, <3>2
    <2>2. (k + 1) + (Len(book) - k) = Len(book) + 1
        BY <1>1
    <2>3. ASSUME NEW i \in 1 .. Len(book) + 1
          PROVE  rest[i] = IF i <= k THEN book[i] ELSE IF i = k + 1 THEN o ELSE book[i - 1]
        <3>1. CASE i <= k + 1
            <4>1. i \in 1 .. k + 1 /\ i \in 1 .. (k + 1) + (Len(book) - k)
                BY <1>1, <3>1
            <4>2. rest[i] = (front \o <<o>>)[i]
                BY <2>1, <3>1, <4>1
            <4>3. QED BY <1>1, <1>9, <3>1, <4>1, <4>2
        <3>2. CASE i > k + 1
            <4>1. i - (k + 1) \in 1 .. Len(book) - k /\ k + (i - (k + 1)) = i - 1
                BY <1>1, <3>2
            <4>2. rest[i] = back[i - (k + 1)]
                BY <1>1, <2>1, <2>2, <3>2
            <4>3. back[i - (k + 1)] = book[i - 1]
                BY <1>8, <4>1
            <4>4. QED BY <1>1, <3>2, <4>2, <4>3
        <3>3. QED BY <1>1, <3>1, <3>2
    <2>4. QED BY <2>1, <2>2, <2>3
<1>11. Line(rest, side)
    BY <1>1, <1>10 DEF Line
<1>12. Sorted(rest)
    <2>1. SUFFICES ASSUME NEW i \in 1 .. Len(rest), NEW j \in 1 .. Len(rest), i < j
                   PROVE  Ahead(rest[i], rest[j])
        BY <1>10 DEF Sorted
    <2>2. CASE i = k + 1
        BY <1>1, <1>5, <1>10, <2>1, <2>2
    <2>3. CASE j = k + 1
        <3>1. i \in 1 .. k /\ rest[i] = book[i] /\ rest[j] = o
            BY <1>1, <1>10, <2>1, <2>3
        <3>2. QED BY <1>4, <3>1
    <2>4. CASE i # k + 1 /\ j # k + 1
        <3>1. PICK a \in 1 .. Len(book), b \in 1 .. Len(book) : a < b /\ rest[i] = book[a] /\ rest[j] = book[b]
            <4> DEFINE old(m) == IF m <= k THEN m ELSE m - 1
            <4>1. old(i) \in 1 .. Len(book) /\ old(j) \in 1 .. Len(book) /\ old(i) < old(j)
                BY <1>1, <1>10, <2>1, <2>4
            <4>2. rest[i] = book[old(i)] /\ rest[j] = book[old(j)]
                BY <1>10, <2>4
            <4>3. QED BY <4>1, <4>2
        <3>2. QED BY <1>1, <3>1 DEF Sorted
    <2>5. QED BY <2>2, <2>3, <2>4
<1>13. QED BY <1>10, <1>11, <1>12

\* Whoever stays after a withdrawal stays in his place.
LEMMA WithoutIs ==
    ASSUME NEW side \in Sides, NEW book, Line(book, side), NEW id, At(book, id) # {},
           NEW rest, rest = RemoveAt(book, Min(At(book, id)))
    PROVE  \E k \in 1 .. Len(book) :
                /\ k = Min(At(book, id)) /\ Line(rest, side) /\ Len(rest) = Len(book) - 1
                /\ \A i \in 1 .. Len(rest) : rest[i] = IF i < k THEN book[i] ELSE book[i + 1]
<1>0. book \in Seq(Order) /\ Len(book) \in Nat
    BY DEF Line
<1>1. Len(book) \in Nat /\ DOMAIN book = 1 .. Len(book)
      /\ \A i \in 1 .. Len(book) : book[i] \in Order /\ book[i].limit \in Int /\ book[i].side = side
                                   /\ book[i].quantity > 0
    BY DEF Line
<1>2. \E n \in At(book, id) : \A m \in At(book, id) : n <= m
    <2>1. At(book, id) \in SUBSET Nat
        BY <1>1 DEF At
    <2>2. QED BY <2>1, Least
<1>3. PICK k \in 1 .. Len(book) : k = Min(At(book, id))
    BY <1>1, <1>2 DEF Min, At
<1> DEFINE front == SubSeq(book, 1, k - 1)
           back == SubSeq(book, k + 1, Len(book))
<1>4. rest = front \o back
    BY <1>3 DEF RemoveAt
<1>5. /\ front \in Seq(Order) /\ Len(front) = k - 1 /\ \A i \in 1 .. k - 1 : front[i] = book[i]
      /\ back \in Seq(Order) /\ Len(back) = Len(book) - k
      /\ \A i \in 1 .. Len(book) - k : back[i] = book[k + i]
    <2>1. /\ front \in Seq(Order) /\ Len(front) = k - 1 /\ \A i \in 1 .. k - 1 : front[i] = book[i]
        <3>1. k - 1 \in Int /\ \A i \in 1 .. k - 1 : book[i] \in Order
            BY <1>1
        <3>2. QED BY <1>1, <3>1, SubSeqProperties
    <2>2. /\ back \in Seq(Order) /\ Len(back) = Len(book) - k
          /\ \A i \in 1 .. Len(book) - k : back[i] = book[k + i]
        BY <1>0, RestOf
    <2>3. QED BY <2>1, <2>2
<1> HIDE DEF front, back
<1>6. /\ rest \in Seq(Order) /\ Len(rest) = Len(book) - 1
      /\ \A i \in 1 .. Len(rest) : rest[i] = IF i < k THEN book[i] ELSE book[i + 1]
    <2>1. /\ rest \in Seq(Order) /\ Len(rest) = (k - 1) + (Len(book) - k)
          /\ \A i \in 1 .. (k - 1) + (Len(book) - k) :
                rest[i] = IF i <= k - 1 THEN front[i] ELSE back[i - (k - 1)]
        <3>1. /\ front \o back \in Seq(Order) /\ Len(front \o back) = Len(front) + Len(back)
              /\ \A i \in 1 .. Len(front) + Len(back) :
                    (front \o back)[i] = IF i <= Len(front) THEN front[i] ELSE back[i - Len(front)]
            BY <1>5, ConcatProperties
        <3>2. QED BY <1>4, <1>5, <3>1
    <2>2. (k - 1) + (Len(book) - k) = Len(book) - 1
        BY <1>1
    <2>3. ASSUME NEW i \in 1 .. Len(book) - 1
          PROVE  rest[i] = IF i < k THEN book[i] ELSE book[i + 1]
        <3>1. CASE i < k
            <4>1. i \in 1 .. k - 1 /\ i \in 1 .. (k - 1) + (Len(book) - k) /\ i <= k - 1
                BY <1>1, <3>1
            <4>2. QED BY <1>5, <2>1, <3>1, <4>1
        <3>2. CASE i >= k
            <4>1. i - (k - 1) \in 1 .. Len(book) - k /\ k + (i - (k - 1)) = i + 1
                BY <1>1, <3>2
            <4>2. i \in 1 .. (k - 1) + (Len(book) - k) /\ ~ (i <= k - 1)
                BY <1>1, <3>2
            <4>3. rest[i] = back[i - (k - 1)]
                BY <2>1, <4>2
            <4>4. back[i - (k - 1)] = book[k + (i - (k - 1))]
                BY <1>5, <4>1
            <4>5. QED BY <3>2, <4>1, <4>3, <4>4
        <3>3. QED BY <1>1, <3>1, <3>2
    <2>4. QED BY <2>1, <2>2, <2>3
<1>7. Line(rest, side)
    BY <1>1, <1>6 DEF Line
<1>8. QED BY <1>3, <1>6, <1>7

-----------------------------------------------------------------------------
(* The invariant *)

Distinct(book) == \A i, j \in DOMAIN book : i # j => book[i].id # book[j].id

\* The orders of a side are known, older than the next one, and stand at the limit they gave.
Placed(book) ==
    \A i \in DOMAIN book :
        /\ book[i].id \in seen /\ book[i].sequence <= sequence
        /\ asked[book[i].id].order.limit = book[i].limit

\* No order of one side meets one of the other.
Parted(side, own, opposite) ==
    \A i \in DOMAIN own, j \in DOMAIN opposite :
        /\ IF side = "Buy" THEN own[i].limit < opposite[j].limit ELSE opposite[j].limit < own[i].limit
        /\ own[i].id # opposite[j].id

\* A trade within the limits of two known orders.
Fair(trade, known, terms) ==
    LET buy == terms[trade.buy_order].order.limit
        sell == terms[trade.sell_order].order.limit
    IN  /\ trade.buy_order \in known /\ trade.sell_order \in known
        /\ buy = None \/ trade.price <= buy
        /\ sell = None \/ sell <= trade.price

Known ==
    /\ trades \in Seq(Trade) /\ sequence \in 0 .. MaxOrders /\ seen \subseteq Ids
    /\ result \in Results /\ seen \subseteq DOMAIN asked /\ untaped \in BOOLEAN
    /\ asked \in [DOMAIN asked -> [order : Order, withdrawn : Int]]

Queue(book, side) == Line(book, side) /\ Sorted(book) /\ Distinct(book)

Inv ==
    /\ Known
    /\ Queue(bids, "Buy") /\ Placed(bids)
    /\ Queue(asks, "Sell") /\ Placed(asks)
    /\ Parted("Buy", bids, asks)
    /\ \A i \in DOMAIN trades : Fair(trades[i], seen, asked)

LEMMA InvImplies ==
    ASSUME Inv
    PROVE  TypeOK /\ NeverCrossed /\ InPriceTimeOrder /\ LimitsAreRespected
<1>1. TypeOK
    <2>1. \A i \in Int : i # None
        BY BookAssumption
    <2>2. QED BY <2>1 DEF Inv, Known, Queue, Line, TypeOK
<1>2. NeverCrossed
    <2>1. SUFFICES ASSUME bids # << >>, asks # << >> PROVE bids[1].limit < asks[1].limit
        BY DEF NeverCrossed
    <2>2. bids \in Seq(Order) /\ asks \in Seq(Order)
        BY DEF Inv, Queue, Line
    <2>3. 1 \in DOMAIN bids /\ 1 \in DOMAIN asks
        BY <2>1, <2>2
    <2>4. QED BY <2>3 DEF Inv, Parted
<1>3. InPriceTimeOrder
    BY DEF Inv, Queue, Sorted, InPriceTimeOrder
<1>4. LimitsAreRespected
    BY DEF Inv, Fair, LimitsAreRespected
<1>5. QED BY <1>1, <1>2, <1>3, <1>4

-----------------------------------------------------------------------------
(* An order that arrives: what it takes, and where what is left of it rests *)

Other(side) == IF side = "Buy" THEN "Sell" ELSE "Buy"

\* What stays of the opposite side is as it was, and nobody there was passed over.
LEMMA OppositeKeeps ==
    ASSUME NEW side \in Sides, NEW book, Queue(book, side), NEW o \in Order, NEW filled \in 0 .. Len(book),
           StopsAfter(o, book, filled), NEW rest, rest = Remaining(o, book, filled)
    PROVE  /\ Queue(rest, side) /\ ServedInTurn(book, rest)
           /\ \A i \in DOMAIN rest : \E j \in DOMAIN book :
                rest[i].id = book[j].id /\ rest[i].limit = book[j].limit /\ rest[i].sequence = book[j].sequence
           /\ \A i \in DOMAIN rest : Leftover(o, book, filled) > 0 /\ o.limit # None =>
                IF o.side = "Buy" THEN side = "Sell" => o.limit < rest[i].limit
                ELSE side = "Buy" => rest[i].limit < o.limit
<1>1. /\ Line(rest, side) /\ Len(rest) = Len(book) - filled
      /\ \A i \in 1 .. Len(rest) :
           /\ rest[i].id = book[filled + i].id /\ rest[i].limit = book[filled + i].limit
           /\ rest[i].sequence = book[filled + i].sequence
           /\ i > 1 => rest[i] = book[filled + i]
    <2>1. Line(book, side)
        BY DEF Queue
    <2>2. QED BY <2>1, RemainingIs
<1>2. /\ Len(book) \in Nat /\ DOMAIN book = 1 .. Len(book) /\ DOMAIN rest = 1 .. Len(rest)
      /\ Len(rest) \in Nat /\ \A i \in 1 .. Len(rest) : filled + i \in 1 .. Len(book)
    BY <1>1 DEF Queue, Line
<1>3. \A i \in 1 .. Len(book) : book[i].side = side /\ book[i].limit \in Int
    BY <1>2 DEF Queue, Line
<1>4. \A i \in 1 .. Len(rest) : rest[i].side = side /\ rest[i].limit \in Int
    BY <1>1, <1>2 DEF Line
<1>5. \A i, j \in 1 .. Len(book) : i < j => Ahead(book[i], book[j]) /\ book[i].id # book[j].id
    BY <1>2 DEF Queue, Sorted, Distinct
<1>6. Sorted(rest) /\ Distinct(rest)
    <2>1. ASSUME NEW i \in 1 .. Len(rest), NEW j \in 1 .. Len(rest), i < j
          PROVE  Ahead(rest[i], rest[j]) /\ rest[i].id # rest[j].id
        <3>1. PICK a \in 1 .. Len(book), b \in 1 .. Len(book) : a = filled + i /\ b = filled + j /\ a < b
            BY <1>2, <2>1
        <3>2. Ahead(book[a], book[b]) /\ book[a].id # book[b].id
            BY <1>5, <3>1
        <3>3. QED BY <1>1, <1>3, <1>4, <3>1, <3>2 DEF Ahead
    <2>2. \A i, j \in 1 .. Len(rest) : i # j => i < j \/ j < i
        BY <1>2
    <2>3. QED BY <1>2, <2>1, <2>2 DEF Sorted, Distinct
<1>7. ServedInTurn(book, rest)
    <2>1. SUFFICES ASSUME NEW i \in Served(book, rest), NEW g \in 1 .. i - 1 PROVE g \in Gone(book, rest)
        BY DEF ServedInTurn
    <2>2. i \in 1 .. Len(book) /\ \A j \in 1 .. Len(rest) : rest[j] # book[i]
        BY <1>2 DEF Served
    <2>3. i <= filled + 1
        <3>1. SUFFICES ASSUME i > filled + 1 PROVE FALSE
            BY <1>2, <2>2
        <3>2. PICK j \in 1 .. Len(rest) : j = i - filled /\ j > 1 /\ filled + j = i
            BY <1>1, <1>2, <2>2, <3>1
        <3>3. QED BY <1>1, <2>2, <3>2
    <2>4. g \in 1 .. Len(book) /\ g <= filled
        BY <1>2, <2>2, <2>3
    <2>5. ASSUME NEW j \in 1 .. Len(rest) PROVE rest[j].id # book[g].id
        <3>1. PICK b \in 1 .. Len(book) : b = filled + j /\ g < b
            BY <1>2, <2>4
        <3>2. QED BY <1>1, <1>5, <2>4, <3>1
    <2>6. QED BY <1>2, <2>4, <2>5 DEF Gone, At
<1>8. ASSUME NEW i \in 1 .. Len(rest), Leftover(o, book, filled) > 0, o.limit # None
      PROVE  IF o.side = "Buy" THEN side = "Sell" => o.limit < rest[i].limit
             ELSE side = "Buy" => rest[i].limit < o.limit
    <2>1. filled < Len(book) /\ filled + 1 \in 1 .. Len(book)
        BY <1>1, <1>2
    <2>2. ~ Crosses(o, book[filled + 1])
        BY <1>8, <2>1, Matched DEF Queue
    <2>3. o.limit \in Int /\ o.side \in Sides
        BY <1>8 DEF Order
    <2>4. PICK a \in 1 .. Len(book) : a = filled + i /\ rest[i].limit = book[a].limit
        BY <1>1, <1>2
    <2>5. a = filled + 1 \/ Ahead(book[filled + 1], book[a])
        BY <1>2, <1>5, <2>1, <2>4
    <2>6. /\ book[a].side = side /\ book[a].limit \in Int
          /\ book[filled + 1].side = side /\ book[filled + 1].limit \in Int
        BY <1>3, <2>1
    <2>7. IF side = "Buy" THEN book[a].limit <= book[filled + 1].limit
          ELSE book[a].limit >= book[filled + 1].limit
        BY <2>5, <2>6 DEF Ahead
    <2>8. IF o.side = "Buy" THEN o.limit < book[filled + 1].limit ELSE book[filled + 1].limit < o.limit
        BY <1>8, <2>2, <2>3, <2>6 DEF Crosses
    <2>9. QED BY <2>3, <2>4, <2>6, <2>7, <2>8 DEF Sides
<1>9. \A i \in 1 .. Len(rest) : \E j \in 1 .. Len(book) :
        rest[i].id = book[j].id /\ rest[i].limit = book[j].limit /\ rest[i].sequence = book[j].sequence
    BY <1>1, <1>2
<1>10. \A i \in DOMAIN rest : \E j \in DOMAIN book :
        rest[i].id = book[j].id /\ rest[i].limit = book[j].limit /\ rest[i].sequence = book[j].sequence
    <2>1. DOMAIN rest = 1 .. Len(rest) /\ DOMAIN book = 1 .. Len(book)
        BY <1>2
    <2>2. QED BY <1>9, <2>1
<1>11. \A i \in DOMAIN rest : Leftover(o, book, filled) > 0 /\ o.limit # None =>
        IF o.side = "Buy" THEN side = "Sell" => o.limit < rest[i].limit
        ELSE side = "Buy" => rest[i].limit < o.limit
    BY <1>2, <1>8
<1>12. QED BY <1>1, <1>6, <1>7, <1>10, <1>11 DEF Queue

Newest(o, book) == \A i \in DOMAIN book : book[i].sequence < o.sequence /\ book[i].id # o.id

Joined(rest, book, o) == \A i \in DOMAIN rest : rest[i] = o \/ \E j \in DOMAIN book : rest[i] = book[j]

\* The newcomer's own side: everybody keeps his order, and only the newcomer is new.
LEMMA OwnKeeps ==
    ASSUME NEW side \in Sides, NEW book, Queue(book, side), NEW o \in Order,
           o.side = side, o.limit \in Int, o.quantity > 0,
           Newest(o, book), NEW rest, rest = Rested(o, book)
    PROVE  Queue(rest, side) /\ ServedInTurn(book, rest) /\ Joined(rest, book, o)
<1> USE DEF Newest
<1>1. Line(book, side) /\ Sorted(book)
    BY DEF Queue
<1>2. /\ Line(rest, side) /\ Sorted(rest) /\ Len(rest) = Len(book) + 1
      /\ \E k \in 0 .. Len(book) :
            \A i \in 1 .. Len(rest) :
                rest[i] = IF i <= k THEN book[i] ELSE IF i = k + 1 THEN o ELSE book[i - 1]
    BY <1>1, RestedIs
<1>3. PICK k \in 0 .. Len(book) :
        \A i \in 1 .. Len(rest) :
            rest[i] = IF i <= k THEN book[i] ELSE IF i = k + 1 THEN o ELSE book[i - 1]
    BY <1>2
<1>4. Len(book) \in Nat /\ DOMAIN book = 1 .. Len(book) /\ DOMAIN rest = 1 .. Len(book) + 1
    BY <1>1, <1>2 DEF Line
<1> DEFINE old(i) == IF i <= k THEN i ELSE i - 1
<1>5. \A i \in 1 .. Len(book) + 1 : i # k + 1 => old(i) \in 1 .. Len(book) /\ rest[i] = book[old(i)]
    BY <1>2, <1>3, <1>4
<1>6. rest[k + 1] = o /\ k + 1 \in 1 .. Len(book) + 1
    BY <1>2, <1>3, <1>4
<1>7. \A i, j \in 1 .. Len(book) + 1 : i # k + 1 /\ j # k + 1 /\ i # j => old(i) # old(j)
    BY <1>4
<1> HIDE DEF old
<1>8. Distinct(rest)
    <2>1. SUFFICES ASSUME NEW i \in 1 .. Len(book) + 1, NEW j \in 1 .. Len(book) + 1, i # j
                   PROVE  rest[i].id # rest[j].id
        BY <1>4 DEF Distinct
    <2>2. CASE i # k + 1 /\ j # k + 1
        BY <1>4, <1>5, <1>7, <2>1, <2>2 DEF Queue, Distinct
    <2>3. CASE i = k + 1 \/ j = k + 1
        BY <1>4, <1>5, <1>6, <2>1, <2>3
    <2>4. QED BY <2>2, <2>3
<1>9. \A i \in 1 .. Len(book) : \E j \in 1 .. Len(book) + 1 : rest[j] = book[i]
    <2>1. SUFFICES ASSUME NEW i \in 1 .. Len(book) PROVE \E j \in 1 .. Len(book) + 1 : rest[j] = book[i]
        OBVIOUS
    <2>2. CASE i <= k
        <3>1. i \in 1 .. Len(book) + 1 /\ rest[i] = book[i]
            BY <1>2, <1>3, <1>4, <2>2
        <3>2. QED BY <3>1
    <2>3. CASE i > k
        <3>1. i + 1 \in 1 .. Len(book) + 1 /\ ~ (i + 1 <= k) /\ i + 1 # k + 1 /\ (i + 1) - 1 = i
            BY <1>4, <2>3
        <3>2. rest[i + 1] = book[i]
            BY <1>2, <1>3, <3>1
        <3>3. QED BY <3>1, <3>2
    <2>4. QED BY <1>4, <2>2, <2>3
<1>10. ServedInTurn(book, rest)
    BY <1>4, <1>9 DEF ServedInTurn, Served
<1>11. QED BY <1>2, <1>4, <1>5, <1>6, <1>8, <1>10 DEF Queue, Joined

\* An order of a side after a call is one that was there, or what is left of the newcomer.
Same(a, b) == a.id = b.id /\ a.limit = b.limit /\ a.sequence = b.sequence

Stayed(rest, book) == \A i \in DOMAIN rest : \E j \in DOMAIN book : Same(rest[i], book[j])

Grown(own, book, o) == \A i \in DOMAIN own : Same(own[i], o) \/ \E j \in DOMAIN book : Same(own[i], book[j])

\* The side of the newcomer when `left` of it is left over.
OwnAfter(o, left, limit) ==
    IF left = 0 \/ limit = None THEN Own(o) ELSE Rested([o EXCEPT !.quantity = left], Own(o))

\* Both sides after an accepted or refused order has been matched.
LEMMA Arrives ==
    ASSUME Inv, NEW id \in Ids, NEW side \in Sides, NEW limit \in Prices \cup {None},
           NEW quantity \in Quantities, Valid(id, limit, quantity),
           NEW o, o = Incoming(id, side, limit, quantity),
           NEW filled \in 0 .. Len(Opposite(o)), StopsAfter(o, Opposite(o), filled),
           NEW left, left = Leftover(o, Opposite(o), filled),
           NEW own, own = OwnAfter(o, left, limit),
           NEW rest, rest = Remaining(o, Opposite(o), filled)
    PROVE  /\ o \in Order /\ o.id = id /\ o.side = side /\ o.limit = limit /\ o.sequence = sequence + 1
           /\ Queue(own, side) /\ Queue(rest, Other(side)) /\ Parted(side, own, rest)
           /\ ServedInTurn(Own(o), own) /\ ServedInTurn(Opposite(o), rest)
           /\ Grown(own, Own(o), o) /\ Stayed(rest, Opposite(o))
<1>1. /\ o \in Order /\ o.id = id /\ o.side = side /\ o.limit = limit /\ o.sequence = sequence + 1
      /\ o.quantity > 0
    BY BookAssumption DEF Inv, Known, Incoming, Order, Valid
<1>2. /\ Queue(Own(o), side) /\ Queue(Opposite(o), Other(side))
      /\ Parted(side, Own(o), Opposite(o))
      /\ \A i \in DOMAIN Own(o) : Own(o)[i].id \in seen /\ Own(o)[i].sequence <= sequence
      /\ \A i \in DOMAIN Opposite(o) : Opposite(o)[i].id \in seen
    BY <1>1 DEF Own, Opposite, Other, Inv, Placed, Parted, Sides
<1>3. Other(side) \in Sides /\ id \notin seen /\ sequence \in Nat /\ limit \in Int \cup {None}
    BY <1>1 DEF Other, Sides, Valid, Inv, Known, Order
<1>4. PICK a : a = Own(o)
    OBVIOUS
<1>5. PICK b : b = Opposite(o)
    OBVIOUS
<1>6. /\ Queue(rest, Other(side)) /\ ServedInTurn(b, rest)
      /\ \A i \in DOMAIN rest : \E j \in DOMAIN b : Same(rest[i], b[j])
      /\ \A i \in DOMAIN rest : left > 0 /\ limit # None =>
            IF side = "Buy" THEN limit < rest[i].limit ELSE rest[i].limit < limit
    <2>1. /\ Queue(rest, Other(side)) /\ ServedInTurn(b, rest)
          /\ \A i \in DOMAIN rest : \E j \in DOMAIN b :
                rest[i].id = b[j].id /\ rest[i].limit = b[j].limit /\ rest[i].sequence = b[j].sequence
          /\ \A i \in DOMAIN rest : Leftover(o, b, filled) > 0 /\ o.limit # None =>
                IF o.side = "Buy" THEN Other(side) = "Sell" => o.limit < rest[i].limit
                ELSE Other(side) = "Buy" => rest[i].limit < o.limit
        BY <1>1, <1>2, <1>3, <1>5, OppositeKeeps
    <2>2. QED BY <1>1, <1>5, <2>1 DEF Same, Other, Sides
<1>7. left \in Nat
    BY <1>1, <1>2, <1>3, Matched DEF Queue
<1>8. Parted(side, a, rest)
    <2>1. SUFFICES ASSUME NEW i \in DOMAIN a, NEW j \in DOMAIN rest
                   PROVE  /\ IF side = "Buy" THEN a[i].limit < rest[j].limit ELSE rest[j].limit < a[i].limit
                          /\ a[i].id # rest[j].id
        BY DEF Parted
    <2>2. PICK k \in DOMAIN b : Same(rest[j], b[k])
        BY <1>6
    <2>3. QED BY <1>2, <1>4, <1>5, <2>2 DEF Parted, Same
<1>9. CASE left = 0 \/ limit = None
    <2>1. own = a
        BY <1>4, <1>9 DEF OwnAfter
    <2>2. \A i \in DOMAIN a : \E j \in DOMAIN a : Same(a[i], a[j])
        BY DEF Same
    <2>3. ServedInTurn(a, a)
        BY DEF ServedInTurn, Served
    <2>4. QED BY <1>1, <1>2, <1>4, <1>5, <1>6, <1>8, <2>1, <2>2, <2>3 DEF Grown, Stayed
<1>10. CASE left # 0 /\ limit # None
    <2>1. PICK n \in Order : /\ n = [o EXCEPT !.quantity = left] /\ n.id = id /\ n.side = side
                             /\ n.limit = limit /\ n.limit \in Int /\ n.sequence = sequence + 1 /\ n.quantity > 0
        <3>1. left \in Int /\ left > 0 /\ limit \in Int
            BY <1>3, <1>7, <1>10
        <3>2. PICK n : n = [o EXCEPT !.quantity = left]
            OBVIOUS
        <3>3. n \in Order /\ n.id = o.id /\ n.side = o.side /\ n.limit = o.limit
              /\ n.sequence = o.sequence /\ n.quantity = left
            BY <1>1, <3>1, <3>2 DEF Order
        <3>4. QED BY <1>1, <3>1, <3>2, <3>3
    <2>2. own = Rested(n, a)
        BY <1>4, <1>10, <2>1 DEF OwnAfter
    <2>3. Newest(n, a)
        <3>1. a \in Seq(Order)
            BY <1>2, <1>4 DEF Queue, Line
        <3>2. \A i \in DOMAIN a : a[i] \in Order
            BY <3>1
        <3>3. ASSUME NEW i \in DOMAIN a PROVE a[i].sequence < n.sequence /\ a[i].id # n.id
            <4>1. a[i].sequence \in Nat
                BY <3>2 DEF Order
            <4>2. a[i].id \in seen /\ a[i].sequence <= sequence
                BY <1>2, <1>4
            <4>3. n.sequence = sequence + 1 /\ n.id \notin seen /\ sequence \in Nat
                BY <1>3, <2>1
            <4>4. QED BY <4>1, <4>2, <4>3
        <3>4. QED BY <3>3 DEF Newest
    <2>4. Queue(own, side) /\ ServedInTurn(a, own) /\ Joined(own, a, n)
        <3>1. Queue(a, side)
            BY <1>2, <1>4
        <3>2. n.side = side /\ n.limit \in Int /\ n.quantity > 0
            BY <2>1
        <3>3. QED BY <2>2, <2>3, <3>1, <3>2, OwnKeeps
    <2>5. ASSUME NEW i \in DOMAIN own PROVE Same(own[i], o) \/ \E j \in DOMAIN a : Same(own[i], a[j])
        <3>1. CASE own[i] = n
            BY <1>1, <2>1, <3>1 DEF Same
        <3>2. CASE \E j \in DOMAIN a : own[i] = a[j]
            BY <3>2 DEF Same
        <3>3. QED BY <2>4, <3>1, <3>2 DEF Joined
    <2>6. Parted(side, own, rest)
        <3>1. SUFFICES ASSUME NEW i \in DOMAIN own, NEW j \in DOMAIN rest
                       PROVE  /\ IF side = "Buy" THEN own[i].limit < rest[j].limit
                                 ELSE rest[j].limit < own[i].limit
                              /\ own[i].id # rest[j].id
            BY DEF Parted
        <3>2. CASE own[i] = n
            <4>1. rest[j].id \in seen
                BY <1>2, <1>5, <1>6 DEF Same
            <4>2. left > 0
                BY <1>7, <1>10
            <4>3. IF side = "Buy" THEN limit < rest[j].limit ELSE rest[j].limit < limit
                BY <1>6, <1>10, <4>2
            <4>4. own[i].limit = limit /\ own[i].id = id
                BY <2>1, <3>2
            <4>5. QED BY <1>3, <4>1, <4>3, <4>4
        <3>3. CASE own[i] # n
            BY <1>8, <2>4, <3>3 DEF Parted, Joined
        <3>4. QED BY <3>2, <3>3
    <2>7. QED BY <1>1, <1>4, <1>5, <1>6, <2>4, <2>5, <2>6 DEF Grown, Stayed
<1>11. QED BY <1>9, <1>10

\* Each trade is made at the price of an order that was reached, with that order.
Made(e, o, book) ==
    \A i \in DOMAIN e : \E j \in DOMAIN book :
        /\ Crosses(o, book[j]) /\ e[i].price = book[j].limit
        /\ IF o.side = "Buy" THEN e[i].buy_order = o.id /\ e[i].sell_order = book[j].id
           ELSE e[i].buy_order = book[j].id /\ e[i].sell_order = o.id

LEMMA ExecutedIs ==
    ASSUME NEW side \in Sides, NEW book, Line(book, side), NEW o \in Order, NEW filled \in 0 .. Len(book),
           StopsAfter(o, book, filled), NEW e, e = Executed(o, book, filled)
    PROVE  e \in Seq(Trade) /\ Made(e, o, book)
<1>1. /\ Len(book) \in Nat /\ DOMAIN book = 1 .. Len(book)
      /\ \A i \in 1 .. Len(book) : book[i] \in Order /\ book[i].limit \in Int
    BY DEF Line
<1>2. /\ Portion(o, book, filled) \in Nat
      /\ Portion(o, book, filled) > 0 => filled < Len(book) /\ Crosses(o, book[filled + 1])
    BY Matched
<1> DEFINE n == IF Portion(o, book, filled) > 0 THEN filled + 1 ELSE filled
           size(i) == IF i <= filled THEN book[i].quantity ELSE Portion(o, book, filled)
<1>3. e = [i \in 1 .. n |-> Execution(o, book[i], size(i))]
    BY DEF Executed
<1>4. n \in Nat /\ \A i \in 1 .. n : i \in 1 .. Len(book) /\ Crosses(o, book[i])
    <2>1. \A i \in 1 .. filled : i \in 1 .. Len(book) /\ Crosses(o, book[i])
        BY <1>1 DEF StopsAfter
    <2>2. CASE Portion(o, book, filled) > 0
        <3>1. n = filled + 1 /\ n \in 1 .. Len(book) /\ Crosses(o, book[n])
            BY <1>1, <1>2, <2>2
        <3>2. \A i \in 1 .. n : i \in 1 .. filled \/ i = n
            BY <3>1
        <3>3. QED BY <2>1, <3>1, <3>2
    <2>3. CASE ~ (Portion(o, book, filled) > 0)
        BY <1>1, <2>1, <2>3
    <2>4. QED BY <2>2, <2>3
<1>5. \A i \in 1 .. n : size(i) \in Int
    BY <1>1, <1>2, <1>4 DEF Order
<1> HIDE DEF n, size
<1>6. ASSUME NEW i \in 1 .. n
      PROVE  /\ e[i] \in Trade /\ e[i].price = book[i].limit
             /\ IF o.side = "Buy" THEN e[i].buy_order = o.id /\ e[i].sell_order = book[i].id
                ELSE e[i].buy_order = book[i].id /\ e[i].sell_order = o.id
    <2>1. e[i] = Execution(o, book[i], size(i))
        BY <1>3
    <2>2. book[i] \in Order /\ book[i].limit \in Int /\ size(i) \in Int
        BY <1>1, <1>4, <1>5
    <2>3. QED BY <2>1, <2>2 DEF Execution, Trade, Order
<1>7. e \in Seq(Trade) /\ DOMAIN e = 1 .. n
    <2>1. e \in [1 .. n -> Trade]
        BY <1>3, <1>6
    <2>2. QED BY <1>4, <2>1, SeqDef
<1>8. QED BY <1>1, <1>4, <1>6, <1>7 DEF Made

-----------------------------------------------------------------------------
(* Every step keeps the invariant, and serves in turn *)

Turn == ServedInTurn(bids, bids') /\ ServedInTurn(asks, asks')

LEMMA RefusedStep ==
    ASSUME Inv, NEW reason \in Results, Refuse(reason)
    PROVE  Inv' /\ Turn
<1>1. Inv'
    BY DEF Inv, Known, Queue, Line, Sorted, Distinct, Placed, Parted, Fair, Refuse
<1>2. Turn
    BY DEF Refuse, Turn, ServedInTurn, Served
<1>3. QED BY <1>1, <1>2

\* What a call must say of its books once Arrives has been applied.
LEMMA Orders ==
    ASSUME Inv, NEW id \in Ids, NEW side \in Sides, NEW limit \in Prices \cup {None},
           NEW quantity \in Quantities, Valid(id, limit, quantity),
           NEW o, o = Incoming(id, side, limit, quantity),
           NEW filled \in 0 .. Len(Opposite(o)), StopsAfter(o, Opposite(o), filled),
           NEW left, left = Leftover(o, Opposite(o), filled),
           NEW own, own = OwnAfter(o, left, limit),
           Sides2(o, own, Remaining(o, Opposite(o), filled)),
           sequence' = sequence + 1, seen \subseteq seen',
           \A x \in seen : asked'[x].order.limit = asked[x].order.limit,
           own = Own(o) \/ (id \in seen' /\ asked'[id].order.limit = limit)
    PROVE  /\ Queue(bids', "Buy") /\ Placed(bids)' /\ Queue(asks', "Sell") /\ Placed(asks)'
           /\ Parted("Buy", bids', asks') /\ Turn
           /\ o \in Order /\ o.id = id /\ o.side = side /\ o.limit = limit /\ o.sequence = sequence + 1
<1>1. PICK rest : rest = Remaining(o, Opposite(o), filled)
    OBVIOUS
<1>2. /\ o \in Order /\ o.id = id /\ o.side = side /\ o.limit = limit /\ o.sequence = sequence + 1
      /\ Queue(own, side) /\ Queue(rest, Other(side)) /\ Parted(side, own, rest)
      /\ ServedInTurn(Own(o), own) /\ ServedInTurn(Opposite(o), rest)
      /\ Grown(own, Own(o), o) /\ Stayed(rest, Opposite(o))
    BY <1>1, Arrives
<1> DEFINE Stands(r) == /\ r.id \in seen' /\ r.sequence <= sequence'
                        /\ asked'[r.id].order.limit = r.limit
<1>3. sequence \in Nat
    BY DEF Inv, Known
<1>4. ASSUME NEW book \in {bids, asks}, NEW j \in DOMAIN book, NEW r, Same(r, book[j])
      PROVE  Stands(r)
    <2>1. book[j].sequence \in Nat
        <3>1. book \in Seq(Order)
            BY DEF Inv, Queue, Line
        <3>2. book[j] \in Order
            BY <3>1
        <3>3. QED BY <3>2 DEF Order
    <2>2. book[j].id \in seen /\ book[j].sequence <= sequence
          /\ asked[book[j].id].order.limit = book[j].limit
        BY DEF Inv, Placed
    <2>3. QED BY <1>3, <1>4, <2>1, <2>2 DEF Same
<1>5. Own(o) \in {bids, asks} /\ Opposite(o) \in {bids, asks}
    BY DEF Own, Opposite
<1>6. \A i \in DOMAIN rest : Stands(rest[i])
    BY <1>2, <1>4, <1>5 DEF Stayed
<1>7. \A i \in DOMAIN own : Stands(own[i])
    <2>1. CASE own = Own(o)
        BY <1>4, <1>5, <2>1 DEF Same
    <2>2. CASE id \in seen' /\ asked'[id].order.limit = limit
        <3>1. \A r : Same(r, o) => Stands(r)
            BY <1>2, <1>3, <2>2 DEF Same
        <3> HIDE DEF Stands
        <3>2. QED BY <1>2, <1>4, <1>5, <3>1 DEF Grown
    <2>3. QED BY <2>1, <2>2
<1>8. CASE side = "Buy"
    <2>1. bids' = own /\ asks' = rest /\ Own(o) = bids /\ Opposite(o) = asks /\ Other(side) = "Sell"
        BY <1>1, <1>2, <1>8 DEF Sides2, Own, Opposite, Other
    <2>2. Placed(bids)' /\ Placed(asks)'
        BY <1>6, <1>7, <2>1 DEF Placed
    <2>3. Queue(bids', "Buy") /\ Queue(asks', "Sell")
        BY <1>2, <1>8, <2>1
    <2>4. Parted("Buy", bids', asks')
        BY <1>2, <1>8, <2>1 DEF Parted
    <2>5. Turn
        BY <1>2, <2>1 DEF Turn
    <2>6. QED BY <1>2, <2>2, <2>3, <2>4, <2>5
<1>9. CASE side = "Sell"
    <2>1. asks' = own /\ bids' = rest /\ Own(o) = asks /\ Opposite(o) = bids /\ Other(side) = "Buy"
        BY <1>1, <1>2, <1>9 DEF Sides2, Own, Opposite, Other
    <2>2. Placed(bids)' /\ Placed(asks)'
        BY <1>6, <1>7, <2>1 DEF Placed
    <2>3. Queue(bids', "Buy") /\ Queue(asks', "Sell")
        BY <1>2, <1>9, <2>1
    <2>4. Parted("Buy", bids', asks')
        BY <1>2, <1>9, <2>1 DEF Parted
    <2>5. Turn
        BY <1>2, <2>1 DEF Turn
    <2>6. QED BY <1>2, <2>2, <2>3, <2>4, <2>5
<1>10. QED BY <1>8, <1>9 DEF Sides

LEMMA AcceptedStep ==
    ASSUME Inv, NEW id \in Ids, NEW side \in Sides, NEW limit \in Prices \cup {None},
           NEW quantity \in Quantities, SubmitAccepted(id, side, limit, quantity)
    PROVE  Inv' /\ Turn
<1>1. PICK o : o = Incoming(id, side, limit, quantity)
    OBVIOUS
<1>2. PICK b : b = Opposite(o)
    OBVIOUS
<1>3. PICK filled \in 0 .. Len(b) :
        LET left == Leftover(o, b, filled)
        IN  /\ StopsAfter(o, b, filled)
            /\ left = 0 \/ limit # None
            /\ Sides2(o, IF left = 0 THEN Own(o) ELSE Rested([o EXCEPT !.quantity = left], Own(o)),
                      Remaining(o, b, filled))
            /\ trades' = trades \o Executed(o, b, filled)
            /\ sequence' = sequence + 1
            /\ seen' = seen \cup {id}
            /\ Record(o)
            /\ result' = "Ok"
            /\ UNCHANGED untaped
    BY <1>1, <1>2 DEF SubmitAccepted
<1>4. PICK left : left = Leftover(o, b, filled)
    OBVIOUS
<1>5. PICK own : own = OwnAfter(o, left, limit)
    OBVIOUS
<1>6. Valid(id, limit, quantity)
    BY DEF SubmitAccepted
<1>7. o.id = id /\ o.limit = limit /\ o.side = side
    BY <1>1 DEF Incoming
<1>8. /\ DOMAIN asked' = DOMAIN asked \cup {id}
      /\ asked'[id] = [order |-> o, withdrawn |-> 0]
      /\ \A x \in DOMAIN asked : x # id => asked'[x] = asked[x]
      /\ asked' = [x \in DOMAIN asked \cup {id} |-> asked'[x]]
    BY <1>3, <1>7 DEF Record
<1>9. id \notin seen /\ seen \subseteq DOMAIN asked /\ sequence < MaxOrders
    BY <1>6 DEF Valid, Inv, Known
<1>10. \A x \in seen : asked'[x] = asked[x]
    BY <1>8, <1>9
<1>11. id \in seen' /\ asked'[id].order.limit = limit
    BY <1>3, <1>7, <1>8
<1>12. Sides2(o, own, Remaining(o, b, filled))
    BY <1>3, <1>4, <1>5 DEF OwnAfter
<1>13. /\ Queue(bids', "Buy") /\ Placed(bids)' /\ Queue(asks', "Sell") /\ Placed(asks)'
       /\ Parted("Buy", bids', asks') /\ Turn /\ o \in Order
    <2>1. StopsAfter(o, Opposite(o), filled) /\ filled \in 0 .. Len(Opposite(o))
          /\ left = Leftover(o, Opposite(o), filled)
          /\ Sides2(o, own, Remaining(o, Opposite(o), filled))
          /\ sequence' = sequence + 1 /\ seen \subseteq seen'
        BY <1>2, <1>3, <1>4, <1>12
    <2>2. \A x \in seen : asked'[x].order.limit = asked[x].order.limit
        BY <1>10
    <2>3. own = Own(o) \/ (id \in seen' /\ asked'[id].order.limit = limit)
        BY <1>11
    <2>4. QED BY <1>1, <1>5, <1>6, <2>1, <2>2, <2>3, Orders
<1>14. PICK e : e = Executed(o, b, filled)
    OBVIOUS
<1>15. e \in Seq(Trade) /\ Made(e, o, b)
    <2>1. Line(b, Other(side)) /\ Other(side) \in Sides
        BY <1>2, <1>7 DEF Inv, Queue, Opposite, Other, Sides
    <2>2. QED BY <1>3, <1>13, <1>14, <2>1, ExecutedIs
<1>16. \A i \in DOMAIN e : Fair(e[i], seen', asked')
    <2>1. SUFFICES ASSUME NEW i \in DOMAIN e PROVE Fair(e[i], seen', asked')
        OBVIOUS
    <2>2. PICK j \in DOMAIN b :
            /\ Crosses(o, b[j]) /\ e[i].price = b[j].limit
            /\ IF o.side = "Buy" THEN e[i].buy_order = o.id /\ e[i].sell_order = b[j].id
               ELSE e[i].buy_order = b[j].id /\ e[i].sell_order = o.id
        BY <1>15 DEF Made
    <2>3. b[j].limit \in Int /\ b[j].id \in seen /\ asked[b[j].id].order.limit = b[j].limit
        BY <1>2 DEF Inv, Queue, Line, Placed, Opposite
    <2>4. asked'[b[j].id].order.limit = b[j].limit /\ b[j].id \in seen'
        BY <1>3, <1>10, <2>3
    <2>5. limit = None \/ limit \in Int
        BY BookAssumption
    <2>6. CASE side = "Buy"
        BY <1>7, <1>11, <2>2, <2>3, <2>4, <2>5, <2>6 DEF Fair, Crosses
    <2>7. CASE side = "Sell"
        BY <1>7, <1>11, <2>2, <2>3, <2>4, <2>5, <2>7 DEF Fair, Crosses
    <2>8. QED BY <2>6, <2>7 DEF Sides
<1>17. \A i \in DOMAIN trades : Fair(trades[i], seen', asked')
    <2>1. SUFFICES ASSUME NEW i \in DOMAIN trades PROVE Fair(trades[i], seen', asked')
        OBVIOUS
    <2>2. Fair(trades[i], seen, asked)
        BY DEF Inv
    <2>3. PICK t : t = trades[i]
        OBVIOUS
    <2>4. Fair(t, seen, asked)
        BY <2>2, <2>3
    <2>5. /\ t.buy_order \in seen' /\ t.sell_order \in seen'
          /\ asked'[t.buy_order] = asked[t.buy_order] /\ asked'[t.sell_order] = asked[t.sell_order]
        BY <1>3, <1>10, <2>4 DEF Fair
    <2>6. QED BY <2>3, <2>4, <2>5 DEF Fair
<1>18. trades' \in Seq(Trade) /\ \A i \in DOMAIN trades' : Fair(trades'[i], seen', asked')
    <2>1. trades \in Seq(Trade) /\ trades' = trades \o e
        BY <1>3, <1>14 DEF Inv, Known
    <2>2. /\ trades' \in Seq(Trade) /\ Len(trades') = Len(trades) + Len(e)
          /\ \A i \in 1 .. Len(trades) + Len(e) :
                trades'[i] = IF i <= Len(trades) THEN trades[i] ELSE e[i - Len(trades)]
        BY <1>15, <2>1, ConcatProperties
    <2>3. Len(trades) \in Nat /\ Len(e) \in Nat /\ DOMAIN trades = 1 .. Len(trades) /\ DOMAIN e = 1 .. Len(e)
          /\ DOMAIN trades' = 1 .. Len(trades) + Len(e)
        BY <1>15, <2>1, <2>2
    <2>4. ASSUME NEW i \in 1 .. Len(trades) + Len(e) PROVE Fair(trades'[i], seen', asked')
        <3>1. CASE i <= Len(trades)
            BY <1>17, <2>2, <2>3, <3>1
        <3>2. CASE i > Len(trades)
            <4>1. i - Len(trades) \in DOMAIN e
                BY <2>3, <3>2
            <4>2. QED BY <1>16, <2>2, <2>3, <3>2, <4>1
        <3>3. QED BY <2>3, <3>1, <3>2
    <2>5. QED BY <2>2, <2>3, <2>4
<1>19. Known'
    <2>1. sequence' \in 0 .. MaxOrders /\ seen' \subseteq Ids /\ result' \in Results
          /\ seen' \subseteq DOMAIN asked' /\ untaped' \in BOOLEAN
        BY <1>3, <1>8, <1>9, BookAssumption DEF Inv, Known, Results
    <2>2. asked' \in [DOMAIN asked' -> [order : Order, withdrawn : Int]]
        <3>1. \A x \in DOMAIN asked : asked[x] \in [order : Order, withdrawn : Int]
            BY DEF Inv, Known
        <3>2. \A x \in DOMAIN asked' : asked'[x] \in [order : Order, withdrawn : Int]
            BY <1>8, <1>13, <3>1
        <3>3. QED BY <1>8, <3>2
    <2>3. QED BY <1>18, <2>1, <2>2 DEF Known
<1>20. QED BY <1>13, <1>18, <1>19 DEF Inv

LEMMA NoLiquidityStep ==
    ASSUME Inv, NEW id \in Ids, NEW side \in Sides, NEW quantity \in Quantities,
           SubmitNoLiquidity(id, side, quantity)
    PROVE  Inv' /\ Turn
<1>1. PICK o : o = Incoming(id, side, None, quantity)
    OBVIOUS
<1>2. PICK b : b = Opposite(o)
    OBVIOUS
<1>3. PICK filled \in 0 .. Len(b) :
        /\ StopsAfter(o, b, filled)
        /\ Sides2(o, Own(o), Remaining(o, b, filled))
        /\ sequence' = sequence + 1
        /\ result' = "NoLiquidity"
        /\ untaped' = (untaped \/ Executed(o, b, filled) # << >>)
        /\ UNCHANGED <<trades, seen, asked>>
    BY <1>1, <1>2 DEF SubmitNoLiquidity
<1>4. PICK left : left = Leftover(o, b, filled)
    OBVIOUS
<1>5. PICK own : own = OwnAfter(o, left, None)
    OBVIOUS
<1>6. Valid(id, None, quantity) /\ own = Own(o)
    BY <1>5 DEF SubmitNoLiquidity, OwnAfter
<1>7. /\ Queue(bids', "Buy") /\ Placed(bids)' /\ Queue(asks', "Sell") /\ Placed(asks)'
      /\ Parted("Buy", bids', asks') /\ Turn
    <2>1. StopsAfter(o, Opposite(o), filled) /\ filled \in 0 .. Len(Opposite(o))
          /\ left = Leftover(o, Opposite(o), filled)
          /\ sequence' = sequence + 1 /\ seen \subseteq seen'
          /\ Sides2(o, own, Remaining(o, Opposite(o), filled))
        BY <1>2, <1>3, <1>4, <1>6
    <2>2. \A x \in seen : asked'[x].order.limit = asked[x].order.limit
        BY <1>3
    <2>3. PICK limit \in Prices \cup {None} : limit = None
        OBVIOUS
    <2>4. /\ o = Incoming(id, side, limit, quantity) /\ own = OwnAfter(o, left, limit)
          /\ Valid(id, limit, quantity)
          /\ own = Own(o) \/ (id \in seen' /\ asked'[id].order.limit = limit)
        BY <1>1, <1>5, <1>6, <2>3
    <2>5. QED BY <2>1, <2>2, <2>4, Orders
<1>8. Known'
    <2>1. sequence' \in 0 .. MaxOrders /\ result' \in Results /\ untaped' \in BOOLEAN
        BY <1>3, <1>6, BookAssumption DEF Inv, Known, Results, Valid
    <2>2. QED BY <1>3, <2>1 DEF Inv, Known
<1>9. \A i \in DOMAIN trades' : Fair(trades'[i], seen', asked')
    BY <1>3 DEF Inv
<1>10. QED BY <1>7, <1>8, <1>9 DEF Inv

\* A side from which one order is withdrawn.
LEMMA WithdrawnFrom ==
    ASSUME NEW side \in Sides, NEW book, Queue(book, side), NEW id, At(book, id) # {},
           NEW k, k = Min(At(book, id)), NEW rest, rest = RemoveAt(book, k)
    PROVE  /\ Queue(rest, side) /\ k \in DOMAIN book /\ book[k].id = id
           /\ \A i \in DOMAIN rest : \E j \in DOMAIN book : rest[i] = book[j]
<1>1. Line(book, side)
    BY DEF Queue
<1>2. PICK n \in 1 .. Len(book) :
        /\ n = k /\ Line(rest, side) /\ Len(rest) = Len(book) - 1
        /\ \A i \in 1 .. Len(rest) : rest[i] = IF i < n THEN book[i] ELSE book[i + 1]
    BY <1>1, WithoutIs
<1>3. Len(book) \in Nat /\ DOMAIN book = 1 .. Len(book) /\ DOMAIN rest = 1 .. Len(book) - 1
    BY <1>1, <1>2 DEF Line
<1> DEFINE old(i) == IF i < n THEN i ELSE i + 1
<1>4. \A i \in 1 .. Len(book) - 1 : old(i) \in 1 .. Len(book) /\ rest[i] = book[old(i)]
    BY <1>2, <1>3
<1>5. \A i, j \in 1 .. Len(book) - 1 : (i < j => old(i) < old(j)) /\ (i # j => old(i) # old(j))
    BY <1>3
<1> HIDE DEF old
<1>6. Sorted(rest)
    BY <1>3, <1>4, <1>5 DEF Queue, Sorted
<1>7. Distinct(rest)
    BY <1>3, <1>4, <1>5 DEF Queue, Distinct
<1>8. book[k].id = id
    <2>1. At(book, id) \in SUBSET Nat
        BY <1>3 DEF At
    <2>2. \E a \in At(book, id) : \A c \in At(book, id) : a <= c
        BY <2>1, Least
    <2>3. k \in At(book, id)
        BY <2>2 DEF Min
    <2>4. QED BY <2>3 DEF At
<1>9. QED BY <1>2, <1>3, <1>4, <1>6, <1>7, <1>8 DEF Queue

LEMMA CancelStep ==
    ASSUME Inv, NEW id \in Ids, CancelFound(id)
    PROVE  Inv' /\ result' = "Removed"
<1>1. result' = "Removed" /\ UNCHANGED <<trades, sequence, seen, untaped>>
    BY DEF CancelFound
<1>2. /\ Queue(bids, "Buy") /\ Queue(asks, "Sell") /\ Placed(bids) /\ Placed(asks)
      /\ Parted("Buy", bids, asks) /\ Known /\ \A i \in DOMAIN trades : Fair(trades[i], seen, asked)
    BY DEF Inv
<1>3. ASSUME NEW book \in {bids, asks}, NEW k \in DOMAIN book, book[k].id = id, Withdraw(id, book[k].quantity)
      PROVE  /\ asked' \in [DOMAIN asked' -> [order : Order, withdrawn : Int]]
             /\ DOMAIN asked' = DOMAIN asked /\ \A x \in seen : asked'[x].order = asked[x].order
    <2>1. book[k].quantity \in Int
        <3>1. book \in Seq(Order)
            BY <1>2 DEF Queue, Line
        <3>2. book[k] \in Order
            BY <3>1
        <3>3. QED BY <3>2 DEF Order
    <2>2. asked \in [DOMAIN asked -> [order : Order, withdrawn : Int]] /\ seen \subseteq DOMAIN asked
        BY <1>2 DEF Known
    <2>3. id \in DOMAIN asked
        BY <1>2, <1>3, <2>2 DEF Placed
    <2>4. PICK t \in [order : Order, withdrawn : Int] :
            t.order = asked[id].order /\ asked' = [asked EXCEPT ![id] = t]
        <3>1. PICK w \in Int : w = asked[id].withdrawn + book[k].quantity
            BY <2>1, <2>2, <2>3
        <3>2. PICK t \in [order : Order, withdrawn : Int] : t = [asked[id] EXCEPT !.withdrawn = w]
            BY <2>2, <2>3, <3>1
        <3>3. t.order = asked[id].order
            BY <2>2, <2>3, <3>2
        <3>4. asked' = [asked EXCEPT ![id] = t]
            BY <1>3, <2>2, <2>3, <3>1, <3>2 DEF Withdraw
        <3>5. QED BY <3>3, <3>4
    <2>5. QED BY <2>2, <2>3, <2>4
<1>4. ASSUME /\ asked' \in [DOMAIN asked' -> [order : Order, withdrawn : Int]]
             /\ DOMAIN asked' = DOMAIN asked /\ \A x \in seen : asked'[x].order = asked[x].order
      PROVE  /\ Known' /\ \A i \in DOMAIN trades' : Fair(trades'[i], seen', asked')
             /\ \A book \in {bids, asks} : \A i \in DOMAIN book :
                    /\ book[i].id \in seen' /\ book[i].sequence <= sequence'
                    /\ asked'[book[i].id].order.limit = book[i].limit
    <2>1. Known'
        BY <1>1, <1>2, <1>4 DEF Known, Results
    <2>2. ASSUME NEW i \in DOMAIN trades PROVE Fair(trades[i], seen', asked')
        <3>1. PICK t : t = trades[i]
            OBVIOUS
        <3>2. Fair(t, seen, asked)
            BY <1>2, <3>1
        <3>3. asked'[t.buy_order].order = asked[t.buy_order].order
              /\ asked'[t.sell_order].order = asked[t.sell_order].order
            BY <1>4, <3>2 DEF Fair
        <3>4. Fair(t, seen', asked')
            BY <1>1, <3>2, <3>3 DEF Fair
        <3>5. QED BY <3>1, <3>4
    <2>3. QED BY <1>1, <1>2, <1>4, <2>1, <2>2 DEF Placed
<1>5. CASE At(bids, id) # {}
    <2>1. PICK k : /\ k = Min(At(bids, id)) /\ bids' = RemoveAt(bids, k)
                   /\ Withdraw(id, bids[k].quantity) /\ asks' = asks
        BY <1>5 DEF CancelFound
    <2>2. /\ Queue(bids', "Buy") /\ k \in DOMAIN bids /\ bids[k].id = id
          /\ \A i \in DOMAIN bids' : \E j \in DOMAIN bids : bids'[i] = bids[j]
        <3>1. PICK rest : rest = bids'
            OBVIOUS
        <3>2. QED BY <1>2, <1>5, <2>1, <3>1, WithdrawnFrom DEF Sides
    <2>3. /\ Known' /\ \A i \in DOMAIN trades' : Fair(trades'[i], seen', asked')
          /\ \A book \in {bids, asks} : \A i \in DOMAIN book :
                /\ book[i].id \in seen' /\ book[i].sequence <= sequence'
                /\ asked'[book[i].id].order.limit = book[i].limit
        BY <1>3, <1>4, <2>1, <2>2
    <2>4. Placed(bids)' /\ Placed(asks)'
        BY <2>1, <2>2, <2>3 DEF Placed
    <2>5. Parted("Buy", bids', asks')
        BY <1>2, <2>1, <2>2 DEF Parted
    <2>6. QED BY <1>1, <1>2, <2>1, <2>2, <2>3, <2>4, <2>5 DEF Inv
<1>6. CASE At(bids, id) = {}
    <2>0. At(asks, id) # {}
        BY <1>6 DEF CancelFound
    <2>1. PICK k : /\ k = Min(At(asks, id)) /\ asks' = RemoveAt(asks, k)
                   /\ Withdraw(id, asks[k].quantity) /\ bids' = bids
        BY <1>6 DEF CancelFound
    <2>2. /\ Queue(asks', "Sell") /\ k \in DOMAIN asks /\ asks[k].id = id
          /\ \A i \in DOMAIN asks' : \E j \in DOMAIN asks : asks'[i] = asks[j]
        <3>1. PICK rest : rest = asks'
            OBVIOUS
        <3>2. QED BY <1>2, <2>0, <2>1, <3>1, WithdrawnFrom DEF Sides
    <2>3. /\ Known' /\ \A i \in DOMAIN trades' : Fair(trades'[i], seen', asked')
          /\ \A book \in {bids, asks} : \A i \in DOMAIN book :
                /\ book[i].id \in seen' /\ book[i].sequence <= sequence'
                /\ asked'[book[i].id].order.limit = book[i].limit
        BY <1>3, <1>4, <2>1, <2>2
    <2>4. Placed(bids)' /\ Placed(asks)'
        BY <2>1, <2>2, <2>3 DEF Placed
    <2>5. Parted("Buy", bids', asks')
        BY <1>2, <2>1, <2>2 DEF Parted
    <2>6. QED BY <1>1, <1>2, <2>1, <2>2, <2>3, <2>4, <2>5 DEF Inv
<1>7. QED BY <1>5, <1>6

-----------------------------------------------------------------------------
(* What an order has in the book and on the tape *)

Held(book, id) == Together(book, At(book, id))

Exchanged(tape, id) == Together(tape, With(tape, id))

LEMMA HeldIs ==
    ASSUME NEW book, Distinct(book), NEW k \in DOMAIN book, book[k].quantity \in Int
    PROVE  Held(book, book[k].id) = book[k].quantity
<1>1. At(book, book[k].id) = {k}
    BY DEF At, Distinct
<1> DEFINE f == [i \in DOMAIN book |-> book[i].quantity]
<1>2. f[k] = book[k].quantity /\ f[k] \in Int
    OBVIOUS
<1>3. Held(book, book[k].id) = SumFunctionOnSet(f, {k})
    BY <1>1 DEF Held, Together
<1> HIDE DEF f
<1>4. QED BY <1>2, <1>3, SumSingle

LEMMA HeldNot ==
    ASSUME NEW book, NEW id, \A i \in DOMAIN book : book[i].id # id
    PROVE  Held(book, id) = 0
<1>1. At(book, id) = {}
    BY DEF At
<1>2. QED BY <1>1, SumEmpty DEF Held, Together

LEMMA HeldType ==
    ASSUME NEW side \in Sides, NEW book, Queue(book, side), NEW id
    PROVE  Held(book, id) \in Int
<1>1. Distinct(book) /\ \A i \in DOMAIN book : book[i].quantity \in Int
    <2>1. book \in Seq(Order)
        BY DEF Queue, Line
    <2>2. \A i \in DOMAIN book : book[i] \in Order
        BY <2>1
    <2>3. QED BY <2>2 DEF Queue, Order
<1>2. QED BY <1>1, HeldIs, HeldNot

\* An order has the same in two books in which it stands with the same quantity.
LEMMA HeldSame ==
    ASSUME NEW a, Distinct(a), NEW b, Distinct(b), NEW id,
           \A i \in DOMAIN a : a[i].quantity \in Int,
           \A i \in DOMAIN a : a[i].id = id => \E j \in DOMAIN b : b[j].id = id /\ b[j].quantity = a[i].quantity,
           \A j \in DOMAIN b : b[j].id = id => \E i \in DOMAIN a : a[i].id = id
    PROVE  Held(a, id) = Held(b, id)
<1>1. CASE \E i \in DOMAIN a : a[i].id = id
    <2>1. PICK i \in DOMAIN a : a[i].id = id
        BY <1>1
    <2>2. PICK j \in DOMAIN b : b[j].id = id /\ b[j].quantity = a[i].quantity
        BY <2>1
    <2>3. Held(a, a[i].id) = a[i].quantity
        BY HeldIs
    <2>4. b[j].quantity \in Int
        BY <2>2
    <2>5. Held(b, b[j].id) = b[j].quantity
        BY <2>4, HeldIs
    <2>6. QED BY <2>1, <2>2, <2>3, <2>5
<1>2. CASE \A i \in DOMAIN a : a[i].id # id
    <2>1. \A j \in DOMAIN b : b[j].id # id
        BY <1>2
    <2>2. QED BY <1>2, <2>1, HeldNot
<1>3. QED BY <1>1, <1>2

\* What is written on the tape is added to what an order has on it.
LEMMA TapeGrows ==
    ASSUME NEW s \in Seq(Trade), NEW t \in Seq(Trade), NEW id
    PROVE  /\ Exchanged(s, id) \in Int /\ Exchanged(t, id) \in Int
           /\ Exchanged(s \o t, id) = Exchanged(s, id) + Exchanged(t, id)
<1> DEFINE n == Len(s)
           u == s \o t
           f == [i \in DOMAIN s |-> s[i].quantity]
           g == [i \in DOMAIN t |-> t[i].quantity]
           h == [i \in DOMAIN u |-> u[i].quantity]
           S == With(s, id)
           T == With(t, id)
           name == [i \in T |-> i + n]
           T2 == {name[i] : i \in T}
<1>1. /\ u \in Seq(Trade) /\ Len(u) = n + Len(t)
      /\ \A i \in 1 .. n + Len(t) : u[i] = IF i <= n THEN s[i] ELSE t[i - n]
    BY ConcatProperties
<1>2. /\ n \in Nat /\ Len(t) \in Nat /\ DOMAIN s = 1 .. n /\ DOMAIN t = 1 .. Len(t)
      /\ DOMAIN u = 1 .. n + Len(t)
    BY <1>1
<1>3. (\A i \in DOMAIN s : s[i] \in Trade) /\ (\A i \in DOMAIN t : t[i] \in Trade)
    OBVIOUS
<1>4. (\A i \in 1 .. n : u[i] = s[i]) /\ (\A j \in 1 .. Len(t) : u[j + n] = t[j] /\ j + n \in DOMAIN u)
    <2>1. \A i \in 1 .. n : u[i] = s[i]
        BY <1>1, <1>2
    <2>2. ASSUME NEW j \in 1 .. Len(t)
          PROVE  u[j + n] = t[j] /\ j + n \in DOMAIN u
        <3>1. j + n \in 1 .. n + Len(t) /\ ~ (j + n <= n) /\ (j + n) - n = j
            BY <1>2
        <3>2. QED BY <1>1, <1>2, <3>1
    <2>3. QED BY <2>1, <2>2
<1>5. S \subseteq 1 .. n /\ T \subseteq 1 .. Len(t)
    BY <1>2 DEF With
<1>6. IsFiniteSet(S) /\ IsFiniteSet(T)
    <2>1. IsFiniteSet(1 .. n) /\ IsFiniteSet(1 .. Len(t))
        BY <1>2, FS_Interval
    <2> HIDE DEF S, T
    <2>2. QED BY <1>5, <2>1, FS_Subset
<1>7. (\A i \in S : f[i] \in Int) /\ (\A i \in T : g[i] \in Int)
    BY <1>2, <1>3, <1>5 DEF Trade
<1>8. (\A i \in S : h[i] = f[i]) /\ (\A i \in T : h[name[i]] = g[i])
    BY <1>2, <1>4, <1>5
<1>9. \A i, j \in T : name[i] = name[j] => i = j
    BY <1>2, <1>5
<1>10. With(u, id) = S \cup T2
    <2>1. ASSUME NEW i \in With(u, id) PROVE i \in S \cup T2
        <3>1. i \in 1 .. n + Len(t) /\ id \in {u[i].buy_order, u[i].sell_order}
            BY <1>2 DEF With
        <3>2. CASE i <= n
            BY <1>2, <1>4, <3>1, <3>2 DEF With
        <3>3. CASE i > n
            <4>1. PICK j \in 1 .. Len(t) : j = i - n /\ j + n = i
                BY <1>2, <3>1, <3>3
            <4>2. j \in T
                BY <1>2, <1>4, <3>1, <4>1 DEF With
            <4>3. name[j] = i
                BY <4>1, <4>2
            <4>4. QED BY <4>2, <4>3
        <3>4. QED BY <1>2, <3>1, <3>2, <3>3
    <2>2. ASSUME NEW i \in S PROVE i \in With(u, id)
        BY <1>2, <1>4 DEF With
    <2>3. ASSUME NEW i \in T PROVE name[i] \in With(u, id)
        BY <1>2, <1>4 DEF With
    <2>4. QED BY <2>1, <2>2, <2>3
<1>11. S \cap T2 = {} /\ IsFiniteSet(T2)
    <2>1. \A i \in T : name[i] > n
        BY <1>2, <1>5
    <2>2. \A i \in S : i <= n
        BY <1>2, <1>5
    <2>3. T2 \subseteq 1 .. n + Len(t)
        BY <1>2, <1>5
    <2>4. IsFiniteSet(1 .. n + Len(t))
        BY <1>2, FS_Interval
    <2>5. IsFiniteSet(T2)
        <3> HIDE DEF T2
        <3>1. QED BY <2>3, <2>4, FS_Subset
    <2>6. \A i \in S : i \notin T2
        BY <1>2, <1>5, <2>1, <2>2
    <2>7. QED BY <2>5, <2>6
<1>12. \A i \in S \cup T2 : h[i] \in Int
    <2>1. \A i \in T : h[name[i]] \in Int
        BY <1>7, <1>8
    <2>2. \A i \in T2 : h[i] \in Int
        <3> HIDE DEF h, T, name
        <3>1. QED BY <2>1
    <2>3. \A i \in S : h[i] \in Int
        BY <1>7, <1>8
    <2> HIDE DEF h, S, T2
    <2>4. QED BY <2>2, <2>3
<1>13. /\ Exchanged(s, id) = SumFunctionOnSet(f, S)
       /\ Exchanged(t, id) = SumFunctionOnSet(g, T)
       /\ Exchanged(u, id) = SumFunctionOnSet(h, With(u, id))
    BY DEF Exchanged, Together
<1> HIDE DEF f, g, h, S, T, name
<1>14. SumFunctionOnSet(h, T2) = SumFunctionOnSet(g, T)
    BY <1>6, <1>7, <1>8, <1>9, SumImage
<1> HIDE DEF T2
<1>15. SumFunctionOnSet(h, S) = SumFunctionOnSet(f, S)
    BY <1>6, <1>7, <1>8, SumSame
<1>16. SumFunctionOnSet(h, S \cup T2) = SumFunctionOnSet(h, S) + SumFunctionOnSet(h, T2)
    BY <1>6, <1>11, <1>12, SumUnion
<1>17. SumFunctionOnSet(f, S) \in Int /\ SumFunctionOnSet(g, T) \in Int
    BY <1>6, <1>7, SumType
<1>18. QED BY <1>10, <1>13, <1>14, <1>15, <1>16, <1>17

\* What the first orders of a side offer is their sum.
LEMMA DepthIsSum ==
    ASSUME NEW book, Len(book) \in Nat, \A i \in 1 .. Len(book) : book[i].quantity \in Int,
           NEW f, NEW m \in 0 .. Len(book), \A i \in 1 .. m : f[i] = book[i].quantity
    PROVE  SumFunctionOnSet(f, 1 .. m) = Depth(book)[m]
<1> DEFINE D == {n \in Nat : n <= m => SumFunctionOnSet(f, 1 .. n) = Depth(book)[n]}
<1>1. /\ Depth(book)[0] = 0
      /\ \A n \in 1 .. Len(book) : Depth(book)[n] = Depth(book)[n - 1] + book[n].quantity
      /\ \A n \in 0 .. Len(book) : Depth(book)[n] \in Int
    BY DepthIs
<1>2. 0 \in D
    <2>1. 1 .. 0 = {}
        OBVIOUS
    <2>2. QED BY <1>1, <2>1, SumEmpty
<1>3. ASSUME NEW n \in Nat, n \in D PROVE n + 1 \in D
    <2>1. ASSUME n + 1 <= m PROVE SumFunctionOnSet(f, 1 .. n + 1) = Depth(book)[n + 1]
        <3>1. n + 1 \in 1 .. Len(book) /\ (n + 1) - 1 = n /\ n \in 0 .. Len(book) /\ n + 1 \in 1 .. m
            BY <2>1
        <3>2. Depth(book)[n + 1] = Depth(book)[n] + book[n + 1].quantity
            BY <1>1, <3>1
        <3>3. 1 .. n + 1 = (1 .. n) \cup {n + 1} /\ n + 1 \notin 1 .. n
            OBVIOUS
        <3>4. IsFiniteSet(1 .. n)
            BY FS_Interval
        <3>5. (\A i \in 1 .. n : f[i] \in Int) /\ f[n + 1] = book[n + 1].quantity /\ f[n + 1] \in Int
            <4>1. \A i \in 1 .. n + 1 : i \in 1 .. m /\ i \in 1 .. Len(book)
                BY <2>1
            <4>2. \A i \in 1 .. n + 1 : f[i] = book[i].quantity /\ f[i] \in Int
                BY <4>1
            <4>3. QED BY <4>2
        <3>6. SumFunctionOnSet(f, (1 .. n) \cup {n + 1}) = f[n + 1] + SumFunctionOnSet(f, 1 .. n)
            BY <3>3, <3>4, <3>5, SumAdd
        <3>7. SumFunctionOnSet(f, 1 .. n) = Depth(book)[n]
            BY <1>3, <2>1
        <3>8. Depth(book)[n] \in Int
            BY <1>1, <3>1
        <3>9. Depth(book)[n + 1] = f[n + 1] + SumFunctionOnSet(f, 1 .. n)
            BY <3>2, <3>5, <3>7, <3>8
        <3>10. QED BY <3>3, <3>6, <3>9
    <2>2. QED BY <2>1
<1>4. Nat \subseteq D
    <2> HIDE DEF D
    <2>1. QED BY <1>2, <1>3, EveryNumber
<1>5. m \in D
    BY <1>4
<1>6. QED BY <1>5

Between(trade, a, b) == {trade.buy_order, trade.sell_order} = {a, b}

\* What each trade of a call is about: whom it was made with, and how much of it.
LEMMA ExecutedOf ==
    ASSUME NEW side \in Sides, NEW book, Line(book, side), NEW o \in Order, NEW filled \in 0 .. Len(book),
           StopsAfter(o, book, filled), NEW e, e = Executed(o, book, filled)
    PROVE  /\ DOMAIN e = 1 .. (IF Portion(o, book, filled) > 0 THEN filled + 1 ELSE filled)
           /\ DOMAIN e \subseteq DOMAIN book
           /\ \A i \in DOMAIN e :
                /\ Between(e[i], o.id, book[i].id)
                /\ e[i].quantity = IF i <= filled THEN book[i].quantity ELSE Portion(o, book, filled)
<1>1. Len(book) \in Nat /\ DOMAIN book = 1 .. Len(book)
    BY DEF Line
<1>2. /\ Portion(o, book, filled) \in Nat
      /\ Portion(o, book, filled) > 0 => filled < Len(book)
    BY Matched
<1> DEFINE n == IF Portion(o, book, filled) > 0 THEN filled + 1 ELSE filled
           size(i) == IF i <= filled THEN book[i].quantity ELSE Portion(o, book, filled)
<1>3. e = [i \in 1 .. n |-> Execution(o, book[i], size(i))]
    BY DEF Executed
<1>4. n \in Nat /\ n <= Len(book)
    BY <1>1, <1>2
<1>5. DOMAIN e = 1 .. n /\ 1 .. n \subseteq DOMAIN book
    <2>1. DOMAIN e = 1 .. n
        BY <1>3
    <2> HIDE DEF n
    <2>2. QED BY <1>1, <1>4, <2>1
<1> HIDE DEF size
<1>6. ASSUME NEW i \in 1 .. n
      PROVE  Between(e[i], o.id, book[i].id) /\ e[i].quantity = size(i)
    <2>1. e[i] = Execution(o, book[i], size(i))
        BY <1>3
    <2>2. QED BY <2>1 DEF Execution, Between
<1>7. QED BY <1>5, <1>6 DEF size

\* The order that was next keeps what was not taken from it.
LEMMA RemainingOf ==
    ASSUME NEW side \in Sides, NEW book, Line(book, side), NEW o \in Order, NEW filled \in 0 .. Len(book),
           StopsAfter(o, book, filled), NEW rest, rest = Remaining(o, book, filled), 1 \in DOMAIN rest
    PROVE  filled + 1 \in DOMAIN book /\ rest[1].quantity = book[filled + 1].quantity - Portion(o, book, filled)
<1>1. Len(book) \in Nat /\ DOMAIN book = 1 .. Len(book) /\ \A i \in DOMAIN book : book[i] \in Order
    BY DEF Line
<1>2. Len(rest) = Len(book) - filled /\ DOMAIN rest = 1 .. Len(rest)
    BY RemainingIs DEF Line
<1>3. filled + 1 \in DOMAIN book /\ 1 \in 1 .. Len(book) - filled
    BY <1>1, <1>2
<1>4. rest[1] = [book[filled + 1] EXCEPT !.quantity = book[filled + 1].quantity - Portion(o, book, filled)]
    BY <1>3 DEF Remaining
<1>5. book[filled + 1] \in Order
    BY <1>1, <1>3
<1>6. QED BY <1>3, <1>4, <1>5 DEF Order

\* Matching moves quantities from the book to the tape: what an order had it has still,
\* there or here, and the newcomer has all but what is left over.
LEMMA MatchingMoves ==
    ASSUME NEW side \in Sides, NEW book, Queue(book, side), NEW o \in Order, NEW filled \in 0 .. Len(book),
           StopsAfter(o, book, filled), NEW rest, rest = Remaining(o, book, filled),
           NEW e, e = Executed(o, book, filled), \A i \in DOMAIN book : book[i].id # o.id
    PROVE  /\ \A x : x # o.id => Held(rest, x) + Exchanged(e, x) = Held(book, x)
           /\ Held(rest, o.id) = 0
           /\ Exchanged(e, o.id) = o.quantity - Leftover(o, book, filled)
<1> DEFINE p == Portion(o, book, filled)
           n == IF p > 0 THEN filled + 1 ELSE filled
           f == [i \in DOMAIN e |-> e[i].quantity]
<1>1. Line(book, side) /\ Distinct(book)
    BY DEF Queue
<1>2. /\ Len(book) \in Nat /\ DOMAIN book = 1 .. Len(book)
      /\ \A i \in 1 .. Len(book) : book[i].quantity \in Int
    <2>1. book \in Seq(Order)
        BY <1>1 DEF Line
    <2>2. \A i \in 1 .. Len(book) : book[i] \in Order
        BY <2>1
    <2>3. QED BY <2>1, <2>2 DEF Order
<1>3. p \in Nat /\ (p > 0 => filled < Len(book))
    BY <1>1, Matched
<1>4. /\ DOMAIN e = 1 .. n /\ 1 .. n \subseteq 1 .. Len(book)
      /\ \A i \in 1 .. n : /\ Between(e[i], o.id, book[i].id)
                           /\ e[i].quantity = IF i <= filled THEN book[i].quantity ELSE p
    <2>1. /\ DOMAIN e = 1 .. n /\ DOMAIN e \subseteq DOMAIN book
          /\ \A i \in DOMAIN e : /\ Between(e[i], o.id, book[i].id)
                                /\ e[i].quantity = IF i <= filled THEN book[i].quantity ELSE p
        <3>1. Line(book, side)
            BY <1>1
        <3> HIDE DEF f
        <3>2. QED BY <3>1, ExecutedOf
    <2> HIDE DEF n, p
    <2>2. QED BY <1>2, <2>1
<1>5. /\ Len(rest) = Len(book) - filled /\ DOMAIN rest = 1 .. Len(rest) /\ Queue(rest, side)
      /\ \A i \in 1 .. Len(rest) : rest[i].id = book[filled + i].id /\ (i > 1 => rest[i] = book[filled + i])
    <2>1. /\ Len(rest) = Len(book) - filled /\ Line(rest, side)
          /\ \A i \in 1 .. Len(rest) : rest[i].id = book[filled + i].id /\ (i > 1 => rest[i] = book[filled + i])
        BY <1>1, RemainingIs
    <2>2. Queue(rest, side)
        BY OppositeKeeps
    <2>3. DOMAIN rest = 1 .. Len(rest)
        BY <2>1 DEF Line
    <2>4. QED BY <2>1, <2>2, <2>3
<1>6. 1 \in 1 .. Len(rest) => rest[1].quantity = book[filled + 1].quantity - p
    BY <1>1, <1>5, RemainingOf
<1>7. Distinct(rest)
    BY <1>5 DEF Queue
<1> HIDE DEF p
<1>8. \A i \in 1 .. Len(rest) : filled + i \in 1 .. Len(book)
    BY <1>2, <1>5
<1>9. ASSUME NEW x, x # o.id
      PROVE  Held(rest, x) + Exchanged(e, x) = Held(book, x)
    <2>1. CASE \A i \in 1 .. Len(book) : book[i].id # x
        <3>1. Held(book, x) = 0
            BY <1>2, <2>1, HeldNot
        <3>2. Held(rest, x) = 0
            BY <1>5, <1>8, <2>1, HeldNot
        <3>3. With(e, x) = {}
            BY <1>4, <1>9, <2>1 DEF With, Between
        <3>4. Exchanged(e, x) = 0
            BY <3>3, SumEmpty DEF Exchanged, Together
        <3>5. QED BY <3>1, <3>2, <3>4
    <2>2. CASE \E i \in 1 .. Len(book) : book[i].id = x
        <3>1. PICK k \in 1 .. Len(book) : book[k].id = x
            BY <2>2
        <3>2. \A i \in 1 .. Len(book) : book[i].id = x => i = k
            BY <1>1, <1>2, <3>1 DEF Distinct
        <3>3. Held(book, x) = book[k].quantity /\ book[k].quantity \in Int
            BY <1>1, <1>2, <3>1, HeldIs
        <3>4. With(e, x) = {i \in 1 .. n : i = k}
            <4>1. ASSUME NEW i \in 1 .. n PROVE x \in {e[i].buy_order, e[i].sell_order} <=> i = k
                <5>1. i \in 1 .. Len(book) /\ {e[i].buy_order, e[i].sell_order} = {o.id, book[i].id}
                    BY <1>4 DEF Between
                <5>2. x \in {o.id, book[i].id} <=> book[i].id = x
                    BY <1>9
                <5>3. QED BY <3>1, <3>2, <5>1, <5>2
            <4> HIDE DEF n
            <4>2. With(e, x) = {i \in 1 .. n : x \in {e[i].buy_order, e[i].sell_order}}
                BY <1>4 DEF With
            <4>3. QED BY <4>1, <4>2
        <3>5. k \in 1 .. n => Exchanged(e, x) = IF k <= filled THEN book[k].quantity ELSE p
            <4>1. SUFFICES ASSUME k \in 1 .. n PROVE Exchanged(e, x) = IF k <= filled THEN book[k].quantity ELSE p
                OBVIOUS
            <4>2. With(e, x) = {k}
                BY <3>4, <4>1
            <4>3. f[k] = (IF k <= filled THEN book[k].quantity ELSE p) /\ f[k] \in Int
                BY <1>3, <1>4, <3>3, <4>1
            <4>4. Exchanged(e, x) = SumFunctionOnSet(f, {k})
                BY <4>2 DEF Exchanged, Together
            <4> HIDE DEF f
            <4>5. SumFunctionOnSet(f, {k}) = f[k]
                BY <4>3, SumSingle
            <4>6. QED BY <4>3, <4>4, <4>5
        <3>6. k \notin 1 .. n => Exchanged(e, x) = 0
            <4>1. SUFFICES ASSUME k \notin 1 .. n PROVE Exchanged(e, x) = 0
                OBVIOUS
            <4>2. With(e, x) = {}
                BY <3>4, <4>1
            <4>3. QED BY <4>2, SumEmpty DEF Exchanged, Together
        <3>7. CASE k <= filled
            <4>1. k \in 1 .. n
                BY <3>7
            <4>2. \A i \in 1 .. Len(rest) : rest[i].id # x
                <5>1. SUFFICES ASSUME NEW i \in 1 .. Len(rest) PROVE filled + i # k
                    BY <1>5, <1>8, <3>2
                <5>2. QED BY <1>2, <1>5, <3>7
            <4>3. Held(rest, x) = 0
                BY <1>5, <4>2, HeldNot
            <4>4. QED BY <3>3, <3>5, <3>7, <4>1, <4>3
        <3>8. CASE k > filled
            <4>1. PICK j \in 1 .. Len(rest) : j = k - filled /\ filled + j = k
                BY <1>2, <1>5, <3>8
            <4>2. rest[j].id = x
                BY <1>5, <3>1, <4>1
            <4>3. rest[j].quantity = IF j = 1 THEN book[k].quantity - p ELSE book[k].quantity
                <5>1. CASE j = 1
                    BY <1>6, <4>1, <5>1
                <5>2. CASE j # 1
                    <6>1. j > 1
                        BY <1>2, <1>5, <5>2
                    <6>2. rest[j] = book[k]
                        BY <1>5, <4>1, <6>1
                    <6>3. QED BY <5>2, <6>2
                <5>3. QED BY <5>1, <5>2
            <4>4. rest[j].quantity \in Int
                BY <1>3, <3>3, <4>3
            <4>5. Held(rest, x) = rest[j].quantity
                BY <1>5, <1>7, <4>2, <4>4, HeldIs
            <4>6. CASE j = 1 /\ p > 0
                <5>1. k \in 1 .. n /\ ~ (k <= filled)
                    BY <4>1, <4>6
                <5>2. Exchanged(e, x) = p
                    BY <3>5, <5>1
                <5>3. QED BY <1>3, <3>3, <4>3, <4>5, <4>6, <5>2
            <4>7. CASE ~ (j = 1 /\ p > 0)
                <5>1. k \notin 1 .. n
                    BY <1>2, <1>3, <1>5, <3>8, <4>1, <4>7
                <5>2. rest[j].quantity = book[k].quantity
                    BY <1>3, <3>3, <4>3, <4>7
                <5>3. QED BY <3>3, <3>6, <4>5, <5>1, <5>2
            <4>8. QED BY <4>6, <4>7
        <3>9. QED BY <1>2, <3>7, <3>8
    <2>3. QED BY <2>1, <2>2
<1>10. Held(rest, o.id) = 0
    BY <1>2, <1>5, <1>8, HeldNot
<1>11. Exchanged(e, o.id) = Depth(book)[filled] + p
    <2>1. With(e, o.id) = 1 .. n
        BY <1>4 DEF With, Between
    <2>2. Exchanged(e, o.id) = SumFunctionOnSet(f, 1 .. n)
        BY <2>1 DEF Exchanged, Together
    <2>3. \A i \in 1 .. filled : i \in 1 .. n /\ f[i] = book[i].quantity
        BY <1>4
    <2>4. SumFunctionOnSet(f, 1 .. filled) = Depth(book)[filled]
        <3> HIDE DEF f
        <3>1. QED BY <1>2, <2>3, DepthIsSum
    <2>5. Depth(book)[filled] \in Int
        BY <1>2, DepthIs
    <2>6. CASE p > 0
        <3>1. n = filled + 1 /\ 1 .. n = (1 .. filled) \cup {n} /\ n \notin 1 .. filled
            BY <2>6
        <3>2. f[n] = p
            BY <1>4, <3>1
        <3>3. \A i \in 1 .. filled : f[i] \in Int
            <4>1. \A i \in 1 .. filled : i \in 1 .. Len(book)
                BY <1>2
            <4> HIDE DEF f
            <4>2. QED BY <1>2, <2>3, <4>1
        <3>4. IsFiniteSet(1 .. filled)
            BY FS_Interval
        <3> HIDE DEF f, n
        <3>5. SumFunctionOnSet(f, (1 .. filled) \cup {n}) = f[n] + SumFunctionOnSet(f, 1 .. filled)
            <4>1. f[n] \in Int /\ n \notin 1 .. filled
                BY <1>3, <3>1, <3>2
            <4>2. QED BY <3>3, <3>4, <4>1, SumAdd
        <3>6. Exchanged(e, o.id) = p + Depth(book)[filled]
            BY <2>2, <2>4, <3>1, <3>2, <3>5
        <3>7. QED BY <1>3, <2>5, <3>6
    <2>7. CASE ~ (p > 0)
        <3>1. n = filled /\ p = 0
            BY <1>3, <2>7
        <3>2. QED BY <2>2, <2>4, <2>5, <3>1
    <2>8. QED BY <2>6, <2>7
<1>12. Exchanged(e, o.id) = o.quantity - Leftover(o, book, filled)
    <2>1. Depth(book)[filled] \in Int
        BY <1>2, DepthIs
    <2>2. o.quantity \in Int
        BY DEF Order
    <2>3. Leftover(o, book, filled) = o.quantity - Depth(book)[filled] - p
        BY DEF Leftover, p
    <2>4. QED BY <1>3, <1>11, <2>1, <2>2, <2>3
<1>13. QED BY <1>9, <1>10, <1>12

\* What is left of the newcomer rests in its side, and nobody else there has more or less.
LEMMA RestingAdds ==
    ASSUME NEW side \in Sides, NEW book, Queue(book, side), NEW o \in Order,
           o.side = side, o.limit \in Int, o.quantity > 0, Newest(o, book), NEW rest, rest = Rested(o, book)
    PROVE  Held(rest, o.id) = o.quantity /\ \A x : x # o.id => Held(rest, x) = Held(book, x)
<1>1. Line(book, side) /\ Sorted(book) /\ Distinct(book) /\ \A i \in DOMAIN book : book[i].sequence < o.sequence
    BY DEF Queue, Newest
<1>2. Distinct(rest)
    BY OwnKeeps DEF Queue
<1>3. /\ Line(rest, side) /\ Len(rest) = Len(book) + 1
      /\ \E k \in 0 .. Len(book) :
            \A i \in 1 .. Len(rest) :
                rest[i] = IF i <= k THEN book[i] ELSE IF i = k + 1 THEN o ELSE book[i - 1]
    BY <1>1, RestedIs
<1>4. PICK k \in 0 .. Len(book) :
        \A i \in 1 .. Len(rest) :
            rest[i] = IF i <= k THEN book[i] ELSE IF i = k + 1 THEN o ELSE book[i - 1]
    BY <1>3
<1>5. Len(book) \in Nat /\ DOMAIN book = 1 .. Len(book) /\ DOMAIN rest = 1 .. Len(book) + 1
    BY <1>1, <1>3 DEF Line
<1>6. rest[k + 1] = o /\ k + 1 \in DOMAIN rest
    BY <1>3, <1>4, <1>5
<1>7. Held(rest, o.id) = o.quantity
    <2>1. rest[k + 1].quantity \in Int
        BY <1>6 DEF Order
    <2>2. Held(rest, rest[k + 1].id) = rest[k + 1].quantity
        BY <1>2, <1>6, <2>1, HeldIs
    <2>3. QED BY <1>6, <2>2
<1>8. ASSUME NEW x, x # o.id
      PROVE  Held(rest, x) = Held(book, x)
    <2>1. \A i \in DOMAIN book : book[i].quantity \in Int
        <3>1. book \in Seq(Order)
            BY <1>1 DEF Line
        <3>2. \A i \in DOMAIN book : book[i] \in Order
            BY <3>1
        <3>3. QED BY <3>2 DEF Order
    <2>2. ASSUME NEW i \in DOMAIN book, book[i].id = x
          PROVE  \E j \in DOMAIN rest : rest[j].id = x /\ rest[j].quantity = book[i].quantity
        <3>1. PICK j \in DOMAIN rest : rest[j] = book[i]
            <4>1. CASE i <= k
                <5>1. i \in 1 .. Len(rest) /\ rest[i] = book[i]
                    BY <1>3, <1>4, <1>5, <4>1
                <5>2. QED BY <1>3, <1>5, <5>1
            <4>2. CASE i > k
                <5>1. i + 1 \in 1 .. Len(rest) /\ ~ (i + 1 <= k) /\ i + 1 # k + 1 /\ (i + 1) - 1 = i
                    BY <1>3, <1>5, <4>2
                <5>2. rest[i + 1] = book[i]
                    BY <1>4, <5>1
                <5>3. QED BY <1>3, <1>5, <5>1, <5>2
            <4>3. QED BY <1>5, <4>1, <4>2
        <3>2. QED BY <2>2, <3>1
    <2>3. ASSUME NEW j \in DOMAIN rest, rest[j].id = x
          PROVE  \E i \in DOMAIN book : book[i].id = x
        <3>1. rest[j] = o \/ \E i \in DOMAIN book : rest[j] = book[i]
            BY OwnKeeps DEF Joined
        <3>2. QED BY <1>8, <2>3, <3>1
    <2>4. Held(book, x) = Held(rest, x)
        BY <1>1, <1>2, <2>1, <2>2, <2>3, HeldSame
    <2>5. QED BY <2>4
<1>9. QED BY <1>7, <1>8

\* A withdrawal takes all that an order has in a side, and nothing else.
LEMMA WithdrawalTakes ==
    ASSUME NEW side \in Sides, NEW book, Queue(book, side), NEW id, At(book, id) # {},
           NEW k, k = Min(At(book, id)), NEW rest, rest = RemoveAt(book, k)
    PROVE  /\ Held(book, id) = book[k].quantity /\ book[k].quantity \in Int /\ Held(rest, id) = 0
           /\ \A x : x # id => Held(rest, x) = Held(book, x)
<1>1. Queue(rest, side) /\ k \in DOMAIN book /\ book[k].id = id
      /\ \A i \in DOMAIN rest : \E j \in DOMAIN book : rest[i] = book[j]
    BY WithdrawnFrom
<1>2. Line(book, side) /\ Distinct(book) /\ Distinct(rest)
    BY <1>1 DEF Queue
<1>3. PICK n \in 1 .. Len(book) :
        /\ n = k /\ Line(rest, side) /\ Len(rest) = Len(book) - 1
        /\ \A i \in 1 .. Len(rest) : rest[i] = IF i < n THEN book[i] ELSE book[i + 1]
    BY <1>2, WithoutIs
<1>4. Len(book) \in Nat /\ DOMAIN book = 1 .. Len(book) /\ DOMAIN rest = 1 .. Len(book) - 1
    BY <1>2, <1>3 DEF Line
<1>5. \A i \in DOMAIN book : book[i].quantity \in Int
    <2>1. book \in Seq(Order)
        BY <1>2 DEF Line
    <2>2. \A i \in DOMAIN book : book[i] \in Order
        BY <2>1
    <2>3. QED BY <2>2 DEF Order
<1>6. Held(book, id) = book[k].quantity /\ book[k].quantity \in Int
    <2>1. Held(book, book[k].id) = book[k].quantity
        BY <1>1, <1>2, <1>5, HeldIs
    <2>2. QED BY <1>1, <1>5, <2>1
<1>7. Held(rest, id) = 0
    <2>1. ASSUME NEW i \in DOMAIN rest PROVE rest[i].id # id
        <3>1. PICK j \in DOMAIN book : rest[i] = book[j] /\ j # k
            <4>1. CASE i < n
                BY <1>3, <1>4, <4>1
            <4>2. CASE i >= n
                <5>1. i \in 1 .. Len(book) - 1 /\ i \in 1 .. Len(rest)
                    BY <1>3, <1>4
                <5>2. rest[i] = book[i + 1] /\ i + 1 \in DOMAIN book /\ i + 1 # k
                    BY <1>3, <1>4, <4>2, <5>1
                <5>3. QED BY <5>2
            <4>3. QED BY <1>4, <4>1, <4>2
        <3>2. QED BY <1>1, <1>2, <3>1 DEF Distinct
    <2>2. QED BY <2>1, HeldNot
<1>8. ASSUME NEW x, x # id
      PROVE  Held(rest, x) = Held(book, x)
    <2>1. ASSUME NEW i \in DOMAIN book, book[i].id = x
          PROVE  \E j \in DOMAIN rest : rest[j].id = x /\ rest[j].quantity = book[i].quantity
        <3>1. i # n
            BY <1>1, <1>3, <1>8, <2>1
        <3>2. CASE i < n
            <4>1. i \in 1 .. Len(rest) /\ rest[i] = book[i]
                BY <1>3, <1>4, <3>2
            <4>2. QED BY <1>3, <1>4, <2>1, <4>1
        <3>3. CASE i > n
            <4>1. i - 1 \in 1 .. Len(rest) /\ ~ (i - 1 < n) /\ (i - 1) + 1 = i
                BY <1>3, <1>4, <3>3
            <4>2. rest[i - 1] = book[i]
                BY <1>3, <4>1
            <4>3. QED BY <1>3, <1>4, <2>1, <4>1, <4>2
        <3>4. QED BY <1>4, <3>1, <3>2, <3>3
    <2>2. ASSUME NEW j \in DOMAIN rest, rest[j].id = x
          PROVE  \E i \in DOMAIN book : book[i].id = x
        BY <1>1, <2>2
    <2>3. Held(book, x) = Held(rest, x)
        BY <1>2, <1>5, <2>1, <2>2, HeldSame
    <2>4. QED BY <2>3
<1>9. QED BY <1>6, <1>7, <1>8

-----------------------------------------------------------------------------
(* Every unit of an order *)

LEMMA RestingIs ==
    ASSUME Inv, NEW id
    PROVE  /\ Held(bids, id) \in Int /\ Held(asks, id) \in Int
           /\ Resting(id) = Held(bids, id) + Held(asks, id)
           /\ Traded(id) = Exchanged(trades, id) /\ Exchanged(trades, id) \in Int
<1>1. Held(bids, id) \in Int /\ Held(asks, id) \in Int
    BY HeldType DEF Inv, Sides
<1>2. trades \in Seq(Trade)
    BY DEF Inv, Known
<1>3. Exchanged(trades, id) \in Int
    BY <1>2, TapeGrows
<1>4. QED BY <1>1, <1>3 DEF Resting, Traded, Held, Exchanged

\* What an order was asked for, for the books and the tape of a state.
Accounted(known, terms, lower, upper, tape) ==
    \A x \in known :
        terms[x].order.quantity = (Held(lower, x) + Held(upper, x)) + Exchanged(tape, x) + terms[x].withdrawn

LEMMA AccountedIs ==
    EveryUnitIsAccountedFor <=> Accounted(seen, asked, bids, asks, trades)
BY DEF EveryUnitIsAccountedFor, Accounted, Resting, Traded, Held, Exchanged

LEMMA AccountedNext ==
    EveryUnitIsAccountedFor' <=> Accounted(seen', asked', bids', asks', trades')
BY DEF EveryUnitIsAccountedFor, Accounted, Resting, Traded, Held, Exchanged

\* The sums of an order over both sides and the tape, after an order was matched: `own` is
\* its side before what is left of it rests.
LEMMA MatchingKeeps ==
    ASSUME Inv, NEW id \in Ids, NEW side \in Sides, NEW limit \in Prices \cup {None},
           NEW quantity \in Quantities, Valid(id, limit, quantity),
           NEW o, o = Incoming(id, side, limit, quantity),
           NEW b, b = Opposite(o), NEW filled \in 0 .. Len(b), StopsAfter(o, b, filled),
           NEW left, left = Leftover(o, b, filled),
           NEW own, own = OwnAfter(o, left, limit),
           NEW e, e = Executed(o, b, filled),
           Sides2(o, own, Remaining(o, b, filled))
    PROVE  /\ e \in Seq(Trade) /\ o.quantity \in Int
           /\ \A x \in seen : Held(bids', x) + Held(asks', x) + Exchanged(e, x) = Held(bids, x) + Held(asks, x)
           /\ left = 0 \/ limit # None => Held(bids', id) + Held(asks', id) + Exchanged(e, id) = o.quantity
<1> DEFINE rest == Remaining(o, b, filled)
           a == Own(o)
<1>1. /\ o \in Order /\ o.id = id /\ o.side = side /\ o.limit = limit /\ o.sequence = sequence + 1
      /\ Queue(own, side) /\ Queue(rest, Other(side))
    <2>1. /\ filled \in 0 .. Len(Opposite(o)) /\ StopsAfter(o, Opposite(o), filled)
          /\ left = Leftover(o, Opposite(o), filled) /\ rest = Remaining(o, Opposite(o), filled)
        OBVIOUS
    <2> HIDE DEF rest, a
    <2>2. QED BY <2>1, Arrives
<1>2. /\ Queue(a, side) /\ Queue(b, Other(side))
      /\ \A i \in DOMAIN a : a[i].id \in seen /\ a[i].sequence <= sequence
      /\ \A i \in DOMAIN b : b[i].id \in seen
    BY <1>1 DEF Own, Opposite, Other, Inv, Placed, Sides
<1>3. Other(side) \in Sides /\ id \notin seen /\ sequence \in Nat /\ limit \in Int \cup {None}
    BY <1>1 DEF Other, Sides, Valid, Inv, Known, Order
<1>4. \A i \in DOMAIN b : b[i].id # o.id
    BY <1>1, <1>2, <1>3
<1>5. /\ \A x : x # id => Held(rest, x) + Exchanged(e, x) = Held(b, x)
      /\ Held(rest, id) = 0
      /\ Exchanged(e, id) = o.quantity - left
    <2>1. /\ \A x : x # o.id => Held(rest, x) + Exchanged(e, x) = Held(b, x)
          /\ Held(rest, o.id) = 0
          /\ Exchanged(e, o.id) = o.quantity - left
        BY <1>1, <1>2, <1>3, <1>4, MatchingMoves
    <2>2. QED BY <1>1, <2>1
<1>6. left \in Nat
    BY <1>1, <1>2, <1>3, Matched DEF Queue
<1> HIDE DEF rest, a
<1>7. e \in Seq(Trade) /\ o.quantity \in Int
    <2>1. Line(b, Other(side))
        BY <1>2 DEF Queue
    <2>2. QED BY <1>1, <1>3, <2>1, ExecutedIs DEF Order
<1>8. Held(a, id) = 0
    BY <1>2, <1>3, HeldNot
<1>9. /\ \A x : x # id => Held(own, x) = Held(a, x)
      /\ left = 0 \/ limit # None => Held(own, id) = left
    <2>1. CASE left = 0 \/ limit = None
        <3>1. own = a
            BY <2>1 DEF a, OwnAfter
        <3>2. QED BY <1>8, <2>1, <3>1
    <2>2. CASE left # 0 /\ limit # None
        <3>1. PICK n \in Order : /\ n = [o EXCEPT !.quantity = left] /\ n.id = id /\ n.side = side
                                 /\ n.limit \in Int /\ n.sequence = sequence + 1
                                 /\ n.quantity > 0 /\ n.quantity = left
            <4>1. left \in Int /\ left > 0 /\ limit \in Int
                BY <1>3, <1>6, <2>2
            <4>2. PICK n : n = [o EXCEPT !.quantity = left]
                OBVIOUS
            <4>3. n \in Order /\ n.id = o.id /\ n.side = o.side /\ n.limit = o.limit
                  /\ n.sequence = o.sequence /\ n.quantity = left
                BY <1>1, <4>1, <4>2 DEF Order
            <4>4. QED BY <1>1, <4>1, <4>2, <4>3
        <3>2. own = Rested(n, a)
            BY <2>2, <3>1 DEF a, OwnAfter
        <3>3. Newest(n, a)
            <4>1. a \in Seq(Order)
                BY <1>2 DEF Queue, Line
            <4>2. \A i \in DOMAIN a : a[i] \in Order
                BY <4>1
            <4>3. ASSUME NEW i \in DOMAIN a PROVE a[i].sequence < n.sequence /\ a[i].id # n.id
                <5>1. a[i].sequence \in Nat
                    BY <4>2 DEF Order
                <5>2. a[i].id \in seen /\ a[i].sequence <= sequence
                    BY <1>2
                <5>3. QED BY <1>3, <3>1, <5>1, <5>2
            <4>4. QED BY <4>3 DEF Newest
        <3>4. Held(own, n.id) = n.quantity /\ \A x : x # n.id => Held(own, x) = Held(a, x)
            <4>1. Queue(a, side) /\ n.side = side /\ n.limit \in Int /\ n.quantity > 0
                BY <1>2, <3>1
            <4>2. QED BY <3>2, <3>3, <4>1, RestingAdds
        <3>5. QED BY <3>1, <3>4
    <2>3. QED BY <2>1, <2>2
<1>10. ASSUME NEW x
       PROVE  /\ Held(own, x) \in Int /\ Held(rest, x) \in Int /\ Held(a, x) \in Int /\ Held(b, x) \in Int
              /\ Exchanged(e, x) \in Int
              /\ Held(bids', x) + Held(asks', x) = Held(own, x) + Held(rest, x)
              /\ Held(bids, x) + Held(asks, x) = Held(a, x) + Held(b, x)
    <2>1. Held(own, x) \in Int /\ Held(rest, x) \in Int /\ Held(a, x) \in Int /\ Held(b, x) \in Int
        BY <1>1, <1>2, <1>3, HeldType
    <2>2. Exchanged(e, x) \in Int
        BY <1>7, TapeGrows
    <2>3. CASE side = "Buy"
        <3>1. bids' = own /\ asks' = rest /\ bids = a /\ asks = b
            BY <1>1, <2>3 DEF Sides2, Own, Opposite, a, rest
        <3>2. QED BY <2>1, <2>2, <3>1
    <2>4. CASE side = "Sell"
        <3>1. asks' = own /\ bids' = rest /\ asks = a /\ bids = b
            BY <1>1, <2>4 DEF Sides2, Own, Opposite, a, rest
        <3>2. QED BY <2>1, <2>2, <3>1
    <2>5. QED BY <2>3, <2>4 DEF Sides
<1>11. ASSUME NEW x \in seen
       PROVE  Held(bids', x) + Held(asks', x) + Exchanged(e, x) = Held(bids, x) + Held(asks, x)
    <2>1. x # id
        BY <1>3
    <2>2. Held(own, x) = Held(a, x) /\ Held(rest, x) + Exchanged(e, x) = Held(b, x)
        BY <1>5, <1>9, <2>1
    <2>3. QED BY <1>10, <2>2
<1>12. ASSUME left = 0 \/ limit # None
       PROVE  Held(bids', id) + Held(asks', id) + Exchanged(e, id) = o.quantity
    <2>1. Held(own, id) = left /\ Held(rest, id) = 0 /\ Exchanged(e, id) = o.quantity - left
        BY <1>5, <1>9, <1>12
    <2>2. Held(bids', id) + Held(asks', id) = Held(own, id) + Held(rest, id)
        BY <1>10
    <2>3. QED BY <1>6, <1>7, <2>1, <2>2
<1>13. QED BY <1>7, <1>11, <1>12

LEMMA AcceptedAccounts ==
    ASSUME Inv, EveryUnitIsAccountedFor,
           NEW id \in Ids, NEW side \in Sides, NEW limit \in Prices \cup {None},
           NEW quantity \in Quantities, SubmitAccepted(id, side, limit, quantity)
    PROVE  EveryUnitIsAccountedFor'
<1>1. PICK o : o = Incoming(id, side, limit, quantity)
    OBVIOUS
<1>2. PICK b : b = Opposite(o)
    OBVIOUS
<1>3. PICK filled \in 0 .. Len(b) :
        LET left == Leftover(o, b, filled)
        IN  /\ StopsAfter(o, b, filled)
            /\ left = 0 \/ limit # None
            /\ Sides2(o, IF left = 0 THEN Own(o) ELSE Rested([o EXCEPT !.quantity = left], Own(o)),
                      Remaining(o, b, filled))
            /\ trades' = trades \o Executed(o, b, filled)
            /\ seen' = seen \cup {id}
            /\ Record(o)
    BY <1>1, <1>2 DEF SubmitAccepted
<1>4. PICK left : left = Leftover(o, b, filled)
    OBVIOUS
<1>5. PICK own : own = OwnAfter(o, left, limit)
    OBVIOUS
<1>6. PICK e : e = Executed(o, b, filled)
    OBVIOUS
<1>7. Valid(id, limit, quantity)
    BY DEF SubmitAccepted
<1>8. Sides2(o, own, Remaining(o, b, filled)) /\ (left = 0 \/ limit # None)
    BY <1>3, <1>4, <1>5 DEF OwnAfter
<1>9. /\ e \in Seq(Trade) /\ o.quantity \in Int
      /\ \A x \in seen : Held(bids', x) + Held(asks', x) + Exchanged(e, x) = Held(bids, x) + Held(asks, x)
      /\ left = 0 \/ limit # None => Held(bids', id) + Held(asks', id) + Exchanged(e, id) = o.quantity
    <2>1. filled \in 0 .. Len(b) /\ StopsAfter(o, b, filled)
        BY <1>3
    <2>2. QED BY <1>1, <1>2, <1>4, <1>5, <1>6, <1>7, <1>8, <2>1, MatchingKeeps
<1>10. o.id = id
    BY <1>1 DEF Incoming
<1>11. /\ asked'[id] = [order |-> o, withdrawn |-> 0]
       /\ \A x \in seen : asked'[x] = asked[x]
       /\ seen' = seen \cup {id}
    BY <1>3, <1>7, <1>10 DEF Record, Valid, Inv, Known
<1>12. Inv'
    BY AcceptedStep
<1>13. ASSUME NEW x
       PROVE  /\ Exchanged(trades', x) = Exchanged(trades, x) + Exchanged(e, x)
              /\ Exchanged(trades, x) \in Int /\ Exchanged(e, x) \in Int
    <2>1. trades \in Seq(Trade)
        BY DEF Inv, Known
    <2>2. trades' = trades \o e
        BY <1>3, <1>6
    <2>3. QED BY <1>9, <2>1, <2>2, TapeGrows
<1>14. ASSUME NEW x
       PROVE  Held(bids', x) \in Int /\ Held(asks', x) \in Int /\ Held(bids, x) \in Int /\ Held(asks, x) \in Int
    <2>1. Queue(bids', "Buy") /\ Queue(asks', "Sell") /\ Queue(bids, "Buy") /\ Queue(asks, "Sell")
        BY <1>12 DEF Inv
    <2>2. QED BY <2>1, HeldType DEF Sides
<1>15. ASSUME NEW x \in seen
       PROVE  asked'[x].order.quantity =
                (Held(bids', x) + Held(asks', x)) + Exchanged(trades', x) + asked'[x].withdrawn
    <2>1. asked[x].order.quantity = (Held(bids, x) + Held(asks, x)) + Exchanged(trades, x) + asked[x].withdrawn
        BY AccountedIs DEF Accounted
    <2>2. asked[x].withdrawn \in Int
        BY DEF Inv, Known
    <2>3. asked'[x] = asked[x]
        BY <1>11
    <2>4. Held(bids', x) + Held(asks', x) + Exchanged(e, x) = Held(bids, x) + Held(asks, x)
        BY <1>9
    <2>5. QED BY <1>13, <1>14, <2>1, <2>2, <2>3, <2>4
<1>16. asked'[id].order.quantity =
         (Held(bids', id) + Held(asks', id)) + Exchanged(trades', id) + asked'[id].withdrawn
    <2>1. Exchanged(trades, id) = 0
        <3>1. \A i \in DOMAIN trades : id \notin {trades[i].buy_order, trades[i].sell_order}
            BY <1>7 DEF Inv, Fair, Valid
        <3>2. With(trades, id) = {}
            BY <3>1 DEF With
        <3>3. QED BY <3>2, SumEmpty DEF Exchanged, Together
    <2>2. Exchanged(trades', id) = Exchanged(e, id)
        BY <1>13, <2>1
    <2>3. Held(bids', id) + Held(asks', id) + Exchanged(e, id) = o.quantity
        BY <1>8, <1>9
    <2>4. asked'[id].order.quantity = o.quantity /\ asked'[id].withdrawn = 0
        BY <1>11
    <2>5. QED BY <1>9, <2>2, <2>3, <2>4
<1>17. Accounted(seen', asked', bids', asks', trades')
    BY <1>11, <1>15, <1>16 DEF Accounted
<1>18. QED BY <1>17, AccountedNext

\* A market order that is refused and has traded nothing leaves everything where it was.
LEMMA NoLiquidityAccounts ==
    ASSUME Inv, EveryUnitIsAccountedFor,
           NEW id \in Ids, NEW side \in Sides,
           NEW quantity \in Quantities, SubmitNoLiquidity(id, side, quantity), ~ untaped'
    PROVE  EveryUnitIsAccountedFor'
<1>1. PICK o : o = Incoming(id, side, None, quantity)
    OBVIOUS
<1>2. PICK b : b = Opposite(o)
    OBVIOUS
<1>3. PICK filled \in 0 .. Len(b) :
        /\ StopsAfter(o, b, filled)
        /\ Sides2(o, Own(o), Remaining(o, b, filled))
        /\ untaped' = (untaped \/ Executed(o, b, filled) # << >>)
        /\ UNCHANGED <<trades, seen, asked>>
    BY <1>1, <1>2 DEF SubmitNoLiquidity
<1>4. PICK left : left = Leftover(o, b, filled)
    OBVIOUS
<1>5. PICK own : own = OwnAfter(o, left, None)
    OBVIOUS
<1>6. PICK e : e = Executed(o, b, filled) /\ e = << >>
    BY <1>3
<1>7. Valid(id, None, quantity) /\ own = Own(o) /\ Sides2(o, own, Remaining(o, b, filled))
    BY <1>3, <1>5 DEF SubmitNoLiquidity, OwnAfter
<1>8. \A x \in seen : Held(bids', x) + Held(asks', x) + Exchanged(e, x) = Held(bids, x) + Held(asks, x)
    <2>1. None \in Prices \cup {None}
        OBVIOUS
    <2>2. /\ filled \in 0 .. Len(b) /\ StopsAfter(o, b, filled) /\ e = Executed(o, b, filled)
          /\ Valid(id, None, quantity) /\ Sides2(o, own, Remaining(o, b, filled))
        BY <1>3, <1>6, <1>7
    <2>3. QED BY <1>1, <1>2, <1>4, <1>5, <2>1, <2>2, MatchingKeeps
<1>9. Inv'
    BY NoLiquidityStep
<1>10. \A x : Exchanged(e, x) = 0
    <2>1. \A x : With(e, x) = {}
        BY <1>6 DEF With
    <2>2. QED BY <2>1, SumEmpty DEF Exchanged, Together
<1>11. ASSUME NEW x
       PROVE  Held(bids', x) \in Int /\ Held(asks', x) \in Int
    <2>1. Queue(bids', "Buy") /\ Queue(asks', "Sell")
        BY <1>9 DEF Inv
    <2>2. QED BY <2>1, HeldType DEF Sides
<1>12. \A x \in seen : Held(bids', x) + Held(asks', x) = Held(bids, x) + Held(asks, x)
    <2>1. TAKE x \in seen
    <2>2. Held(bids', x) + Held(asks', x) + 0 = Held(bids, x) + Held(asks, x)
        BY <1>8, <1>10
    <2>3. QED BY <1>11, <2>2
<1>13. Accounted(seen, asked, bids, asks, trades)
    BY AccountedIs
<1>14. Accounted(seen', asked', bids', asks', trades')
    BY <1>3, <1>12, <1>13 DEF Accounted
<1>15. QED BY <1>14, AccountedNext

LEMMA CancelAccounts ==
    ASSUME Inv, EveryUnitIsAccountedFor, NEW id \in Ids, CancelFound(id)
    PROVE  EveryUnitIsAccountedFor'
<1>1. /\ Queue(bids, "Buy") /\ Queue(asks, "Sell") /\ Placed(bids) /\ Placed(asks)
      /\ Parted("Buy", bids, asks) /\ trades \in Seq(Trade)
      /\ asked \in [DOMAIN asked -> [order : Order, withdrawn : Int]] /\ seen \subseteq DOMAIN asked
    BY DEF Inv, Known
<1>2. UNCHANGED <<trades, sequence, seen, untaped>>
    BY DEF CancelFound
<1>3. ASSUME NEW x
      PROVE  Held(bids, x) \in Int /\ Held(asks, x) \in Int /\ Exchanged(trades, x) \in Int
    BY RestingIs
<1>4. Accounted(seen, asked, bids, asks, trades)
    BY AccountedIs
<1>5. ASSUME NEW gone \in Int, id \in seen, Withdraw(id, gone),
             Held(bids', id) + Held(asks', id) = Held(bids, id) + Held(asks, id) - gone,
             Held(bids', id) \in Int, Held(asks', id) \in Int,
             \A x : x # id => Held(bids', x) + Held(asks', x) = Held(bids, x) + Held(asks, x)
      PROVE  Accounted(seen', asked', bids', asks', trades')
    <2>1. /\ asked'[id].order = asked[id].order
          /\ asked'[id].withdrawn = asked[id].withdrawn + gone /\ asked[id].withdrawn \in Int
          /\ \A x \in seen : x # id => asked'[x] = asked[x]
        BY <1>1, <1>5 DEF Withdraw
    <2>2. asked'[id].order.quantity =
            (Held(bids', id) + Held(asks', id)) + Exchanged(trades, id) + asked'[id].withdrawn
        <3>1. asked[id].order.quantity =
                (Held(bids, id) + Held(asks, id)) + Exchanged(trades, id) + asked[id].withdrawn
            BY <1>4, <1>5 DEF Accounted
        <3>2. QED BY <1>3, <1>5, <2>1, <3>1
    <2>3. ASSUME NEW x \in seen, x # id
          PROVE  asked'[x].order.quantity =
                    (Held(bids', x) + Held(asks', x)) + Exchanged(trades, x) + asked'[x].withdrawn
        <3>1. asked[x].order.quantity =
                (Held(bids, x) + Held(asks, x)) + Exchanged(trades, x) + asked[x].withdrawn
            BY <1>4 DEF Accounted
        <3>2. QED BY <1>5, <2>1, <2>3, <3>1
    <2>4. QED BY <1>2, <2>2, <2>3 DEF Accounted
<1>6. CASE At(bids, id) # {}
    <2>1. PICK k : /\ k = Min(At(bids, id)) /\ bids' = RemoveAt(bids, k)
                   /\ Withdraw(id, bids[k].quantity) /\ asks' = asks
        BY <1>6 DEF CancelFound
    <2>2. /\ Held(bids, id) = bids[k].quantity /\ bids[k].quantity \in Int /\ Held(bids', id) = 0
          /\ \A x : x # id => Held(bids', x) = Held(bids, x)
        <3>1. PICK rest : rest = bids'
            OBVIOUS
        <3>2. QED BY <1>1, <1>6, <2>1, <3>1, WithdrawalTakes DEF Sides
    <2>3. id \in seen
        <3>1. PICK rest : rest = bids'
            OBVIOUS
        <3>2. k \in DOMAIN bids /\ bids[k].id = id
            BY <1>1, <1>6, <2>1, <3>1, WithdrawnFrom DEF Sides
        <3>3. QED BY <1>1, <3>2 DEF Placed
    <2>4. Accounted(seen', asked', bids', asks', trades')
        BY <1>3, <1>5, <2>1, <2>2, <2>3
    <2>5. QED BY <2>4, AccountedNext
<1>7. CASE At(bids, id) = {}
    <2>0. At(asks, id) # {}
        BY <1>7 DEF CancelFound
    <2>1. PICK k : /\ k = Min(At(asks, id)) /\ asks' = RemoveAt(asks, k)
                   /\ Withdraw(id, asks[k].quantity) /\ bids' = bids
        BY <1>7 DEF CancelFound
    <2>2. /\ Held(asks, id) = asks[k].quantity /\ asks[k].quantity \in Int /\ Held(asks', id) = 0
          /\ \A x : x # id => Held(asks', x) = Held(asks, x)
        <3>1. PICK rest : rest = asks'
            OBVIOUS
        <3>2. QED BY <1>1, <2>0, <2>1, <3>1, WithdrawalTakes DEF Sides
    <2>3. id \in seen
        <3>1. PICK rest : rest = asks'
            OBVIOUS
        <3>2. k \in DOMAIN asks /\ asks[k].id = id
            BY <1>1, <2>0, <2>1, <3>1, WithdrawnFrom DEF Sides
        <3>3. QED BY <1>1, <3>2 DEF Placed
    <2>4. Accounted(seen', asked', bids', asks', trades')
        BY <1>3, <1>5, <2>1, <2>2, <2>3
    <2>5. QED BY <2>4, AccountedNext
<1>8. QED BY <1>6, <1>7

LEMMA Accounts ==
    Inv /\ UnitsAccountedForUnlessRefused /\ [Next]_vars => UnitsAccountedForUnlessRefused'
<1>1. SUFFICES ASSUME Inv, UnitsAccountedForUnlessRefused, [Next]_vars, ~ untaped'
               PROVE  EveryUnitIsAccountedFor'
    BY DEF UnitsAccountedForUnlessRefused
<1>2. ASSUME UNCHANGED vars
      PROVE  EveryUnitIsAccountedFor'
    <2>1. ~ untaped /\ EveryUnitIsAccountedFor
        BY <1>1, <1>2 DEF vars, UnitsAccountedForUnlessRefused
    <2>2. Accounted(seen', asked', bids', asks', trades')
        BY <1>2, <2>1, AccountedIs DEF vars, Accounted
    <2>3. QED BY <2>2, AccountedNext
<1>3. ASSUME NEW reason, Refuse(reason)
      PROVE  EveryUnitIsAccountedFor'
    <2>1. ~ untaped /\ EveryUnitIsAccountedFor
        BY <1>1, <1>3 DEF Refuse, UnitsAccountedForUnlessRefused
    <2>2. Accounted(seen', asked', bids', asks', trades')
        BY <1>3, <2>1, AccountedIs DEF Refuse, Accounted
    <2>3. QED BY <2>2, AccountedNext
<1>4. ASSUME NEW id \in Ids, NEW side \in Sides, NEW limit \in Prices \cup {None}, NEW quantity \in Quantities,
             Submit(id, side, limit, quantity)
      PROVE  EveryUnitIsAccountedFor'
    <2>1. CASE SubmitInvalid(id, limit, quantity)
        BY <1>3, <2>1 DEF SubmitInvalid
    <2>2. CASE SubmitAccepted(id, side, limit, quantity)
        <3>1. untaped' = untaped
            BY <2>2 DEF SubmitAccepted
        <3>2. EveryUnitIsAccountedFor
            BY <1>1, <3>1 DEF UnitsAccountedForUnlessRefused
        <3>3. QED BY <1>1, <2>2, <3>2, AcceptedAccounts
    <2>3. CASE limit = None /\ SubmitNoLiquidity(id, side, quantity)
        <3>1. ~ untaped
            BY <1>1, <2>3 DEF SubmitNoLiquidity
        <3>2. EveryUnitIsAccountedFor
            BY <1>1, <3>1 DEF UnitsAccountedForUnlessRefused
        <3>3. QED BY <1>1, <2>3, <3>2, NoLiquidityAccounts
    <2>4. QED BY <1>4, <2>1, <2>2, <2>3 DEF Submit
<1>5. ASSUME NEW id \in Ids, Cancel(id)
      PROVE  EveryUnitIsAccountedFor'
    <2>1. CASE CancelFound(id)
        <3>1. untaped' = untaped
            BY <2>1 DEF CancelFound
        <3>2. EveryUnitIsAccountedFor
            BY <1>1, <3>1 DEF UnitsAccountedForUnlessRefused
        <3>3. QED BY <1>1, <2>1, <3>2, CancelAccounts
    <2>2. CASE CancelNotFound(id)
        BY <1>3, <2>2 DEF CancelNotFound
    <2>3. QED BY <1>5, <2>1, <2>2 DEF Cancel
<1>6. QED BY <1>1, <1>2, <1>4, <1>5 DEF Next

-----------------------------------------------------------------------------
(* The theorems *)

Safe == result' \in {"Ok", "NoLiquidity"} => Turn

LEMMA InitInv == Init => Inv
<1>1. SUFFICES ASSUME Init PROVE Inv
    OBVIOUS
<1>2. << >> \in Seq(Order) /\ << >> \in Seq(Trade) /\ DOMAIN << >> = {}
    OBVIOUS
<1>3. Known
    <2>1. asked = [id \in {} |-> None]
        BY <1>1 DEF Init
    <2>2. asked \in [DOMAIN asked -> [order : Order, withdrawn : Int]]
        BY <2>1
    <2>3. trades = << >> /\ sequence = 0 /\ seen = {} /\ result = "Ok" /\ untaped = FALSE
        BY <1>1 DEF Init
    <2>4. 0 \in 0 .. MaxOrders
        BY BookAssumption
    <2>5. trades \in Seq(Trade) /\ sequence \in 0 .. MaxOrders
        BY <1>2, <2>3, <2>4
    <2>6. QED BY <2>2, <2>3, <2>5 DEF Known, Results
<1>4. Queue(<< >>, "Buy") /\ Queue(<< >>, "Sell")
    BY <1>2 DEF Queue, Line, Sorted, Distinct
<1>5. QED BY <1>1, <1>2, <1>3, <1>4 DEF Init, Inv, Placed, Parted

LEMMA NextInv == Inv /\ [Next]_vars => Inv' /\ (Safe \/ UNCHANGED vars)
<1>1. SUFFICES ASSUME Inv, [Next]_vars PROVE Inv' /\ (Safe \/ UNCHANGED vars)
    OBVIOUS
<1>2. ASSUME NEW id \in Ids, NEW side \in Sides, NEW limit \in Prices \cup {None}, NEW quantity \in Quantities,
             Submit(id, side, limit, quantity)
      PROVE  Inv' /\ Safe
    <2>1. CASE SubmitInvalid(id, limit, quantity)
        <3>1. PICK reason \in Results : Refuse(reason)
            BY <2>1 DEF SubmitInvalid, Results
        <3>2. QED BY <1>1, <3>1, RefusedStep DEF Safe
    <2>2. CASE SubmitAccepted(id, side, limit, quantity)
        BY <1>1, <2>2, AcceptedStep DEF Safe
    <2>3. CASE limit = None /\ SubmitNoLiquidity(id, side, quantity)
        BY <1>1, <2>3, NoLiquidityStep DEF Safe
    <2>4. QED BY <1>2, <2>1, <2>2, <2>3 DEF Submit
<1>3. ASSUME NEW id \in Ids, Cancel(id) PROVE Inv' /\ Safe
    <2>1. CASE CancelFound(id)
        BY <1>1, <2>1, CancelStep DEF Safe
    <2>2. CASE CancelNotFound(id)
        BY <1>1, <2>2, RefusedStep DEF CancelNotFound, Safe, Results
    <2>3. QED BY <1>3, <2>1, <2>2 DEF Cancel
<1>4. CASE UNCHANGED vars
    BY <1>1, <1>4 DEF vars, Inv, Known, Queue, Line, Sorted, Distinct, Placed, Parted, Fair
<1>5. QED BY <1>1, <1>2, <1>3, <1>4 DEF Next

LEMMA Invariant == Spec => []Inv
<1>1. QED BY InitInv, NextInv, PTL DEF Spec

\* The book, the tape and the identifiers keep their types for any orders (OrderBook).
THEOREM TypeCorrect == Spec => []TypeOK
<1>1. Inv => TypeOK
    BY InvImplies
<1>2. QED BY <1>1, Invariant, PTL

\* No call leaves a buyer who would pay what a seller asks (submit, is_crossed).
THEOREM BookIsNeverCrossed == Spec => []NeverCrossed
<1>1. Inv => NeverCrossed
    BY InvImplies
<1>2. QED BY <1>1, Invariant, PTL

\* Both sides stay in the order of price and arrival (rest, match_against_book, cancel).
THEOREM BookIsInOrder == Spec => []InPriceTimeOrder
<1>1. Inv => InPriceTimeOrder
    BY InvImplies
<1>2. QED BY <1>1, Invariant, PTL

\* Every trade on the tape is within the limits of both its orders (match_against_book).
THEOREM TradesAreWithinLimits == Spec => []LimitsAreRespected
<1>1. Inv => LimitsAreRespected
    BY InvImplies
<1>2. QED BY <1>1, Invariant, PTL

\* A call takes from an order only after it has emptied all those ahead (match_against_book).
THEOREM TheQueueIsServedInTurn == Spec => NobodyJumpsTheQueue
<1>1. Inv /\ [Next]_vars =>
        [result' \in {"Ok", "NoLiquidity"} =>
            ServedInTurn(bids, bids') /\ ServedInTurn(asks, asks')]_vars
    BY NextInv DEF Safe, Turn
<1>2. QED BY <1>1, Invariant, PTL DEF Spec, NobodyJumpsTheQueue

\* Every unit of an accepted order is in the book, on the tape or withdrawn, as long as no
\* market order was refused after it had been matched (submit, match_against_book, cancel).
THEOREM EveryUnit == Spec => []UnitsAccountedForUnlessRefused
<1>1. Init => UnitsAccountedForUnlessRefused
    BY DEF Init, UnitsAccountedForUnlessRefused, EveryUnitIsAccountedFor
<1>2. QED BY <1>1, Invariant, Accounts, PTL DEF Spec
==============================================================================
