--------------------------------- MODULE Sums ----------------------------------
(***************************************************************************)
(* Sums of a function over a finite set: what SumFunctionOnSet, which adds  *)
(* in an order of its own choice, comes to.  Balances, quantities and       *)
(* shares are such sums.                                                    *)
(*                                                                          *)
(* The sum is defined by a function on the subsets of the set that refers   *)
(* to itself.  Table says of a function that it satisfies that definition;  *)
(* there is one (TableExists) and it has the values of the sum (SumStep).   *)
(* Everything else follows by induction on the set, in the form of          *)
(* FiniteInduction: the sets with the property, all subsets of S.           *)
(***************************************************************************)
EXTENDS Integers, FiniteSets, Functions, FiniteSetTheorems, WellFoundedInduction, TLAPS

------------------------------------------------------------------------------
(* Induction *)

\* A set of natural numbers has a least member.
LEMMA Least ==
    ASSUME NEW T, T \subseteq Nat, T # {}
    PROVE  \E n \in T : \A m \in T : n <= m
<1>1. PICK R : R = {ss \in Nat \X Nat : ss[1] < ss[2]}
    OBVIOUS
<1>2. IsWellFoundedOn(R, Nat)
    BY <1>1, NatLessThanWellFounded DEF OpToRel
<1>3. PICK n \in T : \A m \in T : ~ (<<m, n>> \in R)
    BY <1>2, WFMin
<1>4. \A m \in T : n <= m
    <2>1. SUFFICES ASSUME NEW m \in T, m < n PROVE FALSE
        OBVIOUS
    <2>2. <<m, n>> \in R
        BY <1>1, <2>1
    <2>3. QED BY <1>3, <2>2
<1>5. QED BY <1>4

\* A set of natural numbers with a bound has a greatest one.
LEMMA Greatest ==
    ASSUME NEW n \in Nat, NEW T, T \subseteq 0 .. n, T # {}
    PROVE  \E m \in T : \A k \in T : m >= k
<1> DEFINE U == {k \in 0 .. n : n - k \in T}
<1>1. U \subseteq Nat /\ U # {}
    <2>1. PICK k \in T : TRUE
        OBVIOUS
    <2>2. k \in 0 .. n /\ n - k \in 0 .. n /\ n - (n - k) = k
        BY <2>1
    <2>3. n - k \in U
        BY <2>1, <2>2
    <2>4. \A x \in U : x \in Nat
        OBVIOUS
    <2> HIDE DEF U
    <2>5. QED BY <2>3, <2>4
<1>2. PICK u \in U : \A k \in U : u <= k
    <2> HIDE DEF U
    <2>1. QED BY <1>1, Least
<1>3. ASSUME NEW k \in T
      PROVE  n - u >= k
    <2>1. k \in 0 .. n /\ n - k \in 0 .. n /\ n - (n - k) = k
        OBVIOUS
    <2>2. n - k \in U
        BY <2>1
    <2>3. u <= n - k /\ u \in 0 .. n
        BY <1>2, <2>2
    <2>4. QED BY <2>1, <2>3
<1>4. QED BY <1>2, <1>3

\* Induction on the numbers: S is the set of those with the property.
LEMMA EveryNumber ==
    ASSUME NEW S, 0 \in S, \A n \in Nat : n \in S => n + 1 \in S
    PROVE  Nat \subseteq S
<1>1. SUFFICES ASSUME NEW T, T = Nat \ S, T # {} PROVE FALSE
    OBVIOUS
<1>2. PICK n \in T : \A m \in T : n <= m
    BY <1>1, Least
<1>3. n # 0 /\ n - 1 \in Nat /\ n - 1 \notin T
    BY <1>1, <1>2
<1>4. (n - 1) + 1 \in S
    BY <1>1, <1>3
<1>5. QED BY <1>1, <1>2, <1>3, <1>4

\* Induction on the subsets of a finite set: P is the set of those with the property.
LEMMA FiniteInduction ==
    ASSUME NEW S, IsFiniteSet(S), NEW P, {} \in P,
           \A T \in SUBSET S : \A x \in S \ T : T \in P => T \cup {x} \in P
    PROVE  S \in P
<1> DEFINE N == {n \in Nat : \A T \in SUBSET S : Cardinality(T) = n => T \in P}
<1>1. 0 \in N
    <2>1. ASSUME NEW T \in SUBSET S, Cardinality(T) = 0
          PROVE  T \in P
        BY <2>1, FS_Subset, FS_EmptySet
    <2>2. QED BY <2>1
<1>2. ASSUME NEW n \in Nat, n \in N
      PROVE  n + 1 \in N
    <2>1. ASSUME NEW T \in SUBSET S, Cardinality(T) = n + 1
          PROVE  T \in P
        <3>1. IsFiniteSet(T)
            BY FS_Subset
        <3>2. PICK x \in T : TRUE
            BY <2>1, <3>1, FS_EmptySet
        <3>3. Cardinality(T \ {x}) = n
            <4>1. Cardinality(T \ {x}) = Cardinality(T) - 1
                BY <3>1, <3>2, FS_RemoveElement
            <4>2. QED BY <2>1, <4>1
        <3>4. T \ {x} \in SUBSET S /\ x \in S \ (T \ {x}) /\ (T \ {x}) \cup {x} = T
            BY <3>2
        <3>5. T \ {x} \in P
            BY <1>2, <3>3, <3>4
        <3>6. (T \ {x}) \cup {x} \in P
            BY <3>4, <3>5
        <3>7. QED BY <3>4, <3>6
    <2>2. QED BY <1>2, <2>1
<1>3. Nat \subseteq N
    <2> HIDE DEF N
    <2>1. QED BY <1>1, <1>2, EveryNumber
<1>4. Cardinality(S) \in Nat
    BY FS_CardinalityType
<1>5. Cardinality(S) \in N
    BY <1>3, <1>4
<1>6. QED BY <1>5

------------------------------------------------------------------------------
(* The function behind the sum *)

Chosen(s) == CHOOSE x \in s : TRUE

Entry0(f, g, s) == IF s = {} THEN 0 ELSE f[Chosen(s)] + g[s \ {Chosen(s)}]

Table(f, S, g) == g = [s \in SUBSET S |-> Entry0(f, g, s)]

LEMMA SumIsTable ==
    ASSUME NEW f, NEW S
    PROVE  SumFunctionOnSet(f, S) = (CHOOSE g : Table(f, S, g))[S]
BY DEF SumFunctionOnSet, FoldFunctionOnSet, MapThenFoldSet, Table, Entry0, Chosen

LEMMA ChosenIsMember ==
    ASSUME NEW s, s # {}
    PROVE  Chosen(s) \in s
BY DEF Chosen

Small(S, n) == {s \in SUBSET S : Cardinality(s) <= n}

\* The values for the sets with n members are computed from those with fewer.
LEMMA TableExists ==
    ASSUME NEW S, IsFiniteSet(S), NEW f, \A x \in S : f[x] \in Int
    PROVE  \E g \in [SUBSET S -> Int] : Table(f, S, g)
<1> DEFINE Partial(n, g) == g \in [Small(S, n) -> Int] /\ \A s \in Small(S, n) : g[s] = Entry0(f, g, s)
           N == {n \in Nat : \E g : Partial(n, g)}
<1>1. \A s \in SUBSET S : IsFiniteSet(s) /\ Cardinality(s) \in Nat
    BY FS_Subset, FS_CardinalityType
<1>2. 0 \in N
    <2> DEFINE g == [s \in Small(S, 0) |-> 0]
    <2>1. \A s \in Small(S, 0) : s = {}
        BY <1>1, FS_EmptySet DEF Small
    <2>2. Partial(0, g)
        BY <2>1 DEF Entry0
    <2>3. QED BY <2>2
<1>3. ASSUME NEW n \in Nat, n \in N
      PROVE  n + 1 \in N
    <2>1. PICK g : Partial(n, g)
        BY <1>3
    <2> DEFINE h == [s \in Small(S, n + 1) |-> Entry0(f, g, s)]
    <2>2. ASSUME NEW s \in Small(S, n + 1), s # {}
          PROVE  Chosen(s) \in S /\ s \ {Chosen(s)} \in Small(S, n)
        <3>1. Chosen(s) \in s /\ s \in SUBSET S
            BY <2>2, ChosenIsMember DEF Small
        <3>2. Cardinality(s \ {Chosen(s)}) = Cardinality(s) - 1
            BY <1>1, <3>1, FS_RemoveElement
        <3>3. QED BY <1>1, <3>1, <3>2 DEF Small
    <2>3. ASSUME NEW s \in Small(S, n + 1)
          PROVE  h[s] \in Int
        <3>1. CASE s = {}
            BY <3>1 DEF Entry0
        <3>2. CASE s # {}
            <4>1. f[Chosen(s)] \in Int /\ g[s \ {Chosen(s)}] \in Int
                BY <2>1, <2>2, <3>2
            <4>2. QED BY <3>2, <4>1 DEF Entry0
        <3>3. QED BY <3>1, <3>2
    <2>4. \A s \in Small(S, n) : s \in Small(S, n + 1) /\ h[s] = g[s]
        <3>1. \A s \in Small(S, n) : s \in Small(S, n + 1)
            BY <1>1 DEF Small
        <3>2. QED BY <2>1, <3>1
    <2>5. ASSUME NEW s \in Small(S, n + 1)
          PROVE  h[s] = Entry0(f, h, s)
        <3>1. CASE s = {}
            BY <3>1 DEF Entry0
        <3>2. CASE s # {}
            <4>1. h[s \ {Chosen(s)}] = g[s \ {Chosen(s)}]
                BY <2>2, <2>4, <3>2
            <4> HIDE DEF h
            <4>2. Entry0(f, h, s) = Entry0(f, g, s)
                BY <3>2, <4>1 DEF Entry0
            <4>3. QED BY <4>2 DEF h
        <3>3. QED BY <3>1, <3>2
    <2>6. Partial(n + 1, h)
        <3>1. h \in [Small(S, n + 1) -> Int]
            BY <2>3
        <3> HIDE DEF h
        <3>2. QED BY <2>5, <3>1
    <2> HIDE DEF h, Partial
    <2>7. QED BY <2>6
<1>4. Nat \subseteq N
    <2> HIDE DEF N
    <2>1. QED BY <1>2, <1>3, EveryNumber
<1>5. PICK g : Partial(Cardinality(S), g)
    <2>1. Cardinality(S) \in N
        BY <1>1, <1>4
    <2>2. QED BY <2>1
<1>6. Small(S, Cardinality(S)) = SUBSET S
    BY FS_Subset, <1>1 DEF Small
<1>7. QED BY <1>5, <1>6 DEF Table

\* Two such functions agree on what both are defined for, if the summands do.
LEMMA TablesAgree ==
    ASSUME NEW s, IsFiniteSet(s), NEW f, NEW g, NEW S, Table(f, S, g), s \subseteq S,
           NEW f2, NEW g2, NEW S2, Table(f2, S2, g2), s \subseteq S2,
           \A x \in s : f[x] = f2[x]
    PROVE  g[s] = g2[s]
<1> DEFINE N == {n \in Nat : \A t \in SUBSET s : Cardinality(t) = n => g[t] = g2[t]}
<1>1. \A t \in SUBSET s : IsFiniteSet(t) /\ Cardinality(t) \in Nat
    BY FS_Subset, FS_CardinalityType
<1>2. \A t \in SUBSET s : g[t] = Entry0(f, g, t) /\ g2[t] = Entry0(f2, g2, t)
    BY DEF Table
<1>3. 0 \in N
    BY <1>1, <1>2, FS_EmptySet DEF Entry0
<1>4. ASSUME NEW n \in Nat, n \in N
      PROVE  n + 1 \in N
    <2>1. ASSUME NEW t \in SUBSET s, Cardinality(t) = n + 1
          PROVE  g[t] = g2[t]
        <3>1. t # {}
            BY <1>1, <2>1, FS_EmptySet
        <3>2. Chosen(t) \in t /\ t \ {Chosen(t)} \in SUBSET s
            BY <3>1, ChosenIsMember
        <3>3. Cardinality(t \ {Chosen(t)}) = n
            <4>1. Cardinality(t \ {Chosen(t)}) = Cardinality(t) - 1
                BY <1>1, <3>2, FS_RemoveElement
            <4>2. QED BY <2>1, <4>1
        <3>4. g[t \ {Chosen(t)}] = g2[t \ {Chosen(t)}]
            BY <1>4, <3>2, <3>3
        <3>5. QED BY <1>2, <3>1, <3>2, <3>4 DEF Entry0
    <2>2. QED BY <2>1
<1>5. Nat \subseteq N
    <2> HIDE DEF N
    <2>1. QED BY <1>3, <1>4, EveryNumber
<1>6. Cardinality(s) \in N
    BY <1>1, <1>5
<1>7. QED BY <1>6

\* The sum is what any such function says.
LEMMA SumByTable ==
    ASSUME NEW S, IsFiniteSet(S), NEW f, \A x \in S : f[x] \in Int,
           NEW g, Table(f, S, g)
    PROVE  \A s \in SUBSET S : SumFunctionOnSet(f, s) = g[s]
<1> TAKE s \in SUBSET S
<1>1. IsFiniteSet(s)
    BY FS_Subset
<1>2. \E h : Table(f, s, h)
    BY <1>1, TableExists
<1>3. Table(f, s, CHOOSE h : Table(f, s, h))
    BY <1>2
<1>4. QED BY <1>1, <1>3, SumIsTable, TablesAgree

------------------------------------------------------------------------------
(* Laws of sums *)

\* Nothing adds up to zero.
LEMMA SumEmpty ==
    ASSUME NEW f
    PROVE  SumFunctionOnSet(f, {}) = 0
<1>1. IsFiniteSet({}) /\ \A x \in {} : f[x] \in Int
    BY FS_EmptySet
<1>2. PICK g \in [SUBSET {} -> Int] : Table(f, {}, g)
    BY <1>1, TableExists
<1>3. SumFunctionOnSet(f, {}) = g[{}]
    BY <1>1, <1>2, SumByTable
<1>4. QED BY <1>2, <1>3 DEF Table, Entry0

\* The sum is an integer, and its first summand can be taken out.
LEMMA SumStep ==
    ASSUME NEW S, IsFiniteSet(S), NEW f, \A x \in S : f[x] \in Int
    PROVE  /\ SumFunctionOnSet(f, S) \in Int
           /\ S # {} => SumFunctionOnSet(f, S) = f[Chosen(S)] + SumFunctionOnSet(f, S \ {Chosen(S)})
<1>1. PICK g \in [SUBSET S -> Int] : Table(f, S, g)
    BY TableExists
<1>2. \A s \in SUBSET S : SumFunctionOnSet(f, s) = g[s]
    BY <1>1, SumByTable
<1>3. g[S] = Entry0(f, g, S)
    BY <1>1 DEF Table
<1>4. S \in SUBSET S /\ S \ {Chosen(S)} \in SUBSET S
    OBVIOUS
<1>5. SumFunctionOnSet(f, S) = g[S] /\ SumFunctionOnSet(f, S \ {Chosen(S)}) = g[S \ {Chosen(S)}]
    BY <1>2, <1>4
<1>6. QED BY <1>3, <1>4, <1>5 DEF Entry0

\* A sum of integers is an integer.
LEMMA SumType ==
    ASSUME NEW S, IsFiniteSet(S), NEW f, \A x \in S : f[x] \in Int
    PROVE  SumFunctionOnSet(f, S) \in Int
BY SumStep

\* Only the values on the set count.
LEMMA SumSame ==
    ASSUME NEW S, IsFiniteSet(S), NEW f, \A x \in S : f[x] \in Int,
           NEW h, \A x \in S : h[x] = f[x]
    PROVE  SumFunctionOnSet(h, S) = SumFunctionOnSet(f, S)
<1>1. \A x \in S : h[x] \in Int
    OBVIOUS
<1>2. PICK g : Table(f, S, g)
    BY TableExists
<1>3. PICK k : Table(h, S, k)
    BY <1>1, TableExists
<1>4. g[S] = k[S]
    BY <1>2, <1>3, TablesAgree
<1>5. SumFunctionOnSet(f, S) = g[S]
    BY <1>2, SumByTable
<1>6. SumFunctionOnSet(h, S) = k[S]
    BY <1>1, <1>3, SumByTable
<1>7. QED BY <1>4, <1>5, <1>6

\* Any summand can be taken out: the order in which the sum is made does not matter.
LEMMA SumRemove ==
    ASSUME NEW S, IsFiniteSet(S), NEW f, \A x \in S : f[x] \in Int, NEW x \in S
    PROVE  SumFunctionOnSet(f, S) = f[x] + SumFunctionOnSet(f, S \ {x})
<1> DEFINE Total(t) == SumFunctionOnSet(f, t)
           N == {n \in Nat : \A t \in SUBSET S : Cardinality(t) = n =>
                    \A y \in t : Total(t) = f[y] + Total(t \ {y})}
<1>1. \A t \in SUBSET S : IsFiniteSet(t) /\ Cardinality(t) \in Nat
    BY FS_Subset, FS_CardinalityType
<1>2. \A t \in SUBSET S : Total(t) \in Int /\ (t # {} => Total(t) = f[Chosen(t)] + Total(t \ {Chosen(t)}))
    BY <1>1, SumStep
<1> HIDE DEF Total
<1>3. 0 \in N
    BY <1>1, FS_EmptySet
<1>4. ASSUME NEW n \in Nat, n \in N
      PROVE  n + 1 \in N
    <2>1. ASSUME NEW t \in SUBSET S, Cardinality(t) = n + 1, NEW y \in t
          PROVE  Total(t) = f[y] + Total(t \ {y})
        <3> DEFINE c == Chosen(t)
        <3>1. c \in t
            BY ChosenIsMember
        <3> HIDE DEF c
        <3>2. Total(t) = f[c] + Total(t \ {c})
            BY <1>2, <3>1 DEF c
        <3>3. CASE y = c
            BY <3>2, <3>3
        <3>4. CASE y # c
            <4>1. Cardinality(t \ {c}) = n /\ Cardinality(t \ {y}) = n
                <5>1. Cardinality(t \ {c}) = Cardinality(t) - 1
                    BY <1>1, <3>1, FS_RemoveElement
                <5>2. Cardinality(t \ {y}) = Cardinality(t) - 1
                    BY <1>1, FS_RemoveElement
                <5>3. QED BY <2>1, <5>1, <5>2
            <4>2. t \ {c} \in SUBSET S /\ y \in t \ {c} /\ t \ {y} \in SUBSET S /\ c \in t \ {y}
                BY <3>1, <3>4
            <4>3. Total(t \ {c}) = f[y] + Total((t \ {c}) \ {y})
                BY <1>4, <4>1, <4>2
            <4>4. Total(t \ {y}) = f[c] + Total((t \ {y}) \ {c})
                BY <1>4, <4>1, <4>2
            <4>5. (t \ {c}) \ {y} = (t \ {y}) \ {c}
                OBVIOUS
            <4>6. PICK rest \in Int : rest = Total((t \ {y}) \ {c})
                BY <1>2
            <4>7. Total(t \ {c}) = f[y] + rest
                BY <4>3, <4>5, <4>6
            <4>8. Total(t \ {y}) = f[c] + rest
                BY <4>4, <4>6
            <4>9. f[c] \in Int /\ f[y] \in Int
                BY <3>1
            <4>10. Total(t) = f[c] + (f[y] + rest)
                BY <3>2, <4>7
            <4>11. f[y] + Total(t \ {y}) = f[y] + (f[c] + rest)
                BY <4>8
            <4>12. QED BY <4>6, <4>9, <4>10, <4>11
        <3>5. QED BY <3>3, <3>4
    <2>2. QED BY <1>4, <2>1
<1>5. Nat \subseteq N
    <2> HIDE DEF N
    <2>1. QED BY <1>3, <1>4, EveryNumber
<1>6. Cardinality(S) \in N
    BY <1>1, <1>5
<1>7. QED BY <1>6 DEF Total

\* A summand can be added.
LEMMA SumAdd ==
    ASSUME NEW S, IsFiniteSet(S), NEW f, \A x \in S : f[x] \in Int, NEW x, x \notin S, f[x] \in Int
    PROVE  SumFunctionOnSet(f, S \cup {x}) = f[x] + SumFunctionOnSet(f, S)
<1>1. IsFiniteSet(S \cup {x}) /\ \A y \in S \cup {x} : f[y] \in Int
    BY FS_AddElement
<1>2. SumFunctionOnSet(f, S \cup {x}) = f[x] + SumFunctionOnSet(f, (S \cup {x}) \ {x})
    BY <1>1, SumRemove
<1>3. (S \cup {x}) \ {x} = S
    OBVIOUS
<1>4. QED BY <1>2, <1>3

\* The sum of the sums.
LEMMA SumPlus ==
    ASSUME NEW S, IsFiniteSet(S), NEW f, \A x \in S : f[x] \in Int,
           NEW g, \A x \in S : g[x] \in Int,
           NEW h, \A x \in S : h[x] = f[x] + g[x]
    PROVE  SumFunctionOnSet(h, S) = SumFunctionOnSet(f, S) + SumFunctionOnSet(g, S)
<1> DEFINE P == {T \in SUBSET S : SumFunctionOnSet(h, T) = SumFunctionOnSet(f, T) + SumFunctionOnSet(g, T)}
<1>1. {} \in P
    BY SumEmpty
<1>2. ASSUME NEW T \in SUBSET S, NEW x \in S \ T, T \in P
      PROVE  T \cup {x} \in P
    <2>1. IsFiniteSet(T) /\ x \notin T
        BY FS_Subset
    <2>2. /\ \A y \in T : f[y] \in Int /\ g[y] \in Int /\ h[y] \in Int
          /\ f[x] \in Int /\ g[x] \in Int /\ h[x] \in Int
        OBVIOUS
    <2>3. SumFunctionOnSet(f, T) \in Int /\ SumFunctionOnSet(g, T) \in Int
        BY <2>1, <2>2, SumType
    <2>4. SumFunctionOnSet(f, T \cup {x}) = f[x] + SumFunctionOnSet(f, T)
        BY <2>1, <2>2, SumAdd
    <2>5. SumFunctionOnSet(g, T \cup {x}) = g[x] + SumFunctionOnSet(g, T)
        BY <2>1, <2>2, SumAdd
    <2>6. SumFunctionOnSet(h, T \cup {x}) = h[x] + SumFunctionOnSet(h, T)
        BY <2>1, <2>2, SumAdd
    <2>7. h[x] = f[x] + g[x] /\ SumFunctionOnSet(h, T) = SumFunctionOnSet(f, T) + SumFunctionOnSet(g, T)
        BY <1>2
    <2>8. SumFunctionOnSet(h, T \cup {x}) = SumFunctionOnSet(f, T \cup {x}) + SumFunctionOnSet(g, T \cup {x})
        BY <2>2, <2>3, <2>4, <2>5, <2>6, <2>7
    <2>9. QED BY <2>8
<1>3. S \in P
    <2> HIDE DEF P
    <2>1. QED BY <1>1, <1>2, FiniteInduction
<1>4. QED BY <1>3

\* A sum of zeros.
LEMMA SumZero ==
    ASSUME NEW S, IsFiniteSet(S), NEW f, \A x \in S : f[x] = 0
    PROVE  SumFunctionOnSet(f, S) = 0
<1> DEFINE P == {T \in SUBSET S : SumFunctionOnSet(f, T) = 0}
<1>1. {} \in P
    BY SumEmpty
<1>2. ASSUME NEW T \in SUBSET S, NEW x \in S \ T, T \in P
      PROVE  T \cup {x} \in P
    <2>1. IsFiniteSet(T) /\ \A y \in T : f[y] \in Int
        BY FS_Subset
    <2>2. SumFunctionOnSet(f, T \cup {x}) = f[x] + SumFunctionOnSet(f, T)
        BY <2>1, SumAdd
    <2>3. QED BY <1>2, <2>2
<1>3. S \in P
    <2> HIDE DEF P
    <2>1. QED BY <1>1, <1>2, FiniteInduction
<1>4. QED BY <1>3

\* Larger summands, larger sum.
LEMMA SumMonotone ==
    ASSUME NEW S, IsFiniteSet(S), NEW f, \A x \in S : f[x] \in Int,
           NEW g, \A x \in S : g[x] \in Int, \A x \in S : f[x] <= g[x]
    PROVE  SumFunctionOnSet(f, S) <= SumFunctionOnSet(g, S)
<1> DEFINE P == {T \in SUBSET S : SumFunctionOnSet(f, T) <= SumFunctionOnSet(g, T)}
<1>1. {} \in P
    BY SumEmpty
<1>2. ASSUME NEW T \in SUBSET S, NEW x \in S \ T, T \in P
      PROVE  T \cup {x} \in P
    <2>1. IsFiniteSet(T) /\ x \notin T
        BY FS_Subset
    <2>2. /\ \A y \in T : f[y] \in Int /\ g[y] \in Int
          /\ f[x] \in Int /\ g[x] \in Int /\ f[x] <= g[x]
        OBVIOUS
    <2>3. SumFunctionOnSet(f, T) \in Int /\ SumFunctionOnSet(g, T) \in Int
        BY <2>1, <2>2, SumType
    <2>4. SumFunctionOnSet(f, T \cup {x}) = f[x] + SumFunctionOnSet(f, T)
        BY <2>1, <2>2, SumAdd
    <2>5. SumFunctionOnSet(g, T \cup {x}) = g[x] + SumFunctionOnSet(g, T)
        BY <2>1, <2>2, SumAdd
    <2>6. SumFunctionOnSet(f, T) <= SumFunctionOnSet(g, T)
        BY <1>2
    <2>7. SumFunctionOnSet(f, T \cup {x}) <= SumFunctionOnSet(g, T \cup {x})
        BY <2>2, <2>3, <2>4, <2>5, <2>6
    <2>8. QED BY <2>7
<1>3. S \in P
    <2> HIDE DEF P
    <2>1. QED BY <1>1, <1>2, FiniteInduction
<1>4. QED BY <1>3

\* Summands of which none is larger, but whose sum is not smaller, are equal.
LEMMA SumTight ==
    ASSUME NEW S, IsFiniteSet(S), NEW f, \A x \in S : f[x] \in Int,
           NEW g, \A x \in S : g[x] \in Int, \A x \in S : f[x] <= g[x],
           SumFunctionOnSet(g, S) <= SumFunctionOnSet(f, S)
    PROVE  \A x \in S : f[x] = g[x]
<1> TAKE x \in S
<1> DEFINE T == S \ {x}
<1>1. IsFiniteSet(T) /\ \A y \in T : f[y] \in Int /\ g[y] \in Int /\ f[y] <= g[y]
    BY FS_RemoveElement
<1>2. SumFunctionOnSet(f, S) = f[x] + SumFunctionOnSet(f, T)
    BY SumRemove
<1>3. SumFunctionOnSet(g, S) = g[x] + SumFunctionOnSet(g, T)
    BY SumRemove
<1> HIDE DEF T
<1>4. SumFunctionOnSet(f, T) <= SumFunctionOnSet(g, T)
    BY <1>1, SumMonotone
<1>5. SumFunctionOnSet(f, T) \in Int /\ SumFunctionOnSet(g, T) \in Int
    BY <1>1, SumType
<1>6. f[x] \in Int /\ g[x] \in Int /\ f[x] <= g[x]
    OBVIOUS
<1>7. QED BY <1>2, <1>3, <1>4, <1>5, <1>6

\* One summand changes.
LEMMA SumReplace ==
    ASSUME NEW S, IsFiniteSet(S), NEW f, \A x \in S : f[x] \in Int, NEW x \in S,
           NEW h, h[x] \in Int, \A y \in S \ {x} : h[y] = f[y]
    PROVE  SumFunctionOnSet(h, S) = SumFunctionOnSet(f, S) - f[x] + h[x]
<1>1. IsFiniteSet(S \ {x}) /\ \A y \in S \ {x} : f[y] \in Int
    BY FS_RemoveElement
<1>2. SumFunctionOnSet(f, S) = f[x] + SumFunctionOnSet(f, S \ {x})
    BY SumRemove
<1>3. \A y \in S : h[y] \in Int
    OBVIOUS
<1>4. SumFunctionOnSet(h, S) = h[x] + SumFunctionOnSet(h, S \ {x})
    BY <1>3, SumRemove
<1>5. SumFunctionOnSet(h, S \ {x}) = SumFunctionOnSet(f, S \ {x}) /\ SumFunctionOnSet(f, S \ {x}) \in Int
    BY <1>1, SumSame, SumType
<1>6. f[x] \in Int
    OBVIOUS
<1>7. QED BY <1>2, <1>4, <1>5, <1>6

\* One summand.
LEMMA SumSingle ==
    ASSUME NEW f, NEW x, f[x] \in Int
    PROVE  SumFunctionOnSet(f, {x}) = f[x]
<1>1. IsFiniteSet({}) /\ \A y \in {} : f[y] \in Int
    BY FS_EmptySet
<1>2. SumFunctionOnSet(f, {} \cup {x}) = f[x] + SumFunctionOnSet(f, {})
    BY <1>1, SumAdd
<1>3. {} \cup {x} = {x}
    OBVIOUS
<1>4. QED BY <1>2, <1>3, SumEmpty

\* What two sets without a common member come to.
LEMMA SumUnion ==
    ASSUME NEW S, IsFiniteSet(S), NEW T, IsFiniteSet(T), S \cap T = {},
           NEW f, \A x \in S \cup T : f[x] \in Int
    PROVE  SumFunctionOnSet(f, S \cup T) = SumFunctionOnSet(f, S) + SumFunctionOnSet(f, T)
<1> DEFINE P == {U \in SUBSET T : SumFunctionOnSet(f, S \cup U) = SumFunctionOnSet(f, S) + SumFunctionOnSet(f, U)}
<1>1. {} \in P
    <2>1. S \cup {} = S
        OBVIOUS
    <2>2. SumFunctionOnSet(f, S) \in Int
        BY SumType
    <2>3. QED BY <2>1, <2>2, SumEmpty
<1>2. ASSUME NEW U \in SUBSET T, NEW x \in T \ U, U \in P
      PROVE  U \cup {x} \in P
    <2>1. IsFiniteSet(U) /\ IsFiniteSet(S \cup U) /\ x \notin S \cup U /\ f[x] \in Int
        BY FS_Subset, FS_Union
    <2>2. \A y \in S \cup U : f[y] \in Int
        OBVIOUS
    <2>3. SumFunctionOnSet(f, (S \cup U) \cup {x}) = f[x] + SumFunctionOnSet(f, S \cup U)
        BY <2>1, <2>2, SumAdd
    <2>4. SumFunctionOnSet(f, U \cup {x}) = f[x] + SumFunctionOnSet(f, U)
        BY <2>1, <2>2, SumAdd
    <2>5. (S \cup U) \cup {x} = S \cup (U \cup {x})
        OBVIOUS
    <2>6. SumFunctionOnSet(f, S \cup (U \cup {x})) = f[x] + (SumFunctionOnSet(f, S) + SumFunctionOnSet(f, U))
        BY <1>2, <2>3, <2>5
    <2>7. SumFunctionOnSet(f, S) \in Int /\ SumFunctionOnSet(f, U) \in Int
        BY <2>1, SumType
    <2>8. SumFunctionOnSet(f, S \cup (U \cup {x})) = SumFunctionOnSet(f, S) + SumFunctionOnSet(f, U \cup {x})
        BY <2>1, <2>4, <2>6, <2>7
    <2>9. U \cup {x} \in SUBSET T
        OBVIOUS
    <2> HIDE DEF P
    <2>10. QED BY <2>8, <2>9 DEF P
<1>3. T \in P
    <2> HIDE DEF P
    <2>1. QED BY <1>1, <1>2, FiniteInduction
<1>4. QED BY <1>3

\* The same summands under other names.
LEMMA SumImage ==
    ASSUME NEW S, IsFiniteSet(S), NEW f, \A x \in S : f[x] \in Int,
           NEW name, \A x, y \in S : name[x] = name[y] => x = y,
           NEW h, \A x \in S : h[name[x]] = f[x]
    PROVE  SumFunctionOnSet(h, {name[x] : x \in S}) = SumFunctionOnSet(f, S)
<1> DEFINE P == {T \in SUBSET S : /\ IsFiniteSet({name[x] : x \in T})
                                  /\ SumFunctionOnSet(h, {name[x] : x \in T}) = SumFunctionOnSet(f, T)}
<1>1. {} \in P
    <2>1. {name[x] : x \in {}} = {}
        OBVIOUS
    <2>2. QED BY <2>1, SumEmpty, FS_EmptySet
<1>2. ASSUME NEW T \in SUBSET S, NEW x \in S \ T, T \in P
      PROVE  T \cup {x} \in P
    <2> DEFINE names == {name[y] : y \in T}
    <2>1. IsFiniteSet(T) /\ x \notin T /\ f[x] \in Int /\ \A y \in T : f[y] \in Int
        BY FS_Subset
    <2>2. IsFiniteSet(names) /\ SumFunctionOnSet(h, names) = SumFunctionOnSet(f, T)
        BY <1>2
    <2>3. {name[y] : y \in T \cup {x}} = names \cup {name[x]}
        OBVIOUS
    <2>4. name[x] \notin names
        OBVIOUS
    <2>5. (\A n \in names : h[n] \in Int) /\ h[name[x]] = f[x]
        OBVIOUS
    <2> HIDE DEF names
    <2>6. SumFunctionOnSet(h, names \cup {name[x]}) = h[name[x]] + SumFunctionOnSet(h, names)
        BY <2>1, <2>2, <2>4, <2>5, SumAdd
    <2>7. SumFunctionOnSet(f, T \cup {x}) = f[x] + SumFunctionOnSet(f, T)
        BY <2>1, SumAdd
    <2>8. IsFiniteSet(names \cup {name[x]})
        BY <2>2, FS_AddElement
    <2>9. QED BY <2>2, <2>3, <2>5, <2>6, <2>7, <2>8
<1>3. S \in P
    <2> HIDE DEF P
    <2>1. QED BY <1>1, <1>2, FiniteInduction
<1>4. QED BY <1>3

\* What is zero outside a part of the set adds nothing.
LEMMA SumSupport ==
    ASSUME NEW S, IsFiniteSet(S), NEW T, T \subseteq S, NEW f, \A x \in T : f[x] \in Int,
           NEW h, \A x \in T : h[x] = f[x], \A x \in S \ T : h[x] = 0
    PROVE  SumFunctionOnSet(h, S) = SumFunctionOnSet(f, T)
<1>1. IsFiniteSet(T) /\ IsFiniteSet(S \ T) /\ T \cap (S \ T) = {} /\ T \cup (S \ T) = S
    BY FS_Subset
<1>2. \A x \in T \cup (S \ T) : h[x] \in Int
    OBVIOUS
<1>3. PICK U : U = S \ T
    OBVIOUS
<1>4. SumFunctionOnSet(h, T \cup U) = SumFunctionOnSet(h, T) + SumFunctionOnSet(h, U)
    BY <1>1, <1>2, <1>3, SumUnion
<1>5. SumFunctionOnSet(h, T) = SumFunctionOnSet(f, T)
    BY <1>1, SumSame
<1>6. SumFunctionOnSet(h, U) = 0
    BY <1>1, <1>3, SumZero
<1>7. SumFunctionOnSet(f, T) \in Int
    BY <1>1, SumType
<1>8. T \cup U = S
    BY <1>3
<1>9. SumFunctionOnSet(h, S) = SumFunctionOnSet(h, T) + SumFunctionOnSet(h, U)
    BY <1>4, <1>8
<1>10. QED BY <1>5, <1>6, <1>7, <1>9

\* The sum of multiples is the multiple of the sum.
LEMMA SumScale ==
    ASSUME NEW S, IsFiniteSet(S), NEW f, \A x \in S : f[x] \in Int, NEW m \in Int,
           NEW h, \A x \in S : h[x] = m * f[x]
    PROVE  SumFunctionOnSet(h, S) = m * SumFunctionOnSet(f, S)
<1> DEFINE P == {T \in SUBSET S : SumFunctionOnSet(h, T) = m * SumFunctionOnSet(f, T)}
<1>1. {} \in P
    <2>1. SumFunctionOnSet(h, {}) = 0 /\ SumFunctionOnSet(f, {}) = 0
        BY SumEmpty
    <2>2. QED BY <2>1
<1>2. ASSUME NEW T \in SUBSET S, NEW x \in S \ T, T \in P
      PROVE  T \cup {x} \in P
    <2>1. /\ IsFiniteSet(T) /\ x \notin T
          /\ (\A y \in T : f[y] \in Int) /\ f[x] \in Int
          /\ (\A y \in T : h[y] \in Int) /\ h[x] \in Int /\ h[x] = m * f[x]
        BY FS_Subset
    <2>2. SumFunctionOnSet(f, T \cup {x}) = f[x] + SumFunctionOnSet(f, T)
        BY <2>1, SumAdd
    <2>3. SumFunctionOnSet(h, T \cup {x}) = h[x] + SumFunctionOnSet(h, T)
        BY <2>1, SumAdd
    <2>4. PICK a \in Int, b \in Int : a = f[x] /\ b = SumFunctionOnSet(f, T)
        BY <2>1, SumType
    <2>5. SumFunctionOnSet(h, T) = m * b
        BY <1>2, <2>4
    <2>6. SumFunctionOnSet(h, T \cup {x}) = m * (a + b)
        BY <2>1, <2>3, <2>4, <2>5
    <2>7. SumFunctionOnSet(h, T \cup {x}) = m * SumFunctionOnSet(f, T \cup {x})
        BY <2>2, <2>4, <2>6
    <2>8. QED BY <2>7
<1>3. S \in P
    <2> HIDE DEF P
    <2>1. QED BY <1>1, <1>2, FiniteInduction
<1>4. QED BY <1>3

\* The same for each comes to that many times it.
LEMMA SumConstant ==
    ASSUME NEW S, IsFiniteSet(S), NEW n \in Int, NEW f, \A x \in S : f[x] = n
    PROVE  SumFunctionOnSet(f, S) = n * Cardinality(S)
<1> DEFINE P == {T \in SUBSET S : SumFunctionOnSet(f, T) = n * Cardinality(T)}
<1>1. {} \in P
    <2>1. SumFunctionOnSet(f, {}) = 0 /\ Cardinality({}) = 0
        BY SumEmpty, FS_EmptySet
    <2>2. QED BY <2>1
<1>2. ASSUME NEW T \in SUBSET S, NEW x \in S \ T, T \in P
      PROVE  T \cup {x} \in P
    <2>1. /\ IsFiniteSet(T) /\ x \notin T
          /\ (\A y \in T : f[y] \in Int) /\ f[x] \in Int /\ f[x] = n
        BY FS_Subset
    <2>2. SumFunctionOnSet(f, T \cup {x}) = f[x] + SumFunctionOnSet(f, T)
        BY <2>1, SumAdd
    <2>3. Cardinality(T) \in Nat
        BY <2>1, FS_CardinalityType
    <2>4. Cardinality(T \cup {x}) = Cardinality(T) + 1
        BY <2>1, FS_AddElement
    <2>5. PICK c \in Nat : c = Cardinality(T)
        BY <2>3
    <2>6. SumFunctionOnSet(f, T) = n * c
        BY <1>2, <2>5
    <2>7. n * (c + 1) = n + n * c
        OBVIOUS
    <2>8. SumFunctionOnSet(f, T \cup {x}) = n * Cardinality(T \cup {x})
        BY <2>1, <2>2, <2>4, <2>5, <2>6, <2>7
    <2>9. QED BY <2>8
<1>3. S \in P
    <2> HIDE DEF P
    <2>1. QED BY <1>1, <1>2, FiniteInduction
<1>4. QED BY <1>3

\* The image of a finite set is finite.
LEMMA ImageFinite ==
    ASSUME NEW S, IsFiniteSet(S), NEW name
    PROVE  IsFiniteSet({name[x] : x \in S})
<1> DEFINE P == {T \in SUBSET S : IsFiniteSet({name[x] : x \in T})}
<1>1. {} \in P
    <2>1. {name[x] : x \in {}} = {}
        OBVIOUS
    <2>2. QED BY <2>1, FS_EmptySet
<1>2. ASSUME NEW T \in SUBSET S, NEW x \in S \ T, T \in P
      PROVE  T \cup {x} \in P
    <2>1. {name[y] : y \in T \cup {x}} = {name[y] : y \in T} \cup {name[x]}
        OBVIOUS
    <2>2. PICK U : U = {name[y] : y \in T}
        OBVIOUS
    <2>3. IsFiniteSet(U \cup {name[x]})
        <3>1. IsFiniteSet(U)
            BY <1>2, <2>2
        <3> HIDE DEF P
        <3>2. QED BY <3>1, FS_AddElement
    <2>4. IsFiniteSet({name[y] : y \in T \cup {x}})
        BY <2>1, <2>2, <2>3
    <2>5. QED BY <2>4
<1>3. S \in P
    <2> HIDE DEF P
    <2>1. QED BY <1>1, <1>2, FiniteInduction
<1>4. QED BY <1>3

\* The members of S with a key.
Class(S, key, k) == {x \in S : key[x] = k}

\* What is added up for each key is what is added up for all.
LEMMA SumByKey ==
    ASSUME NEW S, IsFiniteSet(S), NEW f, \A x \in S : f[x] \in Int,
           NEW K, IsFiniteSet(K), NEW key, \A x \in S : key[x] \in K,
           NEW h, \A k \in K : h[k] = SumFunctionOnSet(f, Class(S, key, k))
    PROVE  SumFunctionOnSet(h, K) = SumFunctionOnSet(f, S)
<1> DEFINE P == {T \in SUBSET K : SumFunctionOnSet(h, T) = SumFunctionOnSet(f, {x \in S : key[x] \in T})}
<1>1. {} \in P
    <2>1. {x \in S : key[x] \in {}} = {}
        OBVIOUS
    <2>2. QED BY <2>1, SumEmpty
<1>2. ASSUME NEW T \in SUBSET K, NEW k \in K \ T, T \in P
      PROVE  T \cup {k} \in P
    <2> DEFINE A == {x \in S : key[x] \in T}
               B == Class(S, key, k)
    <2>1. IsFiniteSet(T) /\ IsFiniteSet(A) /\ IsFiniteSet(B) /\ A \cap B = {}
          /\ \A x \in A \cup B : f[x] \in Int
        BY FS_Subset DEF Class
    <2>2. {x \in S : key[x] \in T \cup {k}} = A \cup B
        BY DEF Class
    <2>3. SumFunctionOnSet(f, A \cup B) = SumFunctionOnSet(f, A) + SumFunctionOnSet(f, B)
        <3> HIDE DEF A, B
        <3>1. QED BY <2>1, SumUnion
    <2>4. SumFunctionOnSet(f, B) \in Int /\ SumFunctionOnSet(f, A) \in Int
        <3>1. (\A x \in A : f[x] \in Int) /\ \A x \in B : f[x] \in Int
            BY <2>1
        <3> HIDE DEF A, B
        <3>2. QED BY <2>1, <3>1, SumType
    <2>5. \A l \in K : h[l] \in Int
        <3>1. ASSUME NEW l \in K PROVE h[l] \in Int
            <4>1. IsFiniteSet(Class(S, key, l)) /\ \A x \in Class(S, key, l) : f[x] \in Int
                BY FS_Subset DEF Class
            <4>2. QED BY <4>1, SumType
        <3>2. QED BY <3>1
    <2>6. (\A l \in T : h[l] \in Int) /\ h[k] \in Int /\ k \notin T
        BY <2>5
    <2>7. SumFunctionOnSet(h, T \cup {k}) = h[k] + SumFunctionOnSet(h, T)
        <3> HIDE DEF A, B, P
        <3>1. QED BY <2>1, <2>6, SumAdd
    <2>8. SumFunctionOnSet(h, T) = SumFunctionOnSet(f, A) /\ h[k] = SumFunctionOnSet(f, B)
        BY <1>2
    <2> HIDE DEF A, B
    <2>9. SumFunctionOnSet(h, T \cup {k}) = SumFunctionOnSet(f, A \cup B)
        BY <2>3, <2>4, <2>7, <2>8
    <2>10. T \cup {k} \in SUBSET K
        BY <1>2
    <2>11. QED BY <2>2, <2>9, <2>10
<1>3. K \in P
    <2> HIDE DEF P
    <2>1. QED BY <1>1, <1>2, FiniteInduction
<1>4. {x \in S : key[x] \in K} = S
    OBVIOUS
<1>5. QED BY <1>3, <1>4

------------------------------------------------------------------------------
(* Products and quotients *)

LEMMA TimesMonotone ==
    ASSUME NEW a \in Int, NEW b \in Int, NEW c \in Int, a <= b, 0 <= c
    PROVE  c * a <= c * b
OBVIOUS

LEMMA TimesCancels ==
    ASSUME NEW a \in Int, NEW b \in Int, NEW c \in Int, 0 < c, c * a <= c * b
    PROVE  a <= b
<1>1. SUFFICES ASSUME a >= b + 1 PROVE FALSE
    OBVIOUS
<1>2. c * (b + 1) <= c * a
    BY <1>1, TimesMonotone
<1>3. c * (b + 1) = c * b + c
    OBVIOUS
<1>4. c * a \in Int /\ c * b \in Int
    OBVIOUS
<1>5. QED BY <1>2, <1>3, <1>4

LEMMA TimesReorders ==
    ASSUME NEW a \in Int, NEW b \in Int, NEW c \in Int
    PROVE  /\ a * b \in Int /\ a * b = b * a
           /\ a * (b * c) = (a * b) * c
           /\ a * (b + c) = a * b + a * c
           /\ a * (b - c) = a * b - a * c
OBVIOUS

\* g is the whole part of x / t, or one more; r is what the division leaves.
IsRounded(g, s, r, x, t) ==
    /\ t \in Int /\ s \in Int /\ r \in Int /\ g \in Int /\ x \in Int
    /\ x = t * s + r /\ 0 <= r /\ r <= t - 1
    /\ g = s \/ g = s + 1

IsWithinOne(g, x, t) == (g - 1) * t <= x /\ (g + 1) * t >= x

\* Then it is within one unit of the exact quotient.
LEMMA WithinOne ==
    ASSUME NEW t, NEW s, NEW r, NEW g, NEW x, IsRounded(g, s, r, x, t)
    PROVE  IsWithinOne(g, x, t)
<1>0. /\ t \in Int /\ s \in Int /\ r \in Int /\ g \in Int /\ x \in Int
      /\ x = t * s + r /\ 0 <= r /\ r <= t - 1
      /\ g = s \/ g = s + 1
    BY DEF IsRounded
<1>1. PICK p \in Int : p = t * s
    BY <1>0
<1>2. x = p + r /\ 0 <= r /\ r <= t - 1
    BY <1>0, <1>1
<1>3. s * t = p
    BY <1>0, <1>1
<1>4. (s - 1) * t = s * t - t /\ (s + 1) * t = s * t + t /\ (s + 1 + 1) * t = s * t + t + t
    BY <1>0
<1>5. CASE g = s
    <2>1. (s - 1) * t = p - t /\ (s + 1) * t = p + t
        BY <1>0, <1>3, <1>4
    <2>2. (s - 1) * t <= x /\ (s + 1) * t >= x
        BY <1>0, <1>2, <2>1
    <2>3. IsWithinOne(s, x, t)
        BY <2>2 DEF IsWithinOne
    <2>4. QED BY <1>5, <2>3
<1>6. CASE g = s + 1
    <2>1. g - 1 = s /\ g + 1 = s + 1 + 1
        BY <1>0, <1>6
    <2>2. (s + 1 + 1) * t = p + t + t
        BY <1>0, <1>3, <1>4
    <2>3. s * t <= x /\ (s + 1 + 1) * t >= x
        BY <1>0, <1>2, <1>3, <2>2
    <2>4. (g - 1) * t = s * t /\ (g + 1) * t = (s + 1 + 1) * t
        BY <2>1
    <2>5. QED BY <2>3, <2>4 DEF IsWithinOne
<1>7. QED BY <1>0, <1>5, <1>6

\* A share that is exact is within one unit of itself.
LEMMA ExactIsWithinOne ==
    ASSUME NEW a \in Int, NEW t \in Int, NEW x, x = a * t, 0 <= t
    PROVE  IsWithinOne(a, x, t)
<1>1. PICK p \in Int : p = a * t /\ x = p
    OBVIOUS
<1>2. (a - 1) * t = a * t - t /\ (a + 1) * t = a * t + t
    OBVIOUS
<1>3. (a - 1) * t = p - t /\ (a + 1) * t = p + t
    BY <1>1, <1>2
<1>4. (a - 1) * t <= p /\ (a + 1) * t >= p
    BY <1>3
<1>5. QED BY <1>1, <1>4 DEF IsWithinOne

LEMMA Division ==
    ASSUME NEW a \in Int, NEW b \in Int, b > 0
    PROVE  /\ a \div b \in Int /\ a % b \in Int
           /\ a = b * (a \div b) + (a % b)
           /\ 0 <= a % b /\ a % b <= b - 1
           /\ a >= 0 => a \div b >= 0
<1>1. a \div b \in Int /\ a = b * (a \div b) + (a % b) /\ a % b \in 0 .. b - 1
    <2>1. a \div b \in Int
        OBVIOUS
    <2>2. a = b * (a \div b) + (a % b)
        OBVIOUS
    <2>3. a % b \in 0 .. (b - 1)
        OBVIOUS
    <2>4. QED BY <2>1, <2>2, <2>3
<1>2. a >= 0 => a \div b >= 0
    <2>1. SUFFICES ASSUME a >= 0, a \div b <= -1 PROVE FALSE
        BY <1>1
    <2>2. b * (a \div b) <= b * (-1)
        BY <1>1, <2>1, TimesMonotone
    <2>3. b * (-1) = -b
        OBVIOUS
    <2>4. PICK p \in Int : p = b * (a \div b)
        BY <1>1
    <2>5. QED BY <1>1, <2>1, <2>2, <2>3, <2>4
<1>3. QED BY <1>1, <1>2

------------------------------------------------------------------------------
(* Running sums *)

\* What the first k come to, for every k up to n.
SoFar(A, n) == [k \in 0 .. n |-> SumFunctionOnSet(A, 1 .. k)]

AddsUp(C, A, n) ==
    /\ \A k \in 0 .. n : C[k] \in Int
    /\ C[0] = 0
    /\ \A k \in 0 .. n : k + 1 \in 1 .. n => C[k + 1] = C[k] + A[k + 1]

\* Adding up one after the other.
LEMMA SumsSoFar ==
    ASSUME NEW n \in Nat, NEW A, \A i \in 1 .. n : A[i] \in Int
    PROVE  AddsUp(SoFar(A, n), A, n)
<1> DEFINE C == SoFar(A, n)
<1>0. \A k \in 0 .. n : C[k] = SumFunctionOnSet(A, 1 .. k)
    BY DEF SoFar
<1> HIDE DEF C
<1>1. ASSUME NEW k \in 0 .. n
      PROVE  IsFiniteSet(1 .. k) /\ \A i \in 1 .. k : A[i] \in Int
    <2>1. k \in Int /\ 1 .. k \subseteq 1 .. n
        OBVIOUS
    <2>2. IsFiniteSet(1 .. k)
        BY <2>1, FS_Interval
    <2>3. QED BY <2>1, <2>2
<1>2. ASSUME NEW k \in 0 .. n
      PROVE  SumFunctionOnSet(A, 1 .. k) \in Int
    BY <1>1, SumType
<1>3. C[0] = 0
    <2>1. 1 .. 0 = {} /\ 0 \in 0 .. n
        OBVIOUS
    <2>2. QED BY <1>0, <2>1, SumEmpty
<1>4. ASSUME NEW k \in 0 .. n, k + 1 \in 1 .. n
      PROVE  C[k + 1] = C[k] + A[k + 1]
    <2>1. 1 .. (k + 1) = (1 .. k) \cup {k + 1} /\ k + 1 \notin 1 .. k /\ k + 1 \in 0 .. n
        BY <1>4
    <2>2. PICK I, x : I = 1 .. k /\ x = k + 1
        OBVIOUS
    <2>3. IsFiniteSet(I) /\ (\A i \in I : A[i] \in Int) /\ x \notin I /\ A[x] \in Int
        BY <1>1, <1>4, <2>1, <2>2
    <2>4. SumFunctionOnSet(A, I \cup {x}) = A[x] + SumFunctionOnSet(A, I)
        BY <2>3, SumAdd
    <2>5. C[k + 1] = SumFunctionOnSet(A, I \cup {x}) /\ C[k] = SumFunctionOnSet(A, I)
        BY <1>0, <2>1, <2>2
    <2>6. C[k] \in Int
        BY <1>0, <1>2
    <2>7. QED BY <2>2, <2>3, <2>4, <2>5, <2>6
<1>5. \A k \in 0 .. n : C[k] \in Int
    BY <1>0, <1>2
<1>6. QED BY <1>3, <1>4, <1>5 DEF AddsUp, C

LEMMA SumsGrow ==
    ASSUME NEW n \in Nat, NEW C, \A k \in 0 .. n : C[k] \in Int, \A k \in 0 .. n : k + 1 \in 1 .. n => C[k] <= C[k + 1],
           NEW a \in 0 .. n, NEW b \in 0 .. n, a <= b
    PROVE  C[a] <= C[b]
<1> DEFINE N == {d \in Nat : a + d <= n => C[a] <= C[a + d]}
<1>1. 0 \in N
    OBVIOUS
<1>2. ASSUME NEW d \in Nat, d \in N
      PROVE  d + 1 \in N
    <2>1. SUFFICES ASSUME a + (d + 1) <= n PROVE C[a] <= C[a + (d + 1)]
        OBVIOUS
    <2>2. PICK k \in 0 .. n : k = a + d /\ k + 1 = a + (d + 1) /\ k + 1 \in 1 .. n /\ k + 1 \in 0 .. n
        BY <2>1
    <2>3. C[a] <= C[k] /\ C[k] <= C[k + 1]
        BY <1>2, <2>2
    <2>4. C[a] \in Int /\ C[k] \in Int /\ C[k + 1] \in Int
        BY <2>2
    <2>5. QED BY <2>2, <2>3, <2>4
<1>3. Nat \subseteq N
    <2> HIDE DEF N
    <2>1. QED BY <1>1, <1>2, EveryNumber
<1>4. PICK d \in Nat : d = b - a
    OBVIOUS
<1>5. d \in N
    <2> HIDE DEF N
    <2>1. QED BY <1>3, <1>4
<1>6. a + d = b /\ b <= n
    BY <1>4
<1>7. a + d <= n => C[a] <= C[a + d]
    BY <1>5
<1>8. QED BY <1>6, <1>7

------------------------------------------------------------------------------
(* Lists in order *)

\* R puts the members of S in an order, one after the other.
IsOrder(R, S) ==
    /\ \A x \in S : <<x, x>> \notin R
    /\ \A x, y, z \in S : <<x, y>> \in R /\ <<y, z>> \in R => <<x, z>> \in R
    /\ \A x, y \in S : x # y => <<x, y>> \in R \/ <<y, x>> \in R

LEMMA Foremost ==
    ASSUME NEW S, IsFiniteSet(S), S # {}, NEW R, IsOrder(R, S)
    PROVE  \E m \in S : \A x \in S \ {m} : <<m, x>> \in R
<1> DEFINE P == {T \in SUBSET S : T # {} => \E m \in T : \A x \in T \ {m} : <<m, x>> \in R}
<1>1. {} \in P
    OBVIOUS
<1>2. ASSUME NEW T \in SUBSET S, NEW y \in S \ T, T \in P
      PROVE  T \cup {y} \in P
    <2>1. CASE T = {}
        BY <2>1
    <2>2. CASE T # {}
        <3>1. PICK m \in T : \A x \in T \ {m} : <<m, x>> \in R
            BY <1>2, <2>2
        <3>2. CASE <<m, y>> \in R
            BY <3>1, <3>2
        <3>3. CASE <<y, m>> \in R
            <4>1. \A x \in T : <<y, x>> \in R
                BY <3>1, <3>3 DEF IsOrder
            <4>2. QED BY <4>1
        <3>4. QED BY <3>2, <3>3 DEF IsOrder
    <2>3. QED BY <2>1, <2>2
<1>3. S \in P
    <2> HIDE DEF P
    <2>1. QED BY <1>1, <1>2, FiniteInduction
<1>4. QED BY <1>3

LEMMA Hindmost ==
    ASSUME NEW S, IsFiniteSet(S), S # {}, NEW R, IsOrder(R, S)
    PROVE  \E m \in S : \A x \in S \ {m} : <<x, m>> \in R
<1>1. PICK Q : Q = {p \in S \X S : <<p[2], p[1]>> \in R}
    OBVIOUS
<1>2. \A x, y \in S : <<x, y>> \in Q <=> <<y, x>> \in R
    BY <1>1
<1>3. IsOrder(Q, S)
    BY <1>2 DEF IsOrder
<1>4. PICK m \in S : \A x \in S \ {m} : <<m, x>> \in Q
    BY <1>3, Foremost
<1>5. QED BY <1>2, <1>4

\* What makes a function a list of the members of S in the order R.
Lists(l, R, S, n) ==
    /\ l \in [1 .. n -> S]
    /\ \A i, j \in 1 .. n : i < j => <<l[i], l[j]>> \in R

LEMMA ListExists ==
    ASSUME NEW S, IsFiniteSet(S), NEW R, IsOrder(R, S)
    PROVE  \E l : Lists(l, R, S, Cardinality(S))
<1> DEFINE N == {n \in Nat : \A T \in SUBSET S : Cardinality(T) = n => \E l : Lists(l, R, T, n)}
<1>1. \A T \in SUBSET S : IsFiniteSet(T) /\ Cardinality(T) \in Nat /\ IsOrder(R, T)
    BY FS_Subset, FS_CardinalityType DEF IsOrder
<1>2. 0 \in N
    <2>1. ASSUME NEW T \in SUBSET S
          PROVE  \E l : Lists(l, R, T, 0)
        <3>1. Lists([i \in 1 .. 0 |-> 0], R, T, 0)
            BY DEF Lists
        <3>2. QED BY <3>1
    <2>2. QED BY <2>1
<1>3. ASSUME NEW n \in Nat, n \in N
      PROVE  n + 1 \in N
    <2>1. ASSUME NEW T \in SUBSET S, Cardinality(T) = n + 1
          PROVE  \E l : Lists(l, R, T, n + 1)
        <3>1. IsFiniteSet(T) /\ T # {} /\ IsOrder(R, T)
            <4>1. IsFiniteSet(T) /\ IsOrder(R, T)
                BY <1>1
            <4>2. QED BY <2>1, <4>1, FS_EmptySet
        <3>2. PICK m \in T : \A x \in T \ {m} : <<x, m>> \in R
            BY <3>1, Hindmost
        <3>3. Cardinality(T \ {m}) = n
            <4>1. Cardinality(T \ {m}) = Cardinality(T) - 1
                BY <3>1, FS_RemoveElement
            <4>2. QED BY <2>1, <4>1
        <3>4. T \ {m} \in SUBSET S
            OBVIOUS
        <3>5. PICK l : Lists(l, R, T \ {m}, n)
            BY <1>3, <3>3, <3>4
        <3>6. PICK k : k = [i \in 1 .. n + 1 |-> IF i = n + 1 THEN m ELSE l[i]]
            OBVIOUS
        <3>7. \A i \in 1 .. n : i \in 1 .. n + 1 /\ i # n + 1 /\ k[i] = l[i] /\ l[i] \in T \ {m}
            BY <3>5, <3>6 DEF Lists
        <3>8. n + 1 \in 1 .. n + 1 /\ k[n + 1] = m
            BY <3>6
        <3>9. \A i \in 1 .. n + 1 : i \in 1 .. n \/ i = n + 1
            OBVIOUS
        <3>10. k \in [1 .. n + 1 -> T]
            BY <3>6, <3>7, <3>8, <3>9
        <3>11. ASSUME NEW i \in 1 .. n + 1, NEW j \in 1 .. n + 1, i < j
               PROVE  <<k[i], k[j]>> \in R
            <4>1. i \in 1 .. n
                BY <3>11
            <4>2. CASE j \in 1 .. n
                BY <3>5, <3>7, <3>11, <4>1, <4>2 DEF Lists
            <4>3. CASE j = n + 1
                BY <3>2, <3>7, <3>8, <4>1, <4>3
            <4>4. QED BY <3>9, <4>2, <4>3
        <3>12. QED BY <3>10, <3>11 DEF Lists
    <2>2. QED BY <2>1
<1>4. Nat \subseteq N
    <2> HIDE DEF N
    <2>1. QED BY <1>2, <1>3, EveryNumber
<1>5. Cardinality(S) \in N
    BY <1>1, <1>4
<1>6. QED BY <1>5

\* Such a list has every member once.
LEMMA ListIsComplete ==
    ASSUME NEW S, IsFiniteSet(S), NEW R, IsOrder(R, S), NEW l, NEW n, n = Cardinality(S), Lists(l, R, S, n)
    PROVE  /\ n \in Nat
           /\ \A i, j \in 1 .. n : l[i] = l[j] => i = j
           /\ \A x \in S : \E i \in 1 .. n : l[i] = x
           /\ \A i, j \in 1 .. n : <<l[i], l[j]>> \in R => i < j
<1>1. n \in Nat
    BY FS_CardinalityType
<1>2. ASSUME NEW i \in 1 .. n, NEW j \in 1 .. n, l[i] = l[j]
      PROVE  i = j
    <2>1. l[i] \in S /\ l[j] \in S
        BY DEF Lists
    <2>2. ~ (i < j) /\ ~ (j < i)
        BY <1>2, <2>1 DEF Lists, IsOrder
    <2>3. QED BY <1>1, <2>2
<1>3. l \in Injection(1 .. n, S)
    BY <1>2 DEF Lists, Injection, IsInjective
<1>4. Cardinality(1 .. n) = n /\ IsFiniteSet(1 .. n)
    <2>1. 1 \in Int /\ n \in Int
        BY <1>1
    <2>2. IsFiniteSet(1 .. n) /\ Cardinality(1 .. n) = IF 1 > n THEN 0 ELSE n - 1 + 1
        BY <2>1, FS_Interval
    <2>3. QED BY <1>1, <2>2
<1>5. l \in Surjection(1 .. n, S)
    BY <1>3, <1>4, FS_Injection
<1>6. \A x \in S : \E i \in 1 .. n : l[i] = x
    BY <1>5 DEF Surjection
<1>7. ASSUME NEW i \in 1 .. n, NEW j \in 1 .. n, <<l[i], l[j]>> \in R
      PROVE  i < j
    <2>1. l[i] \in S /\ l[j] \in S
        BY DEF Lists
    <2>2. i # j
        BY <1>7, <2>1 DEF IsOrder
    <2>3. ~ (j < i)
        <3>1. SUFFICES ASSUME j < i PROVE FALSE
            OBVIOUS
        <3>2. <<l[j], l[i]>> \in R
            BY <3>1 DEF Lists
        <3>3. <<l[i], l[i]>> \in R
            BY <1>7, <2>1, <3>2 DEF IsOrder
        <3>4. QED BY <2>1, <3>3 DEF IsOrder
    <2>4. QED BY <1>1, <2>2, <2>3
<1>8. QED BY <1>1, <1>2, <1>6, <1>7

\* The k first members of a set of numbers are k.
LEMMA FirstOnes ==
    ASSUME NEW n \in Nat, NEW S, S \subseteq 1 .. n, NEW k \in Nat, k <= Cardinality(S)
    PROVE  Cardinality({i \in S : Cardinality({j \in S : j < i}) < k}) = k
<1> DEFINE Rank(i) == Cardinality({j \in S : j < i})
           First(m) == {i \in S : Rank(i) < m}
           N == {m \in Nat : m <= Cardinality(S) => Cardinality(First(m)) = m}
<1>1. IsFiniteSet(S) /\ (\A T \in SUBSET S : IsFiniteSet(T) /\ Cardinality(T) \in Nat) /\ Cardinality(S) \in Nat
    <2>1. IsFiniteSet(1 .. n)
        BY FS_Interval
    <2>2. IsFiniteSet(S)
        BY <2>1, FS_Subset
    <2>3. QED BY <2>2, FS_Subset, FS_CardinalityType
<1>2. \A i \in S : i \in Nat /\ Rank(i) \in Nat
    <2>1. ASSUME NEW i \in S PROVE i \in Nat /\ Rank(i) \in Nat
        <3>1. {j \in S : j < i} \in SUBSET S
            OBVIOUS
        <3>2. QED BY <1>1, <3>1
    <2>2. QED BY <2>1
<1>3. 0 \in N
    <2>1. \A i \in S : ~ (Rank(i) < 0)
        <3> HIDE DEF Rank
        <3>1. QED BY <1>2
    <2> HIDE DEF Rank
    <2>3. First(0) = {}
        BY <2>1
    <2> HIDE DEF First
    <2>4. Cardinality(First(0)) = 0
        BY <2>3, FS_EmptySet
    <2>5. QED BY <2>4
<1>4. ASSUME NEW m \in Nat, m \in N
      PROVE  m + 1 \in N
    <2>1. SUFFICES ASSUME m + 1 <= Cardinality(S) PROVE Cardinality(First(m + 1)) = m + 1
        OBVIOUS
    <2>2. PICK U : U = First(m)
        OBVIOUS
    <2>3. U \in SUBSET S /\ IsFiniteSet(U) /\ Cardinality(U) = m
        <3>1. U \in SUBSET S
            BY <2>2
        <3>2. Cardinality(U) = m
            <4>1. m <= Cardinality(S)
                BY <1>1, <2>1
            <4> HIDE DEF First
            <4>2. QED BY <1>4, <2>2, <4>1
        <3>3. QED BY <1>1, <3>1, <3>2
    <2>4. S \ U # {}
        <3>1. SUFFICES ASSUME U = S PROVE FALSE
            BY <2>3
        <3>2. QED BY <1>1, <2>1, <2>3, <3>1
    <2>5. PICK x \in S \ U : \A y \in S \ U : x <= y
        <3>1. S \ U \subseteq Nat
            BY <1>2
        <3>2. QED BY <2>4, <3>1, Least
    <2>6. ASSUME NEW a \in S, NEW b \in S, a < b
          PROVE  Rank(a) + 1 <= Rank(b)
        <3> DEFINE A == {j \in S : j < a}
                   B == {j \in S : j < b}
        <3>1. A \cup {a} \subseteq B /\ a \notin A /\ A \in SUBSET S /\ B \in SUBSET S
            <4>1. a \in Nat /\ b \in Nat /\ \A j \in S : j \in Nat
                BY <1>2
            <4>2. \A j \in S : j < a => j < b
                BY <2>6, <4>1
            <4>3. a \in B /\ a \notin A
                BY <2>6, <4>1
            <4>4. QED BY <4>2, <4>3
        <3>2. IsFiniteSet(A) /\ IsFiniteSet(B) /\ Cardinality(A) \in Nat
            BY <1>1, <3>1
        <3> HIDE DEF A, B
        <3>3. Cardinality(A \cup {a}) = Cardinality(A) + 1
            BY <3>1, <3>2, FS_AddElement
        <3>4. Cardinality(A \cup {a}) <= Cardinality(B)
            BY <3>1, <3>2, FS_Subset
        <3>5. Cardinality(A) + 1 <= Cardinality(B)
            BY <3>3, <3>4
        <3>6. QED BY <3>5 DEF A, B
    <2>7. \A i \in S : i \in U <=> Rank(i) < m
        BY <2>2
    <2> HIDE DEF First
    <2>8. {j \in S : j < x} = U
        <3>1. ASSUME NEW j \in S, j < x PROVE j \in U
            BY <1>2, <2>5, <3>1
        <3>2. ASSUME NEW j \in U PROVE j < x
            <4>1. j \in S /\ j # x
                BY <2>3, <2>5
            <4>2. CASE x < j
                <5>1. Rank(x) + 1 <= Rank(j)
                    BY <2>6, <4>1, <4>2
                <5>2. Rank(j) < m /\ ~ (Rank(x) < m) /\ Rank(x) \in Nat /\ Rank(j) \in Nat
                    BY <1>2, <2>5, <2>7, <4>1
                <5> HIDE DEF Rank
                <5>3. QED BY <5>1, <5>2
            <4>3. QED BY <1>2, <4>1, <4>2
        <3>3. QED BY <2>3, <3>1, <3>2
    <2>9. Rank(x) = m
        BY <2>3, <2>8
    <2> HIDE DEF Rank
    <2>10. First(m + 1) = U \cup {x}
        <3>1. \A i \in S : i \in First(m + 1) <=> Rank(i) < m + 1
            BY DEF First
        <3>2. First(m + 1) \subseteq S
            BY DEF First
        <3>3. ASSUME NEW i \in S, i \in First(m + 1), i \notin U
              PROVE  i = x
            <4>1. Rank(i) \in Nat /\ Rank(i) < m + 1 /\ ~ (Rank(i) < m)
                BY <1>2, <2>7, <3>1, <3>3
            <4>2. x < i => Rank(x) + 1 <= Rank(i)
                BY <2>6
            <4>3. ~ (x < i)
                BY <2>9, <4>1, <4>2
            <4>4. x <= i
                BY <2>5, <3>3
            <4>5. QED BY <1>2, <2>5, <4>3, <4>4
        <3>4. x \in First(m + 1)
            BY <2>5, <2>9, <3>1
        <3>5. \A i \in U : i \in First(m + 1)
            BY <1>2, <2>3, <2>7, <3>1
        <3>6. QED BY <2>3, <2>5, <3>2, <3>3, <3>4, <3>5
    <2>11. x \notin U
        BY <2>5
    <2>12. Cardinality(U \cup {x}) = Cardinality(U) + 1
        BY <2>3, <2>11, FS_AddElement
    <2>13. QED BY <2>3, <2>10, <2>12
<1>5. Nat \subseteq N
    <2> HIDE DEF N
    <2>1. QED BY <1>3, <1>4, EveryNumber
<1>6. k \in N
    BY <1>5
<1>7. QED BY <1>6
================================================================================
