---------------------------- MODULE LedgerProofs -----------------------------
(***************************************************************************)
(* What holds of the ledger for every width, every finite set of accounts,  *)
(* all currencies and keys, and every list of entries a caller may submit.  *)
(*                                                                          *)
(* The indexes (IndInv): a reversal is unique because the index of          *)
(* reversals knows every target in the journal, and a target precedes its   *)
(* reversal because the idempotency index, exact by AppliedOnce, has the    *)
(* position of every key it knows.                                          *)
(*                                                                          *)
(* The books (BookInv): one transaction after another, the balances move by *)
(* what replay adds, and all accounts of a currency together by the total   *)
(* that check_balanced found to be zero.  Why a reversal is exact although  *)
(* negation may wrap: NothingWrapped.                                       *)
(***************************************************************************)
EXTENDS Ledger, Sums

------------------------------------------------------------------------------
(* What lists of entries add up to *)

Carrying(entries, n, c) == {i \in 1 .. n : entries[i].currency = c}

Touching(entries, n, key) == {i \in 1 .. n : KeyOf(entries[i]) = key}

\* The amounts of some of the entries can be added.
LEMMA EntryType ==
    ASSUME NEW entry \in Entry
    PROVE  entry.units \in Int /\ entry.account \in Accounts /\ KeyOf(entry) \in Accounts \X Currencies
BY WidthAssumption DEF Entry, Units, MinUnits, KeyOf

LEMMA EntriesAdd ==
    ASSUME NEW entries \in Seq(Entry), NEW S, S \subseteq 1 .. Len(entries)
    PROVE  IsFiniteSet(S) /\ \A i \in S : /\ entries[i] \in Entry
                                          /\ Amounts(entries)[i] = entries[i].units
                                          /\ Amounts(entries)[i] \in Int
<1>1. IsFiniteSet(1 .. Len(entries))
    BY FS_Interval
<1>2. IsFiniteSet(S)
    BY <1>1, FS_Subset
<1>3. ASSUME NEW i \in S
      PROVE  entries[i] \in Entry /\ Amounts(entries)[i] = entries[i].units /\ Amounts(entries)[i] \in Int
    <2>1. i \in DOMAIN entries /\ entries[i] \in Entry
        OBVIOUS
    <2>2. entries[i].units \in Int
        BY <2>1, EntryType
    <2>3. QED BY <2>1, <2>2 DEF Amounts
<1>4. QED BY <1>2, <1>3

\* The last of n + 1 entries adds its amount to its currency and to its balance only.
LEMMA OneMoreEntry ==
    ASSUME NEW entries \in Seq(Entry), NEW n \in Nat, n + 1 <= Len(entries)
    PROVE  /\ entries[n + 1] \in Entry
           /\ \A c : /\ CurrencyTotal(entries, n, c) \in Int
                     /\ CurrencyTotal(entries, n + 1, c) =
                          CurrencyTotal(entries, n, c) + (IF entries[n + 1].currency = c THEN entries[n + 1].units ELSE 0)
           /\ \A k : /\ Moved(entries, n, k) \in Int
                     /\ Moved(entries, n + 1, k) =
                          Moved(entries, n, k) + (IF KeyOf(entries[n + 1]) = k THEN entries[n + 1].units ELSE 0)
<1>1. 1 .. n + 1 \subseteq 1 .. Len(entries) /\ 1 .. n + 1 = (1 .. n) \cup {n + 1} /\ n + 1 \notin 1 .. n
    OBVIOUS
<1>2. \A S : S \subseteq 1 .. n =>
        /\ SumFunctionOnSet(Amounts(entries), S) \in Int
        /\ SumFunctionOnSet(Amounts(entries), S \cup {n + 1}) =
             entries[n + 1].units + SumFunctionOnSet(Amounts(entries), S)
    <2>1. SUFFICES ASSUME NEW S, S \subseteq 1 .. n
                   PROVE  /\ SumFunctionOnSet(Amounts(entries), S) \in Int
                          /\ SumFunctionOnSet(Amounts(entries), S \cup {n + 1}) =
                               entries[n + 1].units + SumFunctionOnSet(Amounts(entries), S)
        OBVIOUS
    <2>2. IsFiniteSet(S) /\ \A i \in S : Amounts(entries)[i] \in Int
        BY <1>1, <2>1, EntriesAdd
    <2>3. Amounts(entries)[n + 1] = entries[n + 1].units /\ Amounts(entries)[n + 1] \in Int
        <3>1. {n + 1} \subseteq 1 .. Len(entries)
            BY <1>1
        <3>2. QED BY <3>1, EntriesAdd
    <2>4. n + 1 \notin S
        BY <1>1, <2>1
    <2>5. QED BY <2>2, <2>3, <2>4, SumType, SumAdd
<1>3. entries[n + 1] \in Entry /\ entries[n + 1].units \in Int
    <2>1. n + 1 \in DOMAIN entries
        OBVIOUS
    <2>2. entries[n + 1] \in Entry
        BY <2>1
    <2>3. QED BY <2>2, EntryType
<1>4. ASSUME NEW c
      PROVE  /\ CurrencyTotal(entries, n, c) \in Int
             /\ CurrencyTotal(entries, n + 1, c) =
                  CurrencyTotal(entries, n, c) + (IF entries[n + 1].currency = c THEN entries[n + 1].units ELSE 0)
    <2> DEFINE S == Carrying(entries, n, c)
    <2>1. S \subseteq 1 .. n
        BY DEF Carrying
    <2>2. Carrying(entries, n + 1, c) = IF entries[n + 1].currency = c THEN S \cup {n + 1} ELSE S
        BY <1>1 DEF Carrying
    <2>3. /\ CurrencyTotal(entries, n, c) = SumFunctionOnSet(Amounts(entries), S)
          /\ CurrencyTotal(entries, n + 1, c) = SumFunctionOnSet(Amounts(entries), Carrying(entries, n + 1, c))
        BY DEF CurrencyTotal, Carrying
    <2> HIDE DEF S
    <2>4. CurrencyTotal(entries, n, c) \in Int
        BY <1>2, <2>1, <2>3
    <2>5. CASE entries[n + 1].currency = c
        <3>1. CurrencyTotal(entries, n + 1, c) = entries[n + 1].units + CurrencyTotal(entries, n, c)
            BY <1>2, <2>1, <2>2, <2>3, <2>5
        <3>2. QED BY <1>3, <2>4, <2>5, <3>1
    <2>6. CASE entries[n + 1].currency # c
        <3>1. CurrencyTotal(entries, n + 1, c) = CurrencyTotal(entries, n, c)
            BY <2>2, <2>3, <2>6
        <3>2. QED BY <2>4, <2>6, <3>1
    <2>7. QED BY <2>4, <2>5, <2>6
<1>5. ASSUME NEW k
      PROVE  /\ Moved(entries, n, k) \in Int
             /\ Moved(entries, n + 1, k) =
                  Moved(entries, n, k) + (IF KeyOf(entries[n + 1]) = k THEN entries[n + 1].units ELSE 0)
    <2> DEFINE S == Touching(entries, n, k)
    <2>1. S \subseteq 1 .. n
        BY DEF Touching
    <2>2. Touching(entries, n + 1, k) = IF KeyOf(entries[n + 1]) = k THEN S \cup {n + 1} ELSE S
        BY <1>1 DEF Touching
    <2>3. /\ Moved(entries, n, k) = SumFunctionOnSet(Amounts(entries), S)
          /\ Moved(entries, n + 1, k) = SumFunctionOnSet(Amounts(entries), Touching(entries, n + 1, k))
        BY DEF Moved, Touching
    <2> HIDE DEF S
    <2>4. Moved(entries, n, k) \in Int
        BY <1>2, <2>1, <2>3
    <2>5. CASE KeyOf(entries[n + 1]) = k
        <3>1. Moved(entries, n + 1, k) = entries[n + 1].units + Moved(entries, n, k)
            BY <1>2, <2>1, <2>2, <2>3, <2>5
        <3>2. QED BY <1>3, <2>4, <2>5, <3>1
    <2>6. CASE KeyOf(entries[n + 1]) # k
        <3>1. Moved(entries, n + 1, k) = Moved(entries, n, k)
            BY <2>2, <2>3, <2>6
        <3>2. QED BY <2>4, <2>6, <3>1
    <2>7. QED BY <2>4, <2>5, <2>6
<1>6. QED BY <1>3, <1>4, <1>5

LEMMA NoEntries ==
    ASSUME NEW entries
    PROVE  (\A c : CurrencyTotal(entries, 0, c) = 0) /\ (\A k : Moved(entries, 0, k) = 0)
<1>1. ASSUME NEW c PROVE CurrencyTotal(entries, 0, c) = 0
    <2>1. {i \in 1 .. 0 : entries[i].currency = c} = {}
        OBVIOUS
    <2>2. QED BY <2>1, SumEmpty DEF CurrencyTotal
<1>2. ASSUME NEW k PROVE Moved(entries, 0, k) = 0
    <2>1. {i \in 1 .. 0 : KeyOf(entries[i]) = k} = {}
        OBVIOUS
    <2>2. QED BY <2>1, SumEmpty DEF Moved
<1>3. QED BY <1>1, <1>2

LEMMA TotalsType ==
    ASSUME NEW entries \in Seq(Entry), NEW n \in 0 .. Len(entries)
    PROVE  (\A c : CurrencyTotal(entries, n, c) \in Int) /\ (\A k : Moved(entries, n, k) \in Int)
<1>1. ASSUME NEW S, S \subseteq 1 .. n
      PROVE  SumFunctionOnSet(Amounts(entries), S) \in Int
    <2>1. S \subseteq 1 .. Len(entries)
        BY <1>1
    <2>2. QED BY <2>1, EntriesAdd, SumType
<1>2. \A c : {i \in 1 .. n : entries[i].currency = c} \subseteq 1 .. n
    OBVIOUS
<1>3. \A k : {i \in 1 .. n : KeyOf(entries[i]) = k} \subseteq 1 .. n
    OBVIOUS
<1>4. QED BY <1>1, <1>2, <1>3 DEF CurrencyTotal, Moved

\* What all the accounts of a currency gain is what its entries add up to: an entry
\* is the gain of one account.
LEMMA AccountsGain ==
    ASSUME NEW entries \in Seq(Entry), NEW c \in Currencies, NEW m \in 0 .. Len(entries)
    PROVE  SumFunctionOnSet([a \in Accounts |-> Moved(entries, m, <<a, c>>)], Accounts)
               = CurrencyTotal(entries, m, c)
<1> DEFINE gains(n) == [a \in Accounts |-> Moved(entries, n, <<a, c>>)]
           N == {n \in Nat : n <= Len(entries) =>
                    SumFunctionOnSet(gains(n), Accounts) = CurrencyTotal(entries, n, c)}
<1>1. 0 \in N
    <2>1. \A a \in Accounts : gains(0)[a] = 0
        BY NoEntries
    <2> HIDE DEF gains
    <2>2. SumFunctionOnSet(gains(0), Accounts) = 0
        BY <2>1, AccountsAssumption, SumZero
    <2>3. QED BY <2>2, NoEntries
<1>2. ASSUME NEW n \in Nat, n \in N
      PROVE  n + 1 \in N
    <2>1. SUFFICES ASSUME n + 1 <= Len(entries)
                   PROVE  SumFunctionOnSet(gains(n + 1), Accounts) = CurrencyTotal(entries, n + 1, c)
        OBVIOUS
    <2>2. SumFunctionOnSet(gains(n), Accounts) = CurrencyTotal(entries, n, c)
        BY <1>2, <2>1
    <2> DEFINE last == entries[n + 1]
    <2>3. last \in Entry /\ last.units \in Int /\ last.account \in Accounts
        BY <2>1, OneMoreEntry, EntryType
    <2>4. \A a \in Accounts :
            /\ gains(n)[a] \in Int
            /\ gains(n + 1)[a] = gains(n)[a] + (IF KeyOf(last) = <<a, c>> THEN last.units ELSE 0)
        BY <2>1, OneMoreEntry
    <2>5. CurrencyTotal(entries, n, c) \in Int
          /\ CurrencyTotal(entries, n + 1, c)
               = CurrencyTotal(entries, n, c) + (IF last.currency = c THEN last.units ELSE 0)
        BY <2>1, OneMoreEntry
    <2>6. \A a \in Accounts : KeyOf(last) = <<a, c>> <=> last.account = a /\ last.currency = c
        BY DEF KeyOf
    <2> HIDE DEF gains, last
    <2>7. CASE last.currency = c
        <3>1. \A a \in Accounts \ {last.account} : gains(n + 1)[a] = gains(n)[a]
            BY <2>4, <2>6
        <3>2. gains(n + 1)[last.account] = gains(n)[last.account] + last.units
            BY <2>3, <2>4, <2>6, <2>7
        <3>3. SumFunctionOnSet(gains(n + 1), Accounts)
                = (SumFunctionOnSet(gains(n), Accounts) - gains(n)[last.account]) + gains(n + 1)[last.account]
            BY <2>3, <2>4, <3>1, <3>2, AccountsAssumption, SumReplace
        <3>4. QED BY <2>2, <2>3, <2>4, <2>5, <2>7, <3>2, <3>3
    <2>8. CASE last.currency # c
        <3>1. \A a \in Accounts : gains(n + 1)[a] = gains(n)[a]
            BY <2>4, <2>6, <2>8
        <3>2. SumFunctionOnSet(gains(n + 1), Accounts) = SumFunctionOnSet(gains(n), Accounts)
            BY <2>4, <3>1, AccountsAssumption, SumSame
        <3>3. QED BY <2>2, <2>5, <2>8, <3>2
    <2>9. QED BY <2>7, <2>8
<1>3. Nat \subseteq N
    <2> HIDE DEF N
    <2>1. QED BY <1>1, <1>2, EveryNumber
<1>4. m \in N
    BY <1>3
<1>5. QED BY <1>4

------------------------------------------------------------------------------
(* The indexes *)

IndInv == TypeOK /\ AppliedOnce /\ ReversedOnce

\* Negating every entry of a list of entries gives a list of entries again, even
\* where the smallest amount wraps (Money::negate in a release build).
LEMMA NegateAllType ==
    ASSUME NEW entries \in Seq(Entry)
    PROVE  NegateAll(entries) \in Seq(Entry)
<1>1. DOMAIN entries = 1 .. Len(entries) /\ Len(entries) \in Nat
    OBVIOUS
<1>2. ASSUME NEW i \in 1 .. Len(entries)
      PROVE  [entries[i] EXCEPT !.units = Negate(@)] \in Entry
    <2>1. entries[i] \in Entry
        OBVIOUS
    <2>2. Negate(entries[i].units) \in Units
        BY <2>1, WidthAssumption DEF Negate, Entry, Units, MinUnits
    <2>3. QED BY <2>1, <2>2 DEF Entry
<1>3. NegateAll(entries) = [i \in 1 .. Len(entries) |-> [entries[i] EXCEPT !.units = Negate(@)]]
    BY <1>1 DEF NegateAll
<1>4. QED BY <1>1, <1>2, <1>3

\* The two kinds of transaction that reach post are transactions.
LEMMA SubmittedType ==
    ASSUME NEW id \in Ids, NEW entries \in EntryLists, NEW target \in Ids \cup {None}
    PROVE  [id |-> id, description |-> "caller", entries |-> entries, reverses |-> target]
               \in Transaction
BY LedgerAssumption DEF Transaction

LEMMA ReversalType ==
    ASSUME TypeOK, NEW id \in DOMAIN applied, NEW rid \in Ids
    PROVE  ReversalOf(id, rid) \in Transaction
<1>1. journal[applied[id]] \in Transaction /\ id \in Ids
    BY DEF TypeOK
<1>2. journal[applied[id]].entries \in Seq(Entry)
    BY <1>1 DEF Transaction
<1>3. NegateAll(journal[applied[id]].entries) \in Seq(Entry)
    BY <1>2, NegateAllType
<1>4. QED BY <1>1, <1>3 DEF ReversalOf, Transaction

\* A transaction that passes post's checks is new, and its target is in the
\* journal and not yet reversed.
LEMMA VerdictOk ==
    ASSUME NEW tx, Verdict(tx) = "Ok"
    PROVE  /\ tx.entries # << >>
           /\ tx.id \notin DOMAIN applied
           /\ tx.reverses # None => tx.reverses \in DOMAIN applied
           /\ tx.reverses # None => tx.reverses \notin DOMAIN reversed
           /\ SumsToZero(tx.entries)
BY DEF Verdict, AlreadyApplied, TargetUnknown, TargetReversed, Unbalanced

\* The answer of post is one of its errors, or Ok.
LEMMA VerdictType == ASSUME NEW tx PROVE Verdict(tx) \in Errors \cup {"Ok"}
BY DEF Verdict, Errors

\* A walk that has not met a blocked entry has left every balance within the width: the
\* last entry that touched it was not blocked.
LEMMA WalkKeepsWidth ==
    ASSUME TypeOK, NEW entries \in Seq(Entry), NEW m \in 0 .. Len(entries),
           \A b \in Blocked(entries) : m < b
    PROVE  BalancesAfter(entries, m) \in [Keys -> Units]
<1> DEFINE N == {n \in Nat : n <= m => \A k \in Keys : balances[k] + Moved(entries, n, k) \in Units}
<1>1. balances \in [Keys -> Units] /\ \A u \in Units : u \in Int
    BY WidthAssumption DEF TypeOK, Units, MinUnits
<1>2. 0 \in N
    <2>1. \A k \in Keys : balances[k] + Moved(entries, 0, k) = balances[k]
        BY <1>1, NoEntries
    <2>2. QED BY <1>1, <2>1
<1>3. ASSUME NEW n \in Nat, n \in N
      PROVE  n + 1 \in N
    <2>1. SUFFICES ASSUME n + 1 <= m, NEW k \in Keys
                   PROVE  balances[k] + Moved(entries, n + 1, k) \in Units
        OBVIOUS
    <2>2. n + 1 \in 1 .. Len(entries) /\ n + 1 \notin Blocked(entries)
        BY <2>1
    <2>3. CASE KeyOf(entries[n + 1]) = k
        BY <2>2, <2>3 DEF Blocked
    <2>4. CASE KeyOf(entries[n + 1]) # k
        <3>1. n + 1 <= Len(entries)
            BY <2>2
        <3>2. /\ Moved(entries, n, k) \in Int
              /\ Moved(entries, n + 1, k) =
                    Moved(entries, n, k) + (IF KeyOf(entries[n + 1]) = k THEN entries[n + 1].units ELSE 0)
            <4> HIDE DEF N
            <4>1. QED BY <3>1, OneMoreEntry
        <3>3. Moved(entries, n + 1, k) = Moved(entries, n, k)
            BY <2>4, <3>2
        <3>4. QED BY <1>3, <2>1, <3>3
    <2>5. QED BY <2>3, <2>4
<1>4. Nat \subseteq N
    <2> HIDE DEF N
    <2>1. QED BY <1>2, <1>3, EveryNumber
<1>5. m \in N
    BY <1>4
<1>6. QED BY <1>5 DEF BalancesAfter

\* Both ends of a walk leave the balances within the width.
LEMMA WalkFits ==
    ASSUME TypeOK, NEW tx \in Transaction
    PROVE  /\ Apply(tx) => balances' \in [Keys -> Units]
           /\ Tear(tx) => balances' \in [Keys -> Units]
<1>1. tx.entries \in Seq(Entry) /\ Len(tx.entries) \in Nat
    BY DEF Transaction
<1>2. ASSUME Apply(tx)
      PROVE  balances' \in [Keys -> Units]
    BY <1>1, <1>2, WalkKeepsWidth DEF Apply
<1>3. ASSUME Tear(tx)
      PROVE  balances' \in [Keys -> Units]
    <2> DEFINE blocked == Blocked(tx.entries)
               first == FirstBlocked(tx.entries)
    <2>1. blocked \subseteq 1 .. Len(tx.entries) /\ blocked # {}
        BY <1>3 DEF Tear, Blocked
    <2>2. \E n \in blocked : \A m \in blocked : n <= m
        BY <1>1, <2>1, Least
    <2>3. first \in blocked /\ \A m \in blocked : first <= m
        BY <2>2 DEF FirstBlocked
    <2> HIDE DEF first
    <2>4. first - 1 \in 0 .. Len(tx.entries) /\ \A b \in blocked : first - 1 < b
        BY <1>1, <2>1, <2>3
    <2>5. BalancesAfter(tx.entries, first - 1) \in [Keys -> Units]
        BY <1>1, <2>4, WalkKeepsWidth
    <2>6. QED BY <1>3, <2>5 DEF Tear, first
<1>4. QED BY <1>2, <1>3

\* Post keeps the invariant, whatever transaction it is given.
LEMMA PostInv ==
    ASSUME IndInv, NEW tx \in Transaction, Post(tx)
    PROVE  IndInv'
<1>1. CASE Reject(tx)
    BY <1>1, VerdictType DEF IndInv, TypeOK, AppliedOnce, ReversedOnce, Reject
<1>2. CASE Tear(tx)
    <2>1. balances' \in [Keys -> Units] /\ torn' \in BOOLEAN
        BY <1>2, WalkFits DEF Tear, IndInv, TypeOK
    <2>2. QED BY <1>2, <2>1 DEF IndInv, TypeOK, AppliedOnce, ReversedOnce, Tear, Errors
<1>3. CASE Apply(tx)
    <2> USE <1>3
    <2> DEFINE n == Len(journal)
    <2>1. n \in Nat /\ DOMAIN journal = 1 .. n /\ journal \in Seq(Transaction)
        BY DEF IndInv, TypeOK
    <2>2. /\ tx.id \in Ids /\ tx.reverses \in Ids \cup {None}
          /\ tx.id \notin DOMAIN applied
          /\ tx.reverses # None => tx.reverses \in DOMAIN applied
          /\ tx.reverses # None => tx.reverses \notin DOMAIN reversed
        BY VerdictOk DEF Apply, Transaction
    <2>3. /\ journal' \in Seq(Transaction)
          /\ DOMAIN journal' = 1 .. n + 1
          /\ \A i \in 1 .. n : journal'[i] = journal[i]
          /\ journal'[n + 1] = tx
        BY <2>1 DEF Apply
    <2>4. /\ DOMAIN applied' = DOMAIN applied \cup {tx.id}
          /\ applied'[tx.id] = n + 1
          /\ \A id \in DOMAIN applied : applied'[id] = applied[id]
        BY <2>2 DEF Apply, NextPosition, Insert
    <2>5. /\ DOMAIN reversed' = DOMAIN reversed \cup ({tx.reverses} \ {None})
          /\ tx.reverses # None => reversed'[tx.reverses] = tx.id
          /\ \A id \in DOMAIN reversed : reversed'[id] = reversed[id]
        <3>1. CASE tx.reverses = None
            <4>1. None \notin DOMAIN reversed
                BY LedgerAssumption DEF IndInv, TypeOK
            <4>2. QED BY <3>1, <4>1 DEF Apply
        <3>2. CASE tx.reverses # None
            BY <3>2, <2>2 DEF Apply, Insert
        <3>3. QED BY <3>1, <3>2
    <2>6. TypeOK'
        <3>1. balances' \in [Keys -> Units] /\ torn' \in BOOLEAN /\ result' \in Errors \cup {"Ok"}
            BY WalkFits DEF Apply, IndInv, TypeOK
        <3>2. \A id \in DOMAIN applied' : applied'[id] \in DOMAIN journal'
            BY <2>1, <2>3, <2>4 DEF IndInv, TypeOK
        <3>3. DOMAIN applied' \subseteq Ids
            BY <2>2, <2>4 DEF IndInv, TypeOK
        <3>4. DOMAIN reversed' \subseteq Ids /\ \A id \in DOMAIN reversed' : reversed'[id] \in Ids
            BY <2>2, <2>5 DEF IndInv, TypeOK
        <3>5. QED BY <2>3, <3>1, <3>2, <3>3, <3>4 DEF TypeOK
    <2>7. AppliedOnce'
        <3>1. ASSUME NEW i \in DOMAIN journal'
              PROVE  journal'[i].id \in DOMAIN applied' /\ applied'[journal'[i].id] = i
            BY <2>1, <2>3, <2>4 DEF IndInv, AppliedOnce
        <3>2. ASSUME NEW id \in DOMAIN applied'
              PROVE  journal'[applied'[id]].id = id
            <4>1. CASE id = tx.id
                BY <4>1, <2>3, <2>4
            <4>2. CASE id \in DOMAIN applied
                <5>1. applied[id] \in 1 .. n /\ journal[applied[id]].id = id
                    BY <4>2, <2>1 DEF IndInv, TypeOK, AppliedOnce
                <5>2. QED BY <5>1, <4>2, <2>3, <2>4
            <4>3. QED BY <4>1, <4>2, <2>4
        <3>3. QED BY <3>1, <3>2 DEF AppliedOnce
    <2>8. ReversedOnce'
        <3>1. ASSUME NEW i \in 1 .. n, journal[i].reverses # None
              PROVE  /\ \E t \in 1 .. i - 1 : journal'[t].id = journal'[i].reverses
                     /\ journal'[i].reverses \in DOMAIN reversed'
                     /\ reversed'[journal'[i].reverses] = journal'[i].id
            <4>1. PICK t \in 1 .. i - 1 : journal[t].id = journal[i].reverses
                BY <3>1, <2>1 DEF IndInv, ReversedOnce
            <4>2. t \in 1 .. n /\ journal'[t] = journal[t] /\ journal'[i] = journal[i]
                BY <2>1, <2>3
            <4>3. /\ journal[i].reverses \in DOMAIN reversed
                  /\ reversed[journal[i].reverses] = journal[i].id
                BY <3>1, <2>1 DEF IndInv, ReversedOnce
            <4>4. QED BY <4>1, <4>2, <4>3, <2>5
        <3>2. ASSUME tx.reverses # None
              PROVE  /\ \E t \in 1 .. n : journal'[t].id = tx.reverses
                     /\ tx.reverses \in DOMAIN reversed'
                     /\ reversed'[tx.reverses] = tx.id
            <4>1. /\ applied[tx.reverses] \in 1 .. n
                  /\ journal[applied[tx.reverses]].id = tx.reverses
                BY <3>2, <2>1, <2>2 DEF IndInv, TypeOK, AppliedOnce
            <4>2. QED BY <4>1, <3>2, <2>3, <2>5
        <3>3. \A i \in DOMAIN journal' : journal'[i].reverses # None =>
                /\ \E t \in 1 .. i - 1 : journal'[t].id = journal'[i].reverses
                /\ journal'[i].reverses \in DOMAIN reversed'
                /\ reversed'[journal'[i].reverses] = journal'[i].id
            <4> TAKE i \in DOMAIN journal'
            <4>1. CASE i \in 1 .. n
                BY <4>1, <3>1, <2>3
            <4>2. CASE i = n + 1
                <5>1. (n + 1) - 1 = n
                    BY <2>1
                <5>2. QED BY <4>2, <5>1, <3>2, <2>3
            <4>3. QED BY <4>1, <4>2, <2>1, <2>3
        <3>4. \A i \in 1 .. n : journal[i].reverses # None => journal[i].reverses # tx.reverses
            BY <2>1, <2>2 DEF IndInv, ReversedOnce
        <3>5. ASSUME NEW i \in DOMAIN journal', NEW j \in DOMAIN journal',
                     journal'[i].reverses = journal'[j].reverses, journal'[i].reverses # None
              PROVE  i = j
            <4>1. CASE i \in 1 .. n /\ j \in 1 .. n
                BY <3>5, <4>1, <2>1, <2>3 DEF IndInv, ReversedOnce
            <4>2. CASE i = n + 1 \/ j = n + 1
                BY <3>4, <3>5, <4>2, <2>1, <2>3
            <4>3. QED BY <4>1, <4>2, <2>1, <2>3
        <3>6. QED BY <3>3, <3>5 DEF ReversedOnce
    <2>9. QED BY <2>6, <2>7, <2>8 DEF IndInv
<1>4. QED BY <1>1, <1>2, <1>3 DEF Post

LEMMA InitInv == Init => IndInv
<1> SUFFICES ASSUME Init PROVE IndInv
    OBVIOUS
<1>1. /\ journal \in Seq(Transaction) /\ DOMAIN journal = {}
      /\ DOMAIN applied = {} /\ DOMAIN reversed = {} /\ balances \in [Keys -> Units]
    BY WidthAssumption DEF Init, EmptyMap, Units, MinUnits
<1>2. QED BY <1>1 DEF Init, IndInv, TypeOK, AppliedOnce, ReversedOnce

LEMMA NextInv == IndInv /\ [Next]_vars => IndInv'
<1> SUFFICES ASSUME IndInv, [Next]_vars PROVE IndInv'
    OBVIOUS
<1>1. ASSUME NEW id \in Ids, NEW entries \in EntryLists, NEW target \in Ids \cup {None},
             Submit(id, entries, target)
      PROVE  IndInv'
    BY <1>1, SubmittedType, PostInv DEF Submit
<1>2. ASSUME NEW id \in Ids, ReverseUnknown(id) PROVE IndInv'
    BY <1>2 DEF ReverseUnknown, IndInv, TypeOK, AppliedOnce, ReversedOnce, Errors
<1>3. ASSUME NEW id \in Ids, ReversePanics(id) PROVE IndInv'
    BY <1>3 DEF ReversePanics, IndInv, TypeOK, AppliedOnce, ReversedOnce, Errors
<1>4. ASSUME NEW id \in Ids, NEW rid \in Ids, ReversePosts(id, rid) PROVE IndInv'
    BY <1>4, ReversalType, PostInv DEF ReversePosts, IndInv
<1>5. CASE UNCHANGED vars
    BY <1>5 DEF vars, IndInv, TypeOK, AppliedOnce, ReversedOnce
<1>6. QED BY <1>1, <1>2, <1>3, <1>4, <1>5 DEF Next

\* Every reachable ledger is well typed and both indexes point into the journal.
THEOREM TypeCorrect == Spec => []TypeOK
<1>1. IndInv => TypeOK
    BY DEF IndInv
<1>2. QED BY <1>1, InitInv, NextInv, PTL DEF Spec

\* No key enters the journal twice, however often its transaction is submitted.
THEOREM Idempotence == Spec => []AppliedOnce
<1>1. IndInv => AppliedOnce
    BY DEF IndInv
<1>2. QED BY <1>1, InitInv, NextInv, PTL DEF Spec

\* No transaction is reversed twice, nor before it is in the book.
THEOREM SingleReversal == Spec => []ReversedOnce
<1>1. IndInv => ReversedOnce
    BY DEF IndInv
<1>2. QED BY <1>1, InitInv, NextInv, PTL DEF Spec

------------------------------------------------------------------------------
(* The balances and the reversals *)

\* What passes check_balanced twice, once with every sign turned, has no amount that
\* cannot be turned: a wrapped amount would make the turned total too small.
LEMMA NothingWrapped ==
    ASSUME NEW entries \in Seq(Entry), SumsToZero(entries), SumsToZero(NegateAll(entries))
    PROVE  \A i \in DOMAIN entries : NegateAll(entries)[i].units = - entries[i].units
<1> DEFINE turned == NegateAll(entries)
           n == Len(entries)
<1>1. turned \in Seq(Entry) /\ Len(turned) = n /\ n \in Nat /\ DOMAIN entries = 1 .. n
    BY NegateAllType DEF NegateAll
<1>2. \A i \in 1 .. n : /\ entries[i] \in Entry
                        /\ turned[i] = [entries[i] EXCEPT !.units = Negate(@)]
    BY <1>1 DEF NegateAll
<1>3. ASSUME NEW i \in 1 .. n
      PROVE  /\ turned[i].currency = entries[i].currency
             /\ entries[i].units \in Int /\ turned[i].units \in Int
             /\ entries[i].units + turned[i].units <= 0
             /\ entries[i].units + turned[i].units = 0 => turned[i].units = - entries[i].units
             /\ entries[i].currency \in Currencies
    <2>1. entries[i].units \in Units /\ entries[i].currency \in Currencies
        BY <1>2 DEF Entry
    <2>2. turned[i].currency = entries[i].currency /\ turned[i].units = Negate(entries[i].units)
        BY <1>2 DEF Entry
    <2>3. QED BY <2>1, <2>2, WidthAssumption DEF Negate, Units, MinUnits
<1> HIDE DEF turned
<1>4. ASSUME NEW c \in Currencies
      PROVE  \A i \in Carrying(entries, n, c) : entries[i].units + turned[i].units = 0
    <2> DEFINE S == Carrying(entries, n, c)
               both == [i \in S |-> entries[i].units + turned[i].units]
               none == [i \in S |-> 0]
    <2>1. S \subseteq 1 .. n /\ Carrying(turned, n, c) = S
        BY <1>3 DEF Carrying
    <2>2. /\ SumFunctionOnSet(Amounts(entries), S) = 0
          /\ SumFunctionOnSet(Amounts(turned), S) = 0
        BY <1>1, <2>1 DEF SumsToZero, CurrencyTotal, Carrying, turned
    <2>3. /\ IsFiniteSet(S)
          /\ \A i \in S : /\ Amounts(entries)[i] = entries[i].units /\ Amounts(entries)[i] \in Int
                          /\ Amounts(turned)[i] = turned[i].units /\ Amounts(turned)[i] \in Int
        BY <1>1, <2>1, EntriesAdd
    <2>4. \A i \in S : /\ both[i] = Amounts(entries)[i] + Amounts(turned)[i]
                       /\ both[i] \in Int /\ both[i] <= none[i] /\ none[i] = 0
        BY <1>3, <2>1, <2>3
    <2> HIDE DEF S, both, none
    <2>5. SumFunctionOnSet(both, S) = SumFunctionOnSet(Amounts(entries), S) + SumFunctionOnSet(Amounts(turned), S)
        BY <2>3, <2>4, SumPlus
    <2>6. SumFunctionOnSet(none, S) = 0
        BY <2>3, <2>4, SumZero
    <2>7. SumFunctionOnSet(none, S) <= SumFunctionOnSet(both, S)
        BY <2>2, <2>5, <2>6
    <2>8. IsFiniteSet(S) /\ \A i \in S : both[i] \in Int /\ none[i] \in Int /\ both[i] <= none[i]
        BY <2>3, <2>4
    <2>9. \A i \in S : both[i] = none[i]
        BY <2>7, <2>8, SumTight
    <2>10. \A i \in S : Amounts(entries)[i] + Amounts(turned)[i] = 0
        BY <2>4, <2>9
    <2>11. QED BY <2>3, <2>10 DEF S
<1>5. \A i \in 1 .. n : i \in Carrying(entries, n, entries[i].currency)
    BY DEF Carrying
<1>6. QED BY <1>1, <1>3, <1>4, <1>5 DEF turned

\* Then a reversal moves on every account what its target moved, with the sign turned.
LEMMA TurnedCancels ==
    ASSUME NEW entries \in Seq(Entry), SumsToZero(entries), SumsToZero(NegateAll(entries)), NEW k
    PROVE  Moved(entries, Len(entries), k) + Moved(NegateAll(entries), Len(NegateAll(entries)), k) = 0
<1> DEFINE turned == NegateAll(entries)
           n == Len(entries)
           S == Touching(entries, n, k)
           none == [i \in S |-> 0]
<1>1. turned \in Seq(Entry) /\ Len(turned) = n /\ DOMAIN entries = 1 .. n
    BY NegateAllType DEF NegateAll
<1>2. \A i \in 1 .. n : KeyOf(turned[i]) = KeyOf(entries[i])
    <2>1. \A i \in 1 .. n : entries[i] \in Entry /\ turned[i] = [entries[i] EXCEPT !.units = Negate(@)]
        BY <1>1 DEF NegateAll
    <2>2. QED BY <2>1 DEF KeyOf, Entry
<1>3. \A i \in 1 .. n : entries[i].units \in Int /\ turned[i].units = - entries[i].units
    BY <1>1, NothingWrapped, EntryType
<1> HIDE DEF turned
<1>4. S \subseteq 1 .. n /\ Touching(turned, n, k) = S
    BY <1>2 DEF Touching
<1>5. /\ IsFiniteSet(S)
      /\ \A i \in S : /\ Amounts(entries)[i] = entries[i].units /\ Amounts(entries)[i] \in Int
                      /\ Amounts(turned)[i] = turned[i].units /\ Amounts(turned)[i] \in Int
    BY <1>1, <1>4, EntriesAdd
<1>6. \A i \in S : none[i] = Amounts(entries)[i] + Amounts(turned)[i] /\ none[i] = 0
    BY <1>3, <1>4, <1>5
<1>7. /\ Moved(entries, n, k) = SumFunctionOnSet(Amounts(entries), S)
      /\ Moved(turned, n, k) = SumFunctionOnSet(Amounts(turned), S)
    BY <1>4 DEF Moved, Touching
<1> HIDE DEF S, none
<1>8. SumFunctionOnSet(none, S) = SumFunctionOnSet(Amounts(entries), S) + SumFunctionOnSet(Amounts(turned), S)
    BY <1>5, <1>6, SumPlus
<1>9. SumFunctionOnSet(none, S) = 0
    BY <1>5, <1>6, SumZero
<1>10. QED BY <1>1, <1>7, <1>8, <1>9 DEF turned

ReplayOf(book, key) == SumFunction([i \in DOMAIN book |-> Moved(book[i].entries, Len(book[i].entries), key)])

\* replay of a longer journal adds what the last transaction moved.
LEMMA ReplayGrows ==
    ASSUME NEW book \in Seq(Transaction), NEW tx \in Transaction, NEW key
    PROVE  /\ ReplayOf(book, key) \in Int
           /\ ReplayOf(Append(book, tx), key) = ReplayOf(book, key) + Moved(tx.entries, Len(tx.entries), key)
<1> DEFINE longer == Append(book, tx)
           n == Len(book)
           before == [i \in DOMAIN book |-> Moved(book[i].entries, Len(book[i].entries), key)]
           after == [i \in DOMAIN longer |-> Moved(longer[i].entries, Len(longer[i].entries), key)]
<1>1. /\ n \in Nat /\ DOMAIN book = 1 .. n /\ DOMAIN longer = (1 .. n) \cup {n + 1} /\ n + 1 \notin 1 .. n
      /\ \A i \in 1 .. n : longer[i] = book[i] /\ book[i] \in Transaction
      /\ longer[n + 1] = tx
    OBVIOUS
<1>2. \A t \in Transaction : t.entries \in Seq(Entry) /\ Moved(t.entries, Len(t.entries), key) \in Int
    <2>1. ASSUME NEW t \in Transaction
          PROVE  t.entries \in Seq(Entry) /\ Moved(t.entries, Len(t.entries), key) \in Int
        <3>1. t.entries \in Seq(Entry)
            BY DEF Transaction
        <3>2. Len(t.entries) \in 0 .. Len(t.entries)
            BY <3>1
        <3>3. QED BY <3>1, <3>2, TotalsType
    <2>2. QED BY <2>1
<1>3. /\ \A i \in 1 .. n : before[i] \in Int /\ after[i] = before[i]
      /\ after[n + 1] = Moved(tx.entries, Len(tx.entries), key) /\ after[n + 1] \in Int
      /\ DOMAIN before = 1 .. n /\ DOMAIN after = (1 .. n) \cup {n + 1}
    BY <1>1, <1>2
<1>4. ReplayOf(book, key) = SumFunctionOnSet(before, 1 .. n)
    BY <1>1 DEF ReplayOf, SumFunction
<1>5. ReplayOf(longer, key) = SumFunctionOnSet(after, (1 .. n) \cup {n + 1})
    BY <1>1 DEF ReplayOf, SumFunction
<1> HIDE DEF longer, before, after
<1>6. IsFiniteSet(1 .. n)
    BY <1>1, FS_Interval
<1>7. SumFunctionOnSet(after, (1 .. n) \cup {n + 1}) = after[n + 1] + SumFunctionOnSet(after, 1 .. n)
    BY <1>1, <1>3, <1>6, SumAdd
<1>8. SumFunctionOnSet(after, 1 .. n) = SumFunctionOnSet(before, 1 .. n) /\ SumFunctionOnSet(before, 1 .. n) \in Int
    BY <1>3, <1>6, SumSame, SumType
<1>9. QED BY <1>3, <1>4, <1>5, <1>7, <1>8 DEF longer

\* What the accounts of a currency hold together changes by the total of the entries.
LEMMA AccountsTogether ==
    ASSUME TypeOK, NEW entries \in Seq(Entry), NEW c \in Currencies
    PROVE  SumFunction([a \in Accounts |-> BalancesAfter(entries, Len(entries))[<<a, c>>]])
               = SumFunction([a \in Accounts |-> balances[<<a, c>>]]) + CurrencyTotal(entries, Len(entries), c)
<1> DEFINE n == Len(entries)
           held == [a \in Accounts |-> balances[<<a, c>>]]
           gained == [a \in Accounts |-> Moved(entries, n, <<a, c>>)]
           holds == [a \in Accounts |-> BalancesAfter(entries, n)[<<a, c>>]]
<1>1. n \in 0 .. n
    OBVIOUS
<1>2. \A a \in Accounts : held[a] \in Int /\ gained[a] \in Int /\ holds[a] = held[a] + gained[a]
    <2>1. \A a \in Accounts : <<a, c>> \in Keys
        BY DEF Keys
    <2>2. \A k \in Keys : balances[k] \in Int
        BY WidthAssumption DEF TypeOK, Units, MinUnits
    <2>3. QED BY <1>1, <2>1, <2>2, TotalsType DEF BalancesAfter
<1>3. SumFunctionOnSet(gained, Accounts) = CurrencyTotal(entries, n, c)
    BY <1>1, AccountsGain
<1>4. DOMAIN held = Accounts /\ DOMAIN holds = Accounts
    OBVIOUS
<1> HIDE DEF held, gained, holds
<1>5. SumFunctionOnSet(holds, Accounts) = SumFunctionOnSet(held, Accounts) + SumFunctionOnSet(gained, Accounts)
    BY <1>2, AccountsAssumption, SumPlus
<1>6. QED BY <1>3, <1>4, <1>5 DEF SumFunction, held, holds

Balanced == \A i \in DOMAIN journal : SumsToZero(journal[i].entries)

ReversalsName == \A j \in DOMAIN journal : journal[j].description = "reversal" => journal[j].reverses # None

BookInv == IndInv /\ Balanced /\ ReversalsName /\ ReversalsUndo /\ CacheFollowsJournal /\ DebitsEqualCredits

\* What only reverse may build.
Built(tx) ==
    tx.description = "reversal" =>
        /\ tx.reverses \in DOMAIN applied
        /\ tx.entries = NegateAll(journal[applied[tx.reverses]].entries)

\* A transaction that is applied keeps the books.
LEMMA ApplyKeepsBooks ==
    ASSUME BookInv, NEW tx \in Transaction, Built(tx), Apply(tx)
    PROVE  Balanced' /\ ReversalsName' /\ ReversalsUndo' /\ CacheFollowsJournal' /\ DebitsEqualCredits'
<1> DEFINE n == Len(journal)
           m == Len(tx.entries)
<1>1. /\ n \in Nat /\ DOMAIN journal = 1 .. n /\ DOMAIN journal' = (1 .. n) \cup {n + 1}
      /\ \A i \in 1 .. n : journal'[i] = journal[i] /\ journal[i] \in Transaction
      /\ journal'[n + 1] = tx
      /\ journal \in Seq(Transaction) /\ journal' = Append(journal, tx)
    BY DEF Apply, BookInv, IndInv, TypeOK
<1>2. tx.entries \in Seq(Entry) /\ SumsToZero(tx.entries) /\ tx.id \notin DOMAIN applied
    BY VerdictOk DEF Apply, Transaction
<1>3. \A id \in DOMAIN applied :
        /\ id \in DOMAIN applied' /\ applied'[id] = applied[id]
        /\ applied[id] \in 1 .. n
    BY <1>1, <1>2 DEF Apply, Insert, BookInv, IndInv, TypeOK
<1>4. balances' = BalancesAfter(tx.entries, m) /\ torn' = torn
    BY DEF Apply
<1>5. Balanced'
    BY <1>1, <1>2 DEF BookInv, Balanced
<1>6. ReversalsName'
    <2>1. None \notin DOMAIN applied
        BY LedgerAssumption DEF BookInv, IndInv, TypeOK
    <2>2. tx.description = "reversal" => tx.reverses # None
        BY <2>1 DEF Built
    <2>3. QED BY <1>1, <2>2 DEF BookInv, ReversalsName
<1>7. ReversalsUndo'
    <2>1. ASSUME NEW j \in 1 .. n, journal[j].description = "reversal"
          PROVE  /\ journal'[j] = journal[j]
                 /\ journal'[applied'[journal[j].reverses]] = journal[applied[journal[j].reverses]]
        <3>1. journal[j].reverses # None
            BY <1>1, <2>1 DEF BookInv, ReversalsName
        <3>2. PICK t \in 1 .. j - 1 : journal[t].id = journal[j].reverses
            BY <1>1, <3>1 DEF BookInv, IndInv, ReversedOnce
        <3>3. t \in 1 .. n
            BY <1>1
        <3>4. journal[j].reverses \in DOMAIN applied
            BY <1>1, <3>2, <3>3 DEF BookInv, IndInv, AppliedOnce
        <3>5. QED BY <1>1, <1>3, <3>4
    <2>2. ASSUME tx.description = "reversal"
          PROVE  LET target == journal'[applied'[tx.reverses]].entries
                 IN  \A k \in Keys : Moved(target, Len(target), k) + Moved(tx.entries, m, k) = 0
        <3> DEFINE target == journal[applied[tx.reverses]].entries
        <3>1. tx.reverses \in DOMAIN applied /\ tx.entries = NegateAll(target)
            BY <2>2 DEF Built
        <3>2. applied[tx.reverses] \in 1 .. n /\ applied'[tx.reverses] = applied[tx.reverses]
            BY <1>3, <3>1
        <3>3. target \in Seq(Entry) /\ SumsToZero(target)
            BY <1>1, <3>2 DEF BookInv, Balanced, Transaction
        <3>4. journal'[applied'[tx.reverses]].entries = target
            BY <1>1, <3>2
        <3> HIDE DEF target
        <3>5. \A k \in Keys : Moved(target, Len(target), k) + Moved(tx.entries, m, k) = 0
            BY <1>2, <3>1, <3>3, TurnedCancels
        <3>6. QED BY <3>4, <3>5
    <2>3. ASSUME NEW j \in DOMAIN journal', journal'[j].description = "reversal"
          PROVE  LET target == journal'[applied'[journal'[j].reverses]].entries
                 IN  \A k \in Keys :
                        Moved(target, Len(target), k) + Moved(journal'[j].entries, Len(journal'[j].entries), k) = 0
        <3>1. CASE j \in 1 .. n
            <4>1. journal[j].description = "reversal"
                BY <1>1, <2>3, <3>1
            <4>2. LET target == journal[applied[journal[j].reverses]].entries
                  IN  \A k \in Keys :
                        Moved(target, Len(target), k) + Moved(journal[j].entries, Len(journal[j].entries), k) = 0
                BY <1>1, <3>1, <4>1 DEF BookInv, ReversalsUndo
            <4>3. QED BY <2>1, <3>1, <4>1, <4>2
        <3>2. CASE j = n + 1
            BY <1>1, <2>2, <2>3, <3>2
        <3>3. QED BY <1>1, <3>1, <3>2
    <2>4. QED BY <2>3 DEF ReversalsUndo
<1>8. CacheFollowsJournal'
    <2>1. SUFFICES ASSUME ~ torn, NEW k \in Keys
                   PROVE  balances'[k] = ReplayOf(journal', k) /\ balances'[k] \in Units
        BY <1>4 DEF CacheFollowsJournal, Replayed, ReplayOf
    <2>2. balances[k] = ReplayOf(journal, k)
        BY <2>1 DEF BookInv, CacheFollowsJournal, Replayed, ReplayOf
    <2>3. ReplayOf(journal', k) = ReplayOf(journal, k) + Moved(tx.entries, m, k)
        BY <1>1, ReplayGrows
    <2>4. balances'[k] = balances[k] + Moved(tx.entries, m, k)
        BY <1>4 DEF BalancesAfter
    <2>5. balances'[k] \in Units
        BY WalkFits DEF BookInv, IndInv
    <2>6. QED BY <2>2, <2>3, <2>4, <2>5
<1>9. DebitsEqualCredits'
    <2>1. SUFFICES ASSUME ~ torn, NEW c \in Currencies
                   PROVE  SumFunction([a \in Accounts |-> balances'[<<a, c>>]]) = 0
        BY <1>4 DEF DebitsEqualCredits, IsBalanced
    <2>2. SumFunction([a \in Accounts |-> balances[<<a, c>>]]) = 0
        BY <2>1 DEF BookInv, DebitsEqualCredits, IsBalanced
    <2>3. CurrencyTotal(tx.entries, m, c) = 0
        BY <1>2 DEF SumsToZero
    <2>4. SumFunction([a \in Accounts |-> BalancesAfter(tx.entries, m)[<<a, c>>]]) = 0 + 0
        BY <1>2, <2>2, <2>3, AccountsTogether DEF BookInv, IndInv
    <2>5. QED BY <1>4, <2>4
<1>10. QED BY <1>5, <1>6, <1>7, <1>8, <1>9

LEMMA PostBooks ==
    ASSUME BookInv, NEW tx \in Transaction, Built(tx), Post(tx)
    PROVE  BookInv'
<1>1. IndInv'
    BY PostInv DEF BookInv
<1>2. CASE Reject(tx)
    BY <1>1, <1>2 DEF Reject, BookInv, Balanced, ReversalsName, ReversalsUndo, CacheFollowsJournal, Replayed,
                      DebitsEqualCredits, IsBalanced
<1>3. CASE Tear(tx)
    <2>1. UNCHANGED <<journal, applied>> /\ (~ torn' => ~ torn /\ balances' = balances)
        BY <1>3 DEF Tear
    <2>2. QED BY <1>1, <2>1 DEF BookInv, Balanced, ReversalsName, ReversalsUndo, CacheFollowsJournal, Replayed,
                                DebitsEqualCredits, IsBalanced
<1>4. CASE Apply(tx)
    BY <1>1, <1>4, ApplyKeepsBooks DEF BookInv
<1>5. QED BY <1>2, <1>3, <1>4 DEF Post

LEMMA InitBooks == Init => BookInv
<1> SUFFICES ASSUME Init PROVE BookInv
    OBVIOUS
<1>1. IndInv /\ DOMAIN journal = {}
    BY InitInv DEF Init
<1>2. Balanced /\ ReversalsName /\ ReversalsUndo
    BY <1>1 DEF Balanced, ReversalsName, ReversalsUndo
<1>3. CacheFollowsJournal
    <2>1. SUFFICES ASSUME NEW k \in Keys PROVE balances[k] = Replayed(k) /\ balances[k] \in Units
        BY DEF CacheFollowsJournal
    <2>2. Replayed(k) = SumFunctionOnSet([i \in DOMAIN journal |-> Moved(journal[i].entries, Len(journal[i].entries), k)], {})
        BY <1>1 DEF Replayed, SumFunction
    <2>3. Replayed(k) = 0
        BY <2>2, SumEmpty
    <2>4. QED BY <1>1, <2>3 DEF Init, IndInv, TypeOK
<1>4. DebitsEqualCredits
    <2>1. SUFFICES ASSUME NEW c \in Currencies PROVE SumFunction([a \in Accounts |-> balances[<<a, c>>]]) = 0
        BY DEF DebitsEqualCredits, IsBalanced
    <2> DEFINE held == [a \in Accounts |-> balances[<<a, c>>]]
    <2>2. DOMAIN held = Accounts /\ \A a \in Accounts : held[a] = 0
        BY DEF Init, Keys
    <2> HIDE DEF held
    <2>3. SumFunction(held) = 0
        BY <2>2, AccountsAssumption, SumZero DEF SumFunction
    <2>4. QED BY <2>3 DEF held
<1>5. QED BY <1>1, <1>2, <1>3, <1>4 DEF BookInv

LEMMA NextBooks == BookInv /\ [Next]_vars => BookInv'
<1> SUFFICES ASSUME BookInv, [Next]_vars PROVE BookInv'
    OBVIOUS
<1>1. ASSUME NEW id \in Ids, NEW entries \in EntryLists, NEW target \in Ids \cup {None},
             Submit(id, entries, target)
      PROVE  BookInv'
    <2> DEFINE tx == [id |-> id, description |-> "caller", entries |-> entries, reverses |-> target]
    <2>1. tx \in Transaction /\ Built(tx)
        BY SubmittedType DEF Built
    <2>2. Post(tx)
        BY <1>1 DEF Submit
    <2>3. QED BY <2>1, <2>2, PostBooks
<1>2. ASSUME NEW id \in Ids, NEW rid \in Ids, ReversePosts(id, rid)
      PROVE  BookInv'
    <2> DEFINE tx == ReversalOf(id, rid)
    <2>1. id \in DOMAIN applied /\ Post(tx)
        BY <1>2 DEF ReversePosts
    <2>2. tx \in Transaction /\ Built(tx)
        BY <2>1, ReversalType DEF Built, ReversalOf, BookInv, IndInv
    <2> HIDE DEF tx
    <2>3. QED BY <2>1, <2>2, PostBooks
<1>3. CASE UNCHANGED <<journal, balances, applied, reversed, torn>>
    <2>1. IndInv'
        BY NextInv DEF BookInv
    <2>2. QED BY <1>3, <2>1 DEF BookInv, Balanced, ReversalsName, ReversalsUndo, CacheFollowsJournal, Replayed,
                                DebitsEqualCredits, IsBalanced
<1>4. QED BY <1>1, <1>2, <1>3 DEF Next, ReverseUnknown, ReversePanics, vars

\* As long as no walk was cut short every balance is what replay of the journal gives, and
\* no balance, replayed or kept, ever leaves the width (Ledger::post, Ledger::replay).
THEOREM CacheIsReplay == Spec => []CacheFollowsJournal
<1>1. BookInv => CacheFollowsJournal
    BY DEF BookInv
<1>2. QED BY <1>1, InitBooks, NextBooks, PTL DEF Spec

\* Double entry: whatever is posted and reversed, over all accounts every currency adds
\* up to zero unless a walk was cut short (Ledger::is_balanced).
THEOREM DoubleEntry == Spec => []DebitsEqualCredits
<1>1. BookInv => DebitsEqualCredits
    BY DEF BookInv
<1>2. QED BY <1>1, InitBooks, NextBooks, PTL DEF Spec

\* A reversal in the journal undoes its target on every account, for every width: one in
\* which the smallest amount wrapped would not balance and is never recorded.
THEOREM ReversalsAreExact == Spec => []ReversalsUndo
<1>1. BookInv => ReversalsUndo
    BY DEF BookInv
<1>2. QED BY <1>1, InitBooks, NextBooks, PTL DEF Spec

------------------------------------------------------------------------------
(* The abstract book *)

\* A post that passes the checks and is applied is a recording of the abstract book;
\* one that is rejected or torn leaves the history as it was.
LEMMA PostRefines ==
    ASSUME IndInv, NEW tx \in Transaction, Post(tx)
    PROVE  History!Next \/ UNCHANGED journal
<1>1. CASE Reject(tx) \/ Tear(tx)
    BY <1>1 DEF Reject, Tear
<1>2. CASE Apply(tx)
    <2>1. /\ journal' = Append(journal, tx)
          /\ Len(journal') = Len(journal) + 1
          /\ journal'[Len(journal')] = tx
        BY <1>2 DEF Apply, IndInv, TypeOK
    <2>2. tx.entries # << >> /\ SumsToZero(tx.entries)
        BY <1>2, VerdictOk DEF Apply
    <2>3. ~ History!Recorded(tx.id)
        BY <1>2, VerdictOk DEF Apply, IndInv, AppliedOnce, History!Recorded
    <2>4. tx.reverses # None => History!Recorded(tx.reverses) /\ ~ History!Reversed(tx.reverses)
        BY <1>2, VerdictOk
        DEF Apply, IndInv, TypeOK, AppliedOnce, ReversedOnce, History!Recorded, History!Reversed
    <2>5. History!Record(tx)
        BY <2>1, <2>2, <2>3, <2>4 DEF History!Record
    <2>6. QED BY <2>1, <2>5 DEF History!Next
<1>3. QED BY <1>1, <1>2 DEF Post

\* The ledger implements the append-only balanced book: the cache, the indexes and
\* even a torn walk are invisible in its history.
THEOREM Refinement == Spec => History!Spec
<1>1. Init => History!Init
    BY DEF Init, History!Init
<1>2. IndInv /\ [Next]_vars => [History!Next]_journal
    <2> SUFFICES ASSUME IndInv, [Next]_vars PROVE History!Next \/ UNCHANGED journal
        OBVIOUS
    <2>1. ASSUME NEW id \in Ids, NEW entries \in EntryLists, NEW target \in Ids \cup {None},
                 Submit(id, entries, target)
          PROVE  History!Next \/ UNCHANGED journal
        BY <2>1, SubmittedType, PostRefines DEF Submit
    <2>2. ASSUME NEW id \in Ids, ReverseUnknown(id) \/ ReversePanics(id)
          PROVE  UNCHANGED journal
        BY <2>2 DEF ReverseUnknown, ReversePanics
    <2>3. ASSUME NEW id \in Ids, NEW rid \in Ids, ReversePosts(id, rid)
          PROVE  History!Next \/ UNCHANGED journal
        BY <2>3, ReversalType, PostRefines DEF ReversePosts, IndInv
    <2>4. QED BY <2>1, <2>2, <2>3 DEF Next, vars
<1>3. QED BY <1>1, <1>2, InitInv, NextInv, PTL DEF Spec, History!Spec

\* The same, as the property the model checker is given.
THEOREM ImplementsTheBook == Spec => ImplementsBook
BY Refinement DEF ImplementsBook
==============================================================================
