------------------------------- MODULE Ledger --------------------------------
(***************************************************************************)
(* The double-entry ledger of crates/sandbox-markets/src/ledger.rs: post    *)
(* and reverse, with the balance cache, the idempotency index and the       *)
(* reversal index they keep beside the journal.                             *)
(*                                                                         *)
(* post validates the whole transaction and only then walks its entries,    *)
(* updating one balance per entry.  The addition of an entry may overflow:  *)
(* `?` then leaves the walk, and what the earlier entries already wrote     *)
(* stays.  The ghost `torn` remembers that this has happened.               *)
(***************************************************************************)
EXTENDS Money

CONSTANTS Ids,          \* idempotency keys; each enters the journal once, so they bound it
          None,         \* Option::None
          EntryLists    \* the entry lists callers submit

ASSUME LedgerAssumption ==
    /\ None \notin Ids
    /\ EntryLists \subseteq Seq(Entry)

VARIABLES journal,      \* Vec<Transaction>, oldest first
          balances,     \* (account, currency) -> units; an absent key reads as zero
          applied,      \* id -> position in the journal
          reversed,     \* id of a reversed transaction -> id of its reversal
          result,       \* what the last call returned
          torn          \* ghost: some post failed in the middle of its walk

vars == <<journal, balances, applied, reversed, result, torn>>

Transaction ==
    [id : Ids, description : {"caller", "reversal"}, entries : Seq(Entry), reverses : Ids \cup {None}]

Errors == {"Empty", "Duplicate", "UnknownReversal", "AlreadyReversed", "Overflow", "Unbalanced", "Panic"}

EmptyMap == [k \in {} |-> None]

\* BTreeMap::insert
Insert(map, key, value) ==
    [x \in DOMAIN map \cup {key} |-> IF x = key THEN value ELSE map[x]]

Init ==
    /\ journal = << >>
    /\ balances = [k \in Keys |-> 0]
    /\ applied = EmptyMap
    /\ reversed = EmptyMap
    /\ result = "Ok"
    /\ torn = FALSE

------------------------------------------------------------------------------
(* post *)

\* Mutants: a check that was dropped, a total that mixes currencies, a balance
\* read once before the walk, an index taken after the push, a sign not flipped.
Unchecked(tx) == FALSE

UnbalancedAcrossCurrencies(tx) ==
    SumFunction(Amounts(tx.entries)) # 0

BalancesFromStaleRead(entries, n) ==
    [k \in Keys |->
        LET last == {i \in 1 .. n : KeyOf(entries[i]) = k}
        IN  IF last = {} THEN balances[k]
            ELSE balances[k] + entries[CHOOSE i \in last : \A j \in last : j <= i].units]

PositionAfterPush == Len(journal) + 2

SameSignReversal(id, rid) ==
    [id |-> rid, description |-> "reversal",
     entries |-> journal[applied[id]].entries, reverses |-> id]

AlreadyApplied(tx) == tx.id \in DOMAIN applied

TargetUnknown(tx) == tx.reverses # None /\ tx.reverses \notin DOMAIN applied

TargetReversed(tx) == tx.reverses # None /\ tx.reverses \in DOMAIN reversed

\* check_balanced: the running total of each currency is a checked sum as well.
TotalOverflows(tx) ==
    \E n \in 1 .. Len(tx.entries) :
        CurrencyTotal(tx.entries, n, tx.entries[n].currency) \notin Units

Unbalanced(tx) == ~ SumsToZero(tx.entries)

\* The answer of post before it writes anything, in the order of its early returns.
Verdict(tx) ==
    IF tx.entries = << >> THEN "Empty"
    ELSE IF AlreadyApplied(tx) THEN "Duplicate"
    ELSE IF TargetUnknown(tx) THEN "UnknownReversal"
    ELSE IF TargetReversed(tx) THEN "AlreadyReversed"
    ELSE IF TotalOverflows(tx) THEN "Overflow"
    ELSE IF Unbalanced(tx) THEN "Unbalanced"
    ELSE "Ok"

\* The entries at which the walk over the balances cannot add.
Blocked(entries) ==
    {n \in 1 .. Len(entries) :
        balances[KeyOf(entries[n])] + Moved(entries, n, KeyOf(entries[n])) \notin Units}

FirstBlocked(entries) == CHOOSE n \in Blocked(entries) : \A m \in Blocked(entries) : n <= m

\* The balances once the first n entries have been written.
BalancesAfter(entries, n) == [k \in Keys |-> balances[k] + Moved(entries, n, k)]

\* Where the transaction being applied will stand in the journal.
NextPosition == Len(journal) + 1

Reject(tx) ==
    /\ Verdict(tx) # "Ok"
    /\ result' = Verdict(tx)
    /\ UNCHANGED <<journal, balances, applied, reversed, torn>>

\* The walk completes: the indexes and the journal follow.
Apply(tx) ==
    /\ Verdict(tx) = "Ok"
    /\ Blocked(tx.entries) = {}
    /\ balances' = BalancesAfter(tx.entries, Len(tx.entries))
    /\ reversed' = IF tx.reverses = None THEN reversed ELSE Insert(reversed, tx.reverses, tx.id)
    /\ applied' = Insert(applied, tx.id, NextPosition)
    /\ journal' = Append(journal, tx)
    /\ result' = "Ok"
    /\ UNCHANGED torn

\* The walk stops at its first blocked entry; the ones before it stay written.
Tear(tx) ==
    /\ Verdict(tx) = "Ok"
    /\ Blocked(tx.entries) # {}
    /\ balances' = BalancesAfter(tx.entries, FirstBlocked(tx.entries) - 1)
    /\ torn' = (torn \/ balances' # balances)
    /\ result' = "Overflow"
    /\ UNCHANGED <<journal, applied, reversed>>

Post(tx) == Reject(tx) \/ Apply(tx) \/ Tear(tx)

------------------------------------------------------------------------------
(* reverse *)

ReversalOf(id, rid) ==
    [id |-> rid, description |-> "reversal",
     entries |-> NegateAll(journal[applied[id]].entries), reverses |-> id]

ReverseUnknown(id) ==
    /\ id \notin DOMAIN applied
    /\ result' = "UnknownReversal"
    /\ UNCHANGED <<journal, balances, applied, reversed, torn>>

\* A debug build checks the bare negation.
ReversePanics(id) ==
    /\ id \in DOMAIN applied
    /\ NegateOverflows(journal[applied[id]].entries)
    /\ result' = "Panic"
    /\ UNCHANGED <<journal, balances, applied, reversed, torn>>

ReversePosts(id, rid) ==
    /\ id \in DOMAIN applied
    /\ Post(ReversalOf(id, rid))

------------------------------------------------------------------------------
Submit(id, entries, target) ==
    Post([id |-> id, description |-> "caller", entries |-> entries, reverses |-> target])

Next ==
    \/ \E id \in Ids, entries \in EntryLists, target \in Ids \cup {None} : Submit(id, entries, target)
    \/ \E id \in Ids : ReverseUnknown(id) \/ ReversePanics(id)
    \/ \E id, rid \in Ids : ReversePosts(id, rid)

Spec == Init /\ [][Next]_vars

------------------------------------------------------------------------------
(* Properties *)

TypeOK ==
    /\ journal \in Seq(Transaction)
    /\ balances \in [Keys -> Units]
    /\ DOMAIN applied \subseteq Ids
    /\ \A id \in DOMAIN applied : applied[id] \in DOMAIN journal
    /\ DOMAIN reversed \subseteq Ids
    /\ \A id \in DOMAIN reversed : reversed[id] \in Ids
    /\ result \in Errors \cup {"Ok"}
    /\ torn \in BOOLEAN

\* A retried payment is charged once: the index the retry is checked against names
\* exactly the journal's keys, each at its position, so no key is there twice.
AppliedOnce ==
    /\ \A i \in DOMAIN journal : journal[i].id \in DOMAIN applied /\ applied[journal[i].id] = i
    /\ \A id \in DOMAIN applied : journal[applied[id]].id = id

\* Money is never returned twice: a transaction has at most one reversal in the
\* journal, recorded after it, whoever posted it, and `reversed` names that one.
ReversedOnce ==
    /\ \A i \in DOMAIN journal : journal[i].reverses # None =>
        /\ \E t \in 1 .. i - 1 : journal[t].id = journal[i].reverses
        /\ journal[i].reverses \in DOMAIN reversed
        /\ reversed[journal[i].reverses] = journal[i].id
    /\ \A i, j \in DOMAIN journal :
        journal[i].reverses = journal[j].reverses /\ journal[i].reverses # None => i = j

\* replay(): the balances the journal alone gives.
Replayed(key) ==
    SumFunction([i \in DOMAIN journal |-> Moved(journal[i].entries, Len(journal[i].entries), key)])

\* The balances are a cache of the journal (as long as no walk was cut short) and
\* so every one of them fits the width although replay's sums are unchecked here.
CacheFollowsJournal ==
    ~ torn => \A k \in Keys : balances[k] = Replayed(k) /\ balances[k] \in Units

\* is_balanced: over all the accounts each currency adds up to zero.
IsBalanced ==
    \A c \in Currencies : SumFunction([a \in Accounts |-> balances[<<a, c>>]]) = 0

\* Money that entered an account left another one, unless a walk was cut short.
DebitsEqualCredits == ~ torn => IsBalanced

\* A reversal built by reverse() undoes its target on every account, the wrapping
\* of the smallest amount included: a wrapped reversal never reaches the journal.
ReversalsUndo ==
    \A j \in DOMAIN journal : journal[j].description = "reversal" =>
        LET target == journal[applied[journal[j].reverses]].entries
        IN  \A k \in Keys :
                Moved(target, Len(target), k) + Moved(journal[j].entries, Len(journal[j].entries), k) = 0

\* Whatever happens to the cache, the history is that of an append-only balanced book.
History == INSTANCE Book WITH Balanced <- SumsToZero

ImplementsBook == History!Spec
==============================================================================
