-------------------------------- MODULE Book ---------------------------------
(***************************************************************************)
(* What a double-entry book promises (header of ledger.rs), with nothing of *)
(* how ledger.rs keeps it: no cached balances, no index, no arithmetic      *)
(* errors.  The only state is the history.                                  *)
(*                                                                         *)
(*   - a recorded transaction balances in every currency;                   *)
(*   - nothing is ever removed: an error is corrected by a reversal that    *)
(*     points at an earlier transaction;                                    *)
(*   - a key is recorded once, and a transaction is reversed once.          *)
(***************************************************************************)
EXTENDS Sequences, Integers

CONSTANTS Transaction,      \* records with fields id, entries, reverses (and others)
          None,             \* "this transaction reverses nothing"
          Balanced(_)       \* a list of entries adds up to zero in every currency

VARIABLE journal

Recorded(id) == \E i \in DOMAIN journal : journal[i].id = id

Reversed(id) == \E i \in DOMAIN journal : journal[i].reverses = id

Record(tx) ==
    /\ tx.entries # << >>
    /\ Balanced(tx.entries)
    /\ ~ Recorded(tx.id)
    /\ tx.reverses # None => Recorded(tx.reverses) /\ ~ Reversed(tx.reverses)
    /\ journal' = Append(journal, tx)

Init == journal = << >>

\* The transaction a step records is the one that ends the new journal.
Next ==
    /\ Len(journal') = Len(journal) + 1
    /\ journal'[Len(journal')] \in Transaction
    /\ Record(journal'[Len(journal')])

Spec == Init /\ [][Next]_journal
==============================================================================
