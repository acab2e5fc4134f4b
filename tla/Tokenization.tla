---------------------------- MODULE Tokenization ----------------------------
(***************************************************************************)
(* CM-08, crates/sandbox-markets/src/cases/tokenization.rs: units issued   *)
(* against a backing, transfers, and the comparison with the legal record. *)
(*                                                                         *)
(* The flags of a holder come with each call: an authority freezes and     *)
(* releases between calls.                                                 *)
(***************************************************************************)
EXTENDS Integers, FiniteSetsExt, Functions

CONSTANTS
    Holders,
    Qualified,     \* the holders that may receive a restricted instrument
    Restricted,    \* restricted_to_qualified
    Backing,
    UnitValue,
    Lots           \* the numbers of units issued or transferred at once

VARIABLES
    balances,   \* Registry.balances; a holder without entry has none
    issued,     \* Registry.issued
    frozen      \* the holders whose `frozen` flag is set

tokenVars == <<balances, issued, frozen>>

MaxUnits(backing, value) == IF value <= 0 THEN 0 ELSE backing \div value

Init ==
    /\ balances = [h \in Holders |-> 0]
    /\ issued = 0
    /\ frozen = {}

OverIssues(already, n, most) == already + n > most

Exceeds(n) == OverIssues(issued, n, MaxUnits(Backing, UnitValue))

Issue(to, n) ==
    /\ ~Exceeds(n)
    /\ issued' = issued + n
    /\ balances' = [balances EXCEPT ![to] = @ + n]
    /\ UNCHANGED frozen

TransferRestricted(restricted, fromFrozen, toQualified, held, n) ==
    fromFrozen \/ (restricted /\ ~toQualified) \/ held < n

Stops(from, to, n) ==
    TransferRestricted(Restricted, from \in frozen, to \in Qualified, balances[from], n)

Transfer(from, to, n) ==
    /\ ~Stops(from, to, n)
    /\ balances' = [[balances EXCEPT ![from] = @ - n] EXCEPT ![to] = @ + n]
    /\ UNCHANGED <<issued, frozen>>

\* A call that answers a finding leaves the registry as it was.
Refuse ==
    /\ \E from, to \in Holders, n \in Lots: Exceeds(n) \/ Stops(from, to, n)
    /\ UNCHANGED tokenVars

\* External: the authority freezes or releases.
Freeze(h) == frozen' = SymDiff(frozen, {h}) /\ UNCHANGED <<balances, issued>>

Next ==
    \/ \E to \in Holders, n \in Lots: Issue(to, n)
    \/ \E from, to \in Holders, n \in Lots: Transfer(from, to, n)
    \/ Refuse
    \/ \E h \in Holders: Freeze(h)

Spec == Init /\ [][Next]_tokenVars

-----------------------------------------------------------------------------
\* reconcile_with_legal: the owners whose digital units differ from the legal ones.
\* Only owners of the digital record are looked at.
Desyncs(digital, register) ==
    {h \in DOMAIN digital:
        digital[h] # (IF h \in DOMAIN register THEN register[h] ELSE 0)}

-----------------------------------------------------------------------------
TypeOK ==
    /\ balances \in [Holders -> Int]
    /\ issued \in Int
    /\ frozen \subseteq Holders

\* The units in circulation are the issued ones, never more than the backing gives,
\* and no holder is below zero, whatever is issued, transferred and frozen.
UnitsAreBacked ==
    /\ SumFunction(balances) = issued
    /\ issued <= MaxUnits(Backing, UnitValue)
    /\ \A h \in Holders: balances[h] >= 0

\* Units that are frozen do not leave their holder, and a transfer brings units only
\* to holders who may have them.
TransfersRespectRestrictions ==
    [][\A h \in Holders:
        /\ h \in frozen => balances'[h] >= balances[h]
        /\ Restricted /\ h \notin Qualified /\ issued' = issued => balances'[h] <= balances[h]]_balances

-----------------------------------------------------------------------------
(* The checks of the case's own report; the last of them is the first conjunct of
   UnitsAreBacked. *)
Scenarios ==
    LET most == MaxUnits(500000000, 100000)
    IN  /\ ~OverIssues(0, 5000, most)
        /\ OverIssues(5000, 1, most)
        /\ TransferRestricted(TRUE, FALSE, FALSE, 1000, 100)
        /\ TransferRestricted(FALSE, TRUE, TRUE, 1000, 10)
        /\ Desyncs([cli3 |-> 500], [cli7 |-> 500]) = {"cli3"}
        /\ ~TransferRestricted(FALSE, FALSE, TRUE, 1000, 400)
=============================================================================
