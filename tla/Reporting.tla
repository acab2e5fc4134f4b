------------------------------ MODULE Reporting ------------------------------
(***************************************************************************)
(* CM-12, crates/sandbox-markets/src/cases/reporting.rs: the versions of a *)
(* regulatory report, each with the digest of the one before.              *)
(*                                                                         *)
(* A digest stands for what it absorbs: identifier, version and sections.  *)
(* Two different contents are taken to have different digests.             *)
(***************************************************************************)
EXTENDS Integers, SequencesExt, Functions

CONSTANTS
    FirstSections,  \* the sections of the first version
    NewSections,    \* those a correction may add
    Figures,        \* the amounts a section may be given
    Operations,     \* identifiers of operations
    MaxVersions

VARIABLES
    versions,    \* the list given to verify_chain, in order
    known        \* ghost: each version as it was when the next one was issued

reportVars == <<versions, known>>

NoDigest == <<>>

\* Report.digest
Digest(r) == <<r.version, r.sections>>

CurrentSchema == 2

Init ==
    /\ versions = <<[version |-> 1, schema |-> CurrentSchema, previous |-> 0, previousDigest |-> NoDigest,
                     sections |-> FirstSections, declared |-> SumFunction(FirstSections),
                     operations |-> <<>>]>>
    /\ known = <<>>

\* correction_of: a missing section is inserted and the declared total follows.
CorrectionOf(last, section, figure) ==
    [last EXCEPT !.version = @ + 1,
                 !.previous = last.version,
                 !.previousDigest = Digest(last),
                 !.sections = [s \in DOMAIN @ \cup {section} |-> IF s = section THEN figure ELSE @[s]],
                 !.declared = @ + figure]

Correct(section, figure) ==
    /\ Len(versions) < MaxVersions
    /\ section \notin DOMAIN Last(versions).sections
    /\ versions' = Append(versions, CorrectionOf(Last(versions), section, figure))
    /\ known' = Append(known, Last(versions))

\* External: somebody changes a version that was already issued.
AlterSection(k, section, figure) ==
    /\ versions' = [versions EXCEPT ![k].sections[section] = figure]
    /\ UNCHANGED known

AlterOperations(k, operation) ==
    /\ versions[k].operations = <<>>
    /\ versions' = [versions EXCEPT ![k].operations = <<operation>>]
    /\ UNCHANGED known

Next ==
    \/ \E s \in NewSections, f \in Figures: Correct(s, f)
    \/ \E k \in DOMAIN versions:
        \/ \E s \in DOMAIN FirstSections, f \in Figures: AlterSection(k, s, f)
        \/ \E o \in Operations: AlterOperations(k, o)

Spec == Init /\ [][Next]_reportVars

-----------------------------------------------------------------------------
\* validate: the declared total, the operations counted twice, the schema.
Validate(r) ==
    {k \in {"unbalanced", "duplicated", "outdated-schema"}:
        \/ k = "unbalanced" /\ SumFunction(r.sections) # r.declared
        \/ k = "duplicated" /\ Cardinality(ToSet(r.operations)) < Len(r.operations)
        \/ k = "outdated-schema" /\ r.schema # CurrentSchema}

Linked(previous, current) ==
    current.previousDigest # NoDigest /\ current.previous = previous.version

Matches(previous, current) == current.previousDigest = Digest(previous)

\* verify_chain: each version but the first against the one before it.
VerifyChain(list) ==
    {IF Linked(list[k], list[k + 1]) THEN <<"history-altered", k>> ELSE <<"broken-chain", k + 1>>:
        k \in {j \in 1..(Len(list) - 1):
                ~Linked(list[j], list[j + 1]) \/ ~Matches(list[j], list[j + 1])}}

-----------------------------------------------------------------------------
TypeOK ==
    /\ Len(versions) = Len(known) + 1
    /\ \A k \in DOMAIN versions: versions[k].version = k

\* Verification points at exactly the versions whose sections are not those they had
\* when the next one was issued: no change of a section goes unnoticed, none is
\* invented, and undoing one heals the chain.  Of the rest of a version it says nothing:
\* lines 6-8, 36-37 and 114-116 promise that whoever changes anything of an issued version
\* breaks the link, and the code does not keep it (AlterOperations leaves no trace).
SectionAlterationsShow ==
    VerifyChain(versions) = {<<"history-altered", k>>:
        k \in {j \in DOMAIN known: versions[j].sections # known[j].sections}}

-----------------------------------------------------------------------------
(* The checks of the case's own report, in hundreds of millions. *)
ReportV1 ==
    [version |-> 1, schema |-> CurrentSchema, previous |-> 0, previousDigest |-> NoDigest,
     sections |-> [custody |-> 125, cash |-> 5], declared |-> 130, operations |-> <<"op1", "op2">>]

Scenarios ==
    LET v2 == CorrectionOf(ReportV1, "collateral", 1)
        Kinds(findings) == {f[1]: f \in findings}
    IN  /\ Validate(ReportV1) = {}
        /\ Validate([ReportV1 EXCEPT !.declared = 131]) = {"unbalanced"}
        /\ Validate([ReportV1 EXCEPT !.operations = Append(@, "op1")]) = {"duplicated"}
        /\ Validate([ReportV1 EXCEPT !.schema = 1]) = {"outdated-schema"}
        /\ VerifyChain(<<ReportV1, v2>>) = {}
        /\ Kinds(VerifyChain(<<[ReportV1 EXCEPT !.sections.custody = 90], v2>>)) = {"history-altered"}
        /\ Kinds(VerifyChain(<<ReportV1, [v2 EXCEPT !.previousDigest = NoDigest]>>)) = {"broken-chain"}
=============================================================================
