---------------------------- MODULE EvidenceChain -----------------------------
(***************************************************************************)
(* The chain of evidence files in evidence/runs                             *)
(* (crates/sandbox-core/src/evidence.rs): every `sandboxctl run` is a       *)
(* process that reads the digest of the last report from .chain, seals its  *)
(* own report with it, signs it with the key of this installation, which    *)
(* the first run creates (signing.rs), writes the report and then .chain.   *)
(* `evidence verify` sorts the reports by their timestamps and follows the  *)
(* links.                                                                  *)
(*                                                                         *)
(* A report is named by the position of its timestamp among all of them;    *)
(* its digest by the same number (SHA-256 does not collide), and so is the  *)
(* key it creates, if it does; 0 is the empty string and no key.            *)
(***************************************************************************)
EXTENDS Naturals, FiniteSets

CONSTANTS Writers,      \* processes that run `sandboxctl run`, one after another each
          MaxRuns       \* bound: reports

ASSUME ChainAssumption == MaxRuns \in Nat

VARIABLES clock,    \* the timestamps handed out so far
          files,    \* the reports in the directory
          chain,    \* what .chain holds
          key,      \* the file of the signing key
          writer,   \* what each process is doing
          lost,     \* ghost: reports that were in the directory and no longer are
          disturbed,  \* ghost: timestamps of the executions that something kept from linking
          astray    \* ghost: keys that were replaced, or made at the same time as another

chainVars == <<clock, files, chain, key, writer, lost, disturbed, astray>>

Digests == 0 .. MaxRuns

Report == [time : 1 .. MaxRuns, previous : Digests, digest : Digests, key : Digests, by : {"cli", "panel"}]

Resting == [pc |-> "rest", time |-> 0, previous |-> 0, key |-> 0]

ChainInit ==
    /\ clock = 0
    /\ files = {}
    /\ chain = 0
    /\ key = [is |-> "absent", of |-> 0]
    /\ writer = [w \in Writers |-> Resting]
    /\ lost = {}
    /\ disturbed = {}
    /\ astray = {}

------------------------------------------------------------------------------
UnderWay == {writer[v].time : v \in {u \in Writers : writer[u].pc # "rest"}}

\* Evidence::build takes the timestamp when the execution is over; whoever writes its
\* report at the same time is in its way, and it in theirs.
Builds(w) ==
    /\ writer[w].pc = "rest" /\ clock < MaxRuns
    /\ clock' = clock + 1
    /\ writer' = [writer EXCEPT ![w].pc = "read", ![w].time = clock + 1]
    /\ disturbed' = disturbed \cup UnderWay \cup {t \in {clock + 1} : UnderWay # {}}
    /\ UNCHANGED <<files, chain, key, lost, astray>>

\* Mutant: .chain is updated as soon as it is read.
ReservesChain(w) ==
    /\ writer[w].pc = "read"
    /\ writer' = [writer EXCEPT ![w].pc = "key", ![w].previous = chain]
    /\ chain' = writer[w].time
    /\ UNCHANGED <<clock, files, key, lost, disturbed, astray>>

\* read_chain; the seal and the signature that follow cover the link.
ReadsChain(w) ==
    /\ writer[w].pc = "read"
    /\ writer' = [writer EXCEPT ![w].pc = "key", ![w].previous = chain]
    /\ UNCHANGED <<clock, files, chain, key, lost, disturbed, astray>>

\* unwrap_or_default: a .chain that is there and cannot be read counts as none.
CannotReadChain(w) ==
    /\ writer[w].pc = "read"
    /\ writer' = [writer EXCEPT ![w].pc = "key", ![w].previous = 0]
    /\ disturbed' = disturbed \cup {writer[w].time}
    /\ UNCHANGED <<clock, files, chain, key, lost, astray>>

\* load_or_create: a key file of any length is read, or refused and the report written
\* without a signature.
LoadsKey(w) ==
    /\ writer[w].pc = "key" /\ key.is # "absent"
    /\ writer' = [writer EXCEPT ![w].pc = "file", ![w].key = IF key.is = "whole" THEN key.of ELSE 0]
    /\ UNCHANGED <<clock, files, chain, key, lost, disturbed, astray>>

Creating(v) == writer[v].pc \in {"create", "store"}

BeingMade == {writer[v].key : v \in {u \in Writers : Creating(u)}}

\* `if let Ok(bytes)`: whatever keeps the file from being read, its absence or any error,
\* makes a new key, to be written over what is there.
CreatesKey(w) ==
    /\ writer[w].pc = "key"
    /\ writer' = [writer EXCEPT ![w].pc = "create", ![w].key = writer[w].time]
    /\ astray' = astray \cup {k \in {key.of} : key.is = "whole"}
                        \cup BeingMade \cup {k \in {writer[w].time} : BeingMade # {}}
    /\ UNCHANGED <<clock, files, chain, key, lost, disturbed>>

\* fs::write truncates the file, then fills it.
TruncatesKey(w) ==
    /\ writer[w].pc = "create"
    /\ key' = [is |-> "empty", of |-> 0]
    /\ writer' = [writer EXCEPT ![w].pc = "store"]
    /\ UNCHANGED <<clock, files, chain, lost, disturbed, astray>>

FillsKey(w) ==
    /\ writer[w].pc = "store"
    /\ key' = [is |-> "whole", of |-> writer[w].key]
    /\ writer' = [writer EXCEPT ![w].pc = "file"]
    /\ UNCHANGED <<clock, files, chain, lost, disturbed, astray>>

\* Mutant: the error is ignored and the key used.
SignsAnyway(w) ==
    /\ Creating(w)
    /\ writer' = [writer EXCEPT ![w].pc = "file"]
    /\ UNCHANGED <<clock, files, chain, key, lost, disturbed, astray>>

\* The directory, the file or its permissions refuse: the key is not used.
CannotKeepKey(w) ==
    /\ Creating(w)
    /\ \/ UNCHANGED key
       \/ writer[w].pc = "store" /\ key' = [is |-> "whole", of |-> writer[w].key]
    /\ writer' = [writer EXCEPT ![w].pc = "file", ![w].key = 0]
    /\ UNCHANGED <<clock, files, chain, lost, disturbed, astray>>

\* Mutant: written before it is sealed.
WritesUnsealed(w) ==
    /\ writer[w].pc = "file"
    /\ files' = files \cup
        {[time |-> writer[w].time, previous |-> writer[w].previous, digest |-> 0, key |-> writer[w].key, by |-> "cli"]}
    /\ writer' = [writer EXCEPT ![w].pc = "chain"]
    /\ UNCHANGED <<clock, chain, key, lost, disturbed, astray>>

WritesReport(w) ==
    /\ writer[w].pc = "file"
    /\ files' = files \cup
        {[time |-> writer[w].time, previous |-> writer[w].previous, digest |-> writer[w].time, key |-> writer[w].key, by |-> "cli"]}
    /\ writer' = [writer EXCEPT ![w].pc = "chain"]
    /\ UNCHANGED <<clock, chain, key, lost, disturbed, astray>>

\* Mutant: the link itself is stored again.
WritesOldChain(w) ==
    /\ writer[w].pc = "chain"
    /\ chain' = writer[w].previous
    /\ writer' = [writer EXCEPT ![w] = Resting]
    /\ UNCHANGED <<clock, files, key, lost, disturbed, astray>>

WritesChain(w) ==
    /\ writer[w].pc = "chain"
    /\ chain' = writer[w].time
    /\ writer' = [writer EXCEPT ![w] = Resting]
    /\ UNCHANGED <<clock, files, key, lost, disturbed, astray>>

\* `let _ = fs::write`: .chain stays as it is, or is truncated and left empty, and the
\* execution succeeds all the same.  The process killed at this point leaves the same.
CannotWriteChain(w) ==
    /\ writer[w].pc = "chain"
    /\ chain' \in {chain, 0}
    /\ writer' = [writer EXCEPT ![w] = Resting]
    /\ disturbed' = disturbed \cup {writer[w].time}
    /\ UNCHANGED <<clock, files, key, lost, astray>>

\* The process is killed, or the disk refuses the report.
WriterDies(w) ==
    /\ writer[w].pc \notin {"rest", "chain"}
    /\ writer' = [writer EXCEPT ![w] = Resting]
    /\ UNCHANGED <<clock, files, chain, key, lost, disturbed, astray>>

\* fallbackEvidence of a control center without a compiled CLI: neither sealed nor linked.
FallsBack ==
    /\ clock < MaxRuns
    /\ clock' = clock + 1
    /\ files' = files \cup {[time |-> clock + 1, previous |-> 0, digest |-> 0, key |-> 0, by |-> "panel"]}
    /\ disturbed' = disturbed \cup UnderWay \cup {clock + 1}
    /\ UNCHANGED <<chain, key, writer, lost, astray>>

\* A report disappears from the directory.
Loses(f) ==
    /\ files' = files \ {f}
    /\ lost' = lost \cup {f}
    /\ UNCHANGED <<clock, chain, key, writer, disturbed, astray>>

ChainNext ==
    \/ \E w \in Writers :
        \/ Builds(w) \/ ReadsChain(w) \/ CannotReadChain(w)
        \/ LoadsKey(w) \/ CreatesKey(w) \/ TruncatesKey(w) \/ FillsKey(w) \/ CannotKeepKey(w)
        \/ WritesReport(w) \/ WritesChain(w) \/ CannotWriteChain(w) \/ WriterDies(w)
    \/ FallsBack
    \/ \E f \in files : Loses(f)

ChainSpec == ChainInit /\ [][ChainNext]_chainVars

------------------------------------------------------------------------------
(* evidence verify *)

Before(f) == {g \in files : g.time < f.time}

\* The digest of the report that comes before f in the series, if there is one.
Expected(f) ==
    IF Before(f) = {} THEN 0
    ELSE (CHOOSE g \in Before(f) : \A h \in Before(f) : h.time <= g.time).digest

Gaps == {f \in files : f.previous # Expected(f)}

------------------------------------------------------------------------------
(* Properties *)

ChainTypeOK ==
    /\ clock \in 0 .. MaxRuns
    /\ files \subseteq Report
    /\ \A f \in files : f.by = "cli" => f.digest # 0
    /\ chain \in Digests
    /\ key \in [is : {"absent", "empty", "whole"}, of : Digests]
    /\ writer \in [Writers -> [pc : {"rest", "read", "key", "create", "store", "file", "chain"},
                              time : 0 .. MaxRuns, previous : Digests, key : Digests]]
    /\ lost \subseteq Report
    /\ disturbed \subseteq 1 .. MaxRuns
    /\ astray \subseteq Digests

\* Whatever dies or fails and whoever writes at the same time, a link names a report that
\* really was written: the report goes to disk before .chain does.
LinksNameReports ==
    \A f \in files : f.previous # 0 => \E g \in files \cup lost : g.digest = f.previous

\* g is the report that was written last before f, whether it is still there or not.
ComesBefore(g, f) ==
    /\ g \in files \cup lost /\ g.time < f.time
    /\ \A h \in files \cup lost : h.time < f.time => h.time <= g.time

Undisturbed(f) ==
    /\ f.time \notin disturbed
    /\ \A g \in files \cup lost : ComesBefore(g, f) => g.time \notin disturbed

\* `evidence verify` points at a report exactly when the one before it is gone, however
\* many losses, deaths and failures the directory has seen: what disturbs an execution is
\* over with the second one after it.  It says nothing of a report that was written, or
\* whose predecessor was, next to another one, by the panel, or without .chain read or
\* stored (an error the code drops): there a gap may stand with nothing missing, although
\* evidence.rs:303-307 says a gap is what a removal leaves.
VerifyIsRight ==
    \A f \in files : Undisturbed(f) => (f \in Gaps <=> \E l \in lost : ComesBefore(l, f))

\* Every signed report carries the key that is in the file, unless its key is one that an
\* error in reading it had replaced, or that was made while another first run made one:
\* deaths and failing writes never leave a signature whose key nobody has.
OneKeySigns ==
    \A f \in files \cup lost : f.key # 0 => f.key \in astray \/ key = [is |-> "whole", of |-> f.key]

==============================================================================
