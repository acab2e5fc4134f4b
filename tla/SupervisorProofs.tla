--------------------------- MODULE SupervisorProofs ----------------------------
(***************************************************************************)
(* What holds of the evidence chain, the job queue and the forwarder for    *)
(* every value of their constants, and of the supervisor they are parts of, *)
(* together with the execution of ExecutionProofs.                          *)
(*                                                                          *)
(* The chain.  Links name reports because a number only enters .chain, or   *)
(* the link of a report, after a report with that digest is in the          *)
(* directory (Named).  A signing key goes out of use only through whoever   *)
(* replaces it or makes another at the same time, and these are counted     *)
(* (KeyAlone, KeyKept).  The chain heals because an execution nothing       *)
(* disturbs finds no other at work and .chain at the last report, unless    *)
(* that one was disturbed (Alone, Follows, Head, Linked).                    *)
(*                                                                          *)
(* The queue.  A process is registered only while run waits for it          *)
(* (Working); the place at which create or run is suspended says what the   *)
(* status can be (Placed); as long as nobody cancels at most one write is   *)
(* under way and it carries what memory says (Saving).                      *)
(*                                                                          *)
(* The forwarder.  The accepting thread reads the counter before it raises  *)
(* it; that the limit is kept all the same rests on Handed: nobody else     *)
(* raises it in between.                                                    *)
(***************************************************************************)
EXTENDS MCSupervisor, ExecutionProofs, Sums

------------------------------------------------------------------------------
(* The evidence chain: types *)

Active(w) == writer[w].pc # "rest"

\* A process at work has a timestamp that was handed out.
Stamped == \A w \in Writers : Active(w) => writer[w].time \in 1 .. clock

ChainTypes == ChainTypeOK /\ Stamped

WriterState ==
    [pc : {"rest", "read", "key", "create", "store", "file", "chain"},
     time : 0 .. MaxRuns, previous : Digests, key : Digests]

KeyState == [is : {"absent", "empty", "whole"}, of : Digests]

LEMMA ChainInitially ==
    ASSUME ChainInit
    PROVE  ChainTypes
<1>1. MaxRuns \in Nat /\ 0 \in Digests /\ 0 \in 0 .. MaxRuns
    BY ChainAssumption DEF Digests
<1>2. Resting \in WriterState /\ Resting.pc = "rest"
    BY <1>1 DEF Resting, WriterState
<1>3. writer \in [Writers -> WriterState] /\ Stamped
    BY <1>2 DEF ChainInit, Stamped, Active
<1>4. key \in KeyState
    BY <1>1 DEF ChainInit, KeyState
<1>5. QED BY <1>1, <1>3, <1>4 DEF ChainInit, ChainTypes, ChainTypeOK, WriterState, KeyState

LEMMA ChainTypeStep ==
    ASSUME ChainTypes, [ChainNext]_chainVars
    PROVE  ChainTypes'
<1>1. /\ clock \in Nat /\ MaxRuns \in Nat /\ clock <= MaxRuns
      /\ files \subseteq Report /\ lost \subseteq Report
      /\ chain \in Digests /\ key \in KeyState /\ writer \in [Writers -> WriterState]
    BY ChainAssumption DEF ChainTypes, ChainTypeOK, WriterState, KeyState
<1>2. /\ disturbed \subseteq 1 .. MaxRuns /\ astray \subseteq Digests
      /\ UnderWay \subseteq 1 .. MaxRuns /\ BeingMade \subseteq Digests
    <2>1. UnderWay \subseteq 1 .. MaxRuns
        BY <1>1 DEF UnderWay, ChainTypes, Stamped, Active
    <2>2. BeingMade \subseteq Digests
        BY <1>1 DEF BeingMade, WriterState
    <2>3. QED BY <2>1, <2>2 DEF ChainTypes, ChainTypeOK
<1>3. ASSUME NEW w \in Writers, Builds(w) \/ ReadsChain(w) \/ CannotReadChain(w)
      PROVE  ChainTypes'
    <2>1. writer' \in [Writers -> WriterState] /\ clock' \in 0 .. MaxRuns /\ clock <= clock'
        BY <1>1, <1>3 DEF Builds, ReadsChain, CannotReadChain, WriterState, Digests
    <2>2. Stamped'
        BY <1>1, <1>3 DEF Builds, ReadsChain, CannotReadChain, WriterState, ChainTypes, Stamped, Active
    <2>3. disturbed' \subseteq 1 .. MaxRuns
        <3>1. CASE Builds(w)
            BY <1>1, <1>2, <3>1 DEF Builds
        <3>2. CASE ReadsChain(w)
            BY <1>2, <3>2 DEF ReadsChain
        <3>3. CASE CannotReadChain(w)
            <4>1. writer[w].time \in 1 .. MaxRuns
                BY <1>1, <3>3 DEF CannotReadChain, ChainTypes, Stamped, Active
            <4>2. QED BY <1>2, <3>3, <4>1 DEF CannotReadChain
        <3>4. QED BY <1>3, <3>1, <3>2, <3>3
    <2>4. UNCHANGED <<files, chain, key, lost, astray>>
        BY <1>3 DEF Builds, ReadsChain, CannotReadChain
    <2>5. QED BY <1>2, <2>1, <2>2, <2>3, <2>4 DEF ChainTypes, ChainTypeOK, WriterState
<1>4. ASSUME NEW w \in Writers, LoadsKey(w) \/ CreatesKey(w) \/ TruncatesKey(w) \/ FillsKey(w) \/ CannotKeepKey(w)
      PROVE  ChainTypes'
    <2>1. writer[w] \in WriterState /\ Active(w)
        BY <1>1, <1>4 DEF LoadsKey, CreatesKey, TruncatesKey, FillsKey, CannotKeepKey, Creating, Active
    <2>2. writer' \in [Writers -> WriterState]
        BY <1>1, <1>4, <2>1 DEF LoadsKey, CreatesKey, TruncatesKey, FillsKey, CannotKeepKey, WriterState, Digests,
                                KeyState
    <2>3. key' \in KeyState
        BY <1>1, <1>4, <2>1 DEF LoadsKey, CreatesKey, TruncatesKey, FillsKey, CannotKeepKey, WriterState, Digests,
                                KeyState
    <2>4. UNCHANGED <<clock, files, chain, lost, disturbed>>
        BY <1>4 DEF LoadsKey, CreatesKey, TruncatesKey, FillsKey, CannotKeepKey
    <2>5. astray' \subseteq Digests
        <3>1. writer[w].time \in Digests /\ key.of \in Digests
            BY <1>1, <2>1 DEF WriterState, KeyState, Digests
        <3>2. QED BY <1>2, <1>4, <3>1 DEF LoadsKey, CreatesKey, TruncatesKey, FillsKey, CannotKeepKey
    <2>6. \A v \in Writers : writer'[v].time = writer[v].time /\ (Active(v)' => Active(v))
        BY <1>1, <1>4, <2>1 DEF LoadsKey, CreatesKey, TruncatesKey, FillsKey, CannotKeepKey, Active, WriterState
    <2>7. Stamped'
        BY <2>4, <2>6 DEF ChainTypes, Stamped
    <2>8. QED BY <1>1, <1>2, <2>2, <2>3, <2>4, <2>5, <2>7 DEF ChainTypes, ChainTypeOK, WriterState, KeyState
<1>5. ASSUME NEW w \in Writers, WritesReport(w)
      PROVE  ChainTypes'
    <2>1. writer[w] \in WriterState /\ writer[w].time \in 1 .. MaxRuns
        BY <1>1, <1>5 DEF WritesReport, ChainTypes, Stamped, Active
    <2>2. writer' \in [Writers -> WriterState]
        BY <1>1, <1>5, <2>1 DEF WritesReport, WriterState
    <2> DEFINE f == [time |-> writer[w].time, previous |-> writer[w].previous, digest |-> writer[w].time,
                     key |-> writer[w].key, by |-> "cli"]
    <2>3. f \in Report /\ f.digest # 0
        BY <2>1 DEF Report, WriterState, Digests
    <2>4. files' = files \cup {f}
        BY <1>5 DEF WritesReport
    <2>5. files' \subseteq Report /\ \A g \in files' : g.by = "cli" => g.digest # 0
        BY <1>1, <2>3, <2>4 DEF ChainTypes, ChainTypeOK
    <2>6. UNCHANGED <<clock, chain, key, lost, disturbed, astray>>
        BY <1>5 DEF WritesReport
    <2>7. Stamped'
        BY <1>1, <1>5, <2>6 DEF WritesReport, ChainTypes, Stamped, Active, WriterState
    <2>8. QED BY <1>1, <1>2, <2>2, <2>5, <2>6, <2>7 DEF ChainTypes, ChainTypeOK, WriterState, KeyState
<1>6. ASSUME NEW w \in Writers, WritesChain(w) \/ CannotWriteChain(w) \/ WriterDies(w)
      PROVE  ChainTypes'
    <2>1. writer[w] \in WriterState /\ Resting \in WriterState /\ Resting.pc = "rest"
        BY <1>1 DEF Resting, WriterState, Digests
    <2>2. writer' = [writer EXCEPT ![w] = Resting]
        BY <1>6 DEF WritesChain, CannotWriteChain, WriterDies
    <2>3. writer' \in [Writers -> WriterState]
        BY <1>1, <2>1, <2>2
    <2>4. chain' \in Digests
        BY <1>1, <1>6, <2>1 DEF WritesChain, CannotWriteChain, WriterDies, WriterState, Digests
    <2>5. UNCHANGED <<clock, files, key, lost, astray>>
        BY <1>6 DEF WritesChain, CannotWriteChain, WriterDies
    <2>6. disturbed' \subseteq 1 .. MaxRuns
        <3>1. writer[w].time \in 1 .. MaxRuns
            BY <1>1, <1>6 DEF WritesChain, CannotWriteChain, WriterDies, ChainTypes, Stamped, Active
        <3>2. QED BY <1>2, <1>6, <3>1 DEF WritesChain, CannotWriteChain, WriterDies
    <2>7. Stamped'
        BY <1>1, <2>1, <2>2, <2>5 DEF ChainTypes, Stamped, Active
    <2>8. QED BY <1>1, <1>2, <2>3, <2>4, <2>5, <2>6, <2>7 DEF ChainTypes, ChainTypeOK, WriterState, KeyState
<1>7. CASE FallsBack
    <2> DEFINE f == [time |-> clock + 1, previous |-> 0, digest |-> 0, key |-> 0, by |-> "panel"]
    <2>1. clock' = clock + 1 /\ clock < MaxRuns /\ files' = files \cup {f}
          /\ disturbed' = disturbed \cup UnderWay \cup {clock + 1}
          /\ UNCHANGED <<chain, key, writer, lost, astray>>
        BY <1>7 DEF FallsBack
    <2>2. f \in Report /\ f.by = "panel"
        BY <1>1, <2>1 DEF Report, Digests
    <2>3. clock' \in 0 .. MaxRuns /\ disturbed' \subseteq 1 .. MaxRuns
        BY <1>1, <1>2, <2>1
    <2>4. files' \subseteq Report /\ \A g \in files' : g.by = "cli" => g.digest # 0
        BY <1>1, <2>1, <2>2 DEF ChainTypes, ChainTypeOK
    <2>5. Stamped'
        BY <1>1, <2>1 DEF ChainTypes, Stamped, Active
    <2>6. QED BY <1>1, <1>2, <2>1, <2>3, <2>4, <2>5 DEF ChainTypes, ChainTypeOK, WriterState, KeyState
<1>8. ASSUME NEW f \in files, Loses(f)
      PROVE  ChainTypes'
    BY <1>1, <1>2, <1>8 DEF Loses, ChainTypes, ChainTypeOK, Stamped, Active
<1>9. CASE UNCHANGED chainVars
    BY <1>9 DEF chainVars, ChainTypes, ChainTypeOK, Stamped, Active
<1>10. QED BY <1>3, <1>4, <1>5, <1>6, <1>7, <1>8, <1>9 DEF ChainNext

------------------------------------------------------------------------------
(* Links name reports *)

Written == files \cup lost

Known(digest) == digest = 0 \/ \E g \in Written : g.digest = digest

\* Whatever a link may be taken from is the digest of a report that was written.
Named ==
    /\ Known(chain)
    /\ \A w \in Writers : writer[w].pc \in {"key", "create", "store", "file"} => Known(writer[w].previous)
    /\ \A w \in Writers : writer[w].pc = "chain" => Known(writer[w].time)
    /\ \A f \in files : Known(f.previous)

LEMMA NamedStep ==
    ASSUME ChainTypes, Named, [ChainNext]_chainVars
    PROVE  Named'
<1>1. writer \in [Writers -> WriterState]
    BY DEF ChainTypes, ChainTypeOK, WriterState
<1>2. Written \subseteq Written'
    BY DEF ChainNext, chainVars, Written, Builds, ReadsChain, CannotReadChain, LoadsKey, CreatesKey, TruncatesKey, FillsKey, CannotKeepKey,
           WritesReport, WritesChain, CannotWriteChain, WriterDies, FallsBack, Loses
<1>3. \A d : Known(d) => Known(d)'
    BY <1>2 DEF Known
<1>4. ASSUME NEW w \in Writers,
             \/ Builds(w) \/ ReadsChain(w) \/ CannotReadChain(w) \/ LoadsKey(w) \/ CreatesKey(w) \/ TruncatesKey(w) \/ FillsKey(w)
             \/ CannotKeepKey(w) \/ WriterDies(w)
      PROVE  Named'
    <2>1. UNCHANGED <<chain, files>>
        BY <1>4 DEF Builds, ReadsChain, CannotReadChain, LoadsKey, CreatesKey, TruncatesKey, FillsKey, CannotKeepKey, WriterDies
    <2>2. \A v \in Writers \ {w} : writer'[v] = writer[v]
        BY <1>1, <1>4 DEF Builds, ReadsChain, CannotReadChain, LoadsKey, CreatesKey, TruncatesKey, FillsKey, CannotKeepKey, WriterDies
    <2>3. /\ writer'[w].pc # "chain"
          /\ writer'[w].pc \in {"key", "create", "store", "file"} =>
                \/ writer'[w].previous \in {chain, 0}
                \/ writer[w].pc \in {"key", "create", "store"} /\ writer'[w].previous = writer[w].previous
        BY <1>1, <1>4 DEF Builds, ReadsChain, CannotReadChain, LoadsKey, CreatesKey, TruncatesKey, FillsKey, CannotKeepKey, WriterDies,
                          Creating, WriterState, Resting
    <2>4. Known(0)
        BY DEF Known
    <2>5. QED BY <1>3, <2>1, <2>2, <2>3, <2>4 DEF Named
<1>5. ASSUME NEW w \in Writers, WritesReport(w)
      PROVE  Named'
    <2> DEFINE f == [time |-> writer[w].time, previous |-> writer[w].previous, digest |-> writer[w].time,
                     key |-> writer[w].key, by |-> "cli"]
    <2>1. writer[w].pc = "file" /\ files' = files \cup {f} /\ UNCHANGED chain
          /\ writer' = [writer EXCEPT ![w].pc = "chain"]
        BY <1>5 DEF WritesReport
    <2>2. \A v \in Writers : writer'[v].time = writer[v].time /\ writer'[v].previous = writer[v].previous
        BY <1>1, <2>1 DEF WriterState
    <2>3. \A v \in Writers \ {w} : writer'[v].pc = writer[v].pc
        BY <1>1, <2>1 DEF WriterState
    <2>4. writer'[w].pc = "chain"
        BY <1>1, <2>1 DEF WriterState
    <2>5. Known(writer[w].time)'
        <3>1. f.digest = writer[w].time /\ f \in Written'
            BY <2>1 DEF Written
        <3>2. QED BY <2>2, <3>1 DEF Known
    <2>6. Known(f.previous)
        BY <2>1 DEF Named
    <2>7. QED BY <1>3, <2>1, <2>2, <2>3, <2>4, <2>5, <2>6 DEF Named
<1>6. ASSUME NEW w \in Writers, WritesChain(w) \/ CannotWriteChain(w)
      PROVE  Named'
    <2>1. chain' \in {chain, 0, writer[w].time} /\ writer[w].pc = "chain" /\ UNCHANGED files
          /\ writer' = [writer EXCEPT ![w] = Resting]
        BY <1>6 DEF WritesChain, CannotWriteChain
    <2>2. writer'[w].pc = "rest" /\ \A v \in Writers \ {w} : writer'[v] = writer[v]
        BY <1>1, <2>1 DEF Resting
    <2>3. Known(chain) /\ Known(0) /\ Known(writer[w].time)
        BY <2>1 DEF Named, Known
    <2>4. Known(chain)'
        BY <1>2, <2>1, <2>3 DEF Known
    <2>5. QED BY <1>3, <2>1, <2>2, <2>4 DEF Named
<1>7. CASE FallsBack
    <2>1. \A g \in files' \ files : g.previous = 0
        BY <1>7 DEF FallsBack
    <2>2. UNCHANGED <<chain, writer>> /\ Known(0)'
        BY <1>7 DEF FallsBack, Known
    <2>3. QED BY <1>3, <2>1, <2>2 DEF Named
<1>8. ASSUME NEW f \in files, Loses(f)
      PROVE  Named'
    BY <1>3, <1>8 DEF Loses, Named
<1>9. CASE UNCHANGED chainVars
    BY <1>3, <1>9 DEF chainVars, Named
<1>10. QED BY <1>4, <1>5, <1>6, <1>7, <1>8, <1>9 DEF ChainNext

------------------------------------------------------------------------------
(* One key signs *)

InUse(k) == key.is = "whole" /\ key.of = k

\* Keys that are made at the same time are all astray, and so is what is written over.
KeyAlone ==
    /\ \A v, w \in Writers : Creating(v) /\ Creating(w) /\ v # w => writer[v].key \in astray
    /\ \A w \in Writers : Creating(w) /\ key.is = "whole" => key.of \in astray

\* A key somebody signs or has signed with is the one in the file, or astray.
KeyKept ==
    \A w \in Writers : writer[w].pc \in {"file", "chain"} /\ writer[w].key # 0 =>
        writer[w].key \in astray \/ InUse(writer[w].key)

KeySigned == \A f \in Written : f.key # 0 => f.key \in astray \/ InUse(f.key)

KeyInv == KeyAlone /\ KeyKept /\ KeySigned

LEMMA KeyStep ==
    ASSUME ChainTypes, KeyInv, [ChainNext]_chainVars
    PROVE  KeyInv'
<1>1. writer \in [Writers -> WriterState] /\ key \in KeyState
    BY DEF ChainTypes, ChainTypeOK, WriterState, KeyState
<1>2. astray \subseteq astray'
    BY DEF ChainNext, chainVars, Builds, ReadsChain, CannotReadChain, LoadsKey, CreatesKey, TruncatesKey, FillsKey,
           CannotKeepKey, WritesReport, WritesChain, CannotWriteChain, WriterDies, FallsBack, Loses
<1>3. ASSUME NEW w \in Writers,
             \/ Builds(w) \/ ReadsChain(w) \/ CannotReadChain(w) \/ LoadsKey(w)
             \/ WritesChain(w) \/ CannotWriteChain(w) \/ WriterDies(w)
      PROVE  KeyInv'
    <2>1. UNCHANGED <<files, key, lost, astray>>
        BY <1>3 DEF Builds, ReadsChain, CannotReadChain, LoadsKey, WritesChain, CannotWriteChain, WriterDies
    <2>2. \A v \in Writers \ {w} : writer'[v] = writer[v]
        BY <1>1, <1>3 DEF Builds, ReadsChain, CannotReadChain, LoadsKey, WritesChain, CannotWriteChain, WriterDies
    <2>3. /\ writer'[w].pc \notin {"create", "store", "chain"}
          /\ writer'[w].pc = "file" /\ writer'[w].key # 0 => key.is = "whole" /\ key.of = writer'[w].key
        BY <1>1, <1>3 DEF Builds, ReadsChain, CannotReadChain, LoadsKey, WritesChain, CannotWriteChain, WriterDies,
                          WriterState, Resting
    <2>4. QED BY <2>1, <2>2, <2>3 DEF KeyInv, KeyAlone, KeyKept, KeySigned, InUse, Creating, Written
<1>4. ASSUME NEW w \in Writers, CreatesKey(w)
      PROVE  KeyInv'
    <2>1. UNCHANGED <<files, key, lost>> /\ writer[w].pc = "key"
        BY <1>4 DEF CreatesKey
    <2>2. /\ \A v \in Writers \ {w} : writer'[v] = writer[v]
          /\ writer'[w].pc = "create" /\ writer'[w].key = writer[w].time
        BY <1>1, <1>4 DEF CreatesKey, WriterState
    <2>3. ASSUME NEW v \in Writers \ {w}, Creating(v)
          PROVE  writer[v].key \in astray' /\ writer'[w].key \in astray'
        <3>1. writer[v].key \in BeingMade
            BY <2>3 DEF BeingMade
        <3>2. QED BY <1>4, <2>2, <3>1 DEF CreatesKey
    <2>4. key.is = "whole" => key.of \in astray'
        BY <1>4 DEF CreatesKey
    <2>5. KeyAlone'
        <3>1. ASSUME NEW u \in Writers, NEW v \in Writers, Creating(u)', Creating(v)', u # v
              PROVE  writer'[u].key \in astray'
            <4>1. CASE u = w
                BY <2>2, <2>3, <3>1, <4>1 DEF Creating
            <4>2. CASE u # w
                BY <2>2, <2>3, <3>1, <4>2 DEF Creating
            <4>3. QED BY <4>1, <4>2
        <3>2. QED BY <2>1, <2>4, <3>1 DEF KeyAlone
    <2>6. KeyKept'
        BY <1>2, <2>1, <2>2 DEF KeyInv, KeyKept, InUse
    <2>7. KeySigned'
        BY <1>2, <2>1 DEF KeyInv, KeySigned, InUse, Written
    <2>8. QED BY <2>5, <2>6, <2>7 DEF KeyInv
<1>5. ASSUME NEW w \in Writers, TruncatesKey(w) \/ FillsKey(w) \/ CannotKeepKey(w)
      PROVE  KeyInv'
    <2>1. UNCHANGED <<files, lost, astray>> /\ Creating(w)
        BY <1>5 DEF TruncatesKey, FillsKey, CannotKeepKey, Creating
    <2>2. \A v \in Writers \ {w} : writer'[v] = writer[v]
        BY <1>1, <1>5 DEF TruncatesKey, FillsKey, CannotKeepKey
    <2>3. \A k : InUse(k) => k \in astray
        BY <2>1 DEF KeyInv, KeyAlone, InUse
    <2>4. /\ \A v \in Writers : writer[v].pc \in {"file", "chain"} /\ writer[v].key # 0 => writer[v].key \in astray
          /\ \A f \in Written : f.key # 0 => f.key \in astray
        BY <2>3 DEF KeyInv, KeyKept, KeySigned
    <2>5. /\ writer'[w].pc \in {"store", "file"}
          /\ writer'[w].pc = "store" => writer'[w].key = writer[w].key
          /\ writer'[w].pc = "file" /\ writer'[w].key # 0 => key'.is = "whole" /\ key'.of = writer'[w].key
          /\ key'.is = "whole" => key' = key \/ key'.of = writer[w].key
        BY <1>1, <1>5 DEF TruncatesKey, FillsKey, CannotKeepKey, WriterState
    <2>6. \A v \in Writers \ {w} : Creating(v) => writer[w].key \in astray /\ writer[v].key \in astray
        BY <2>1 DEF KeyInv, KeyAlone
    <2>7. writer'[w].pc = "store" => key'.is # "whole"
        BY <1>1, <1>5 DEF TruncatesKey, FillsKey, CannotKeepKey, WriterState
    <2>8. KeyAlone'
        <3>1. ASSUME NEW u \in Writers, NEW v \in Writers, Creating(u)', Creating(v)', u # v
              PROVE  writer'[u].key \in astray'
            <4>1. CASE u = w
                BY <2>1, <2>2, <2>5, <2>6, <3>1, <4>1 DEF Creating
            <4>2. CASE u # w
                BY <2>1, <2>2, <2>6, <3>1, <4>2 DEF Creating
            <4>3. QED BY <4>1, <4>2
        <3>2. ASSUME NEW v \in Writers, Creating(v)', key'.is = "whole"
              PROVE  key'.of \in astray'
            <4>1. v # w
                BY <2>5, <2>7, <3>2 DEF Creating
            <4>2. Creating(v)
                BY <2>2, <3>2, <4>1 DEF Creating
            <4>3. CASE key' = key
                BY <2>1, <3>2, <4>3 DEF KeyInv, KeyAlone
            <4>4. CASE key'.of = writer[w].key
                BY <2>1, <2>6, <4>1, <4>2, <4>4
            <4>5. QED BY <2>5, <3>2, <4>3, <4>4
        <3>3. QED BY <3>1, <3>2 DEF KeyAlone
    <2>9. KeyKept'
        BY <2>1, <2>2, <2>4, <2>5 DEF KeyKept, InUse
    <2>10. KeySigned'
        BY <2>1, <2>4 DEF KeySigned, Written
    <2>11. QED BY <2>8, <2>9, <2>10 DEF KeyInv
<1>6. ASSUME NEW w \in Writers, WritesReport(w)
      PROVE  KeyInv'
    <2> DEFINE f == [time |-> writer[w].time, previous |-> writer[w].previous, digest |-> writer[w].time,
                     key |-> writer[w].key, by |-> "cli"]
    <2>1. files' = files \cup {f} /\ UNCHANGED <<key, lost, astray>> /\ writer[w].pc = "file"
        BY <1>6 DEF WritesReport
    <2>2. /\ \A v \in Writers \ {w} : writer'[v] = writer[v]
          /\ writer'[w].pc = "chain" /\ writer'[w].key = writer[w].key
        BY <1>1, <1>6 DEF WritesReport, WriterState
    <2>3. f.key = writer[w].key
        OBVIOUS
    <2>4. KeySigned'
        BY <2>1, <2>3 DEF KeyInv, KeyKept, KeySigned, InUse, Written
    <2>5. KeyKept'
        BY <2>1, <2>2 DEF KeyInv, KeyKept, InUse
    <2>6. KeyAlone'
        BY <2>1, <2>2 DEF KeyInv, KeyAlone, Creating
    <2>7. QED BY <2>4, <2>5, <2>6 DEF KeyInv
<1>7. CASE FallsBack
    <2>1. \A g \in Written' \ Written : g.key = 0
        BY <1>7 DEF FallsBack, Written
    <2>2. UNCHANGED <<key, writer, astray>>
        BY <1>7 DEF FallsBack
    <2>3. QED BY <2>1, <2>2 DEF KeyInv, KeyAlone, KeyKept, KeySigned, InUse, Creating
<1>8. ASSUME NEW f \in files, Loses(f)
      PROVE  KeyInv'
    BY <1>8 DEF Loses, KeyInv, KeyAlone, KeyKept, KeySigned, InUse, Creating, Written
<1>9. CASE UNCHANGED chainVars
    BY <1>9 DEF chainVars, KeyInv, KeyAlone, KeyKept, KeySigned, InUse, Creating, Written
<1>10. QED BY <1>3, <1>4, <1>5, <1>6, <1>7, <1>8, <1>9 DEF ChainNext

------------------------------------------------------------------------------
(* The chain heals *)

\* No two executions have one timestamp, and each writes its report once.
OnceEach ==
    /\ files \cap lost = {}
    /\ \A f \in Written : f.time <= clock /\ f.digest \in {0, f.time}
    /\ \A f, g \in Written : f.time = g.time => f = g
    /\ \A v, w \in Writers : Active(v) /\ Active(w) /\ writer[v].time = writer[w].time => v = w
    /\ \A w \in Writers : Active(w) /\ writer[w].pc # "chain" => \A f \in Written : f.time # writer[w].time
    /\ \A w \in Writers : writer[w].pc = "chain" => \E f \in Written : f.time = writer[w].time

Fair(n) == n \notin disturbed

\* An execution nothing has disturbed is the only one at work, and the newest.
Alone ==
    \A w \in Writers : Active(w) /\ Fair(writer[w].time) =>
        (\A v \in Writers : Active(v) => v = w) /\ writer[w].time = clock

\* Who is still at work is behind the undisturbed reports of others.
Follows ==
    \A v \in Writers, q \in Written :
        Active(v) /\ Fair(q.time) /\ q.time # writer[v].time => q.time < writer[v].time

Newest(q, set) == \A h \in set : h.time <= q.time

\* n is the link to the last report of the set, unless something disturbed that one.
LinkIs(n, set) == (set = {} => n = 0) /\ \A q \in set : Newest(q, set) /\ Fair(q.time) => n = q.time

\* .chain names the last report when its execution is over.
Head ==
    /\ Written = {} => chain = 0
    /\ \A q \in Written :
        Newest(q, Written) /\ Fair(q.time) /\ (\A v \in Writers : Active(v) => writer[v].time # q.time) =>
            chain = q.time

Carries ==
    \A w \in Writers : writer[w].pc \in {"key", "create", "store", "file"} /\ Fair(writer[w].time) =>
        LinkIs(writer[w].previous, Written)

Earlier(f, set) == {g \in set : g.time < f.time}

Linked ==
    \A f \in Written : Fair(f.time) => f.digest = f.time /\ LinkIs(f.previous, Earlier(f, Written))

ChainInv == OnceEach /\ Alone /\ Follows /\ Head /\ Carries /\ Linked

LEMMA ChainHoldsStep ==
    ASSUME ChainTypes, ChainInv, [ChainNext]_chainVars
    PROVE  ChainInv'
<1>1. /\ writer \in [Writers -> WriterState]
      /\ clock \in Nat /\ chain \in Nat
      /\ \A f \in Written : f.time \in Nat /\ f.time >= 1 /\ f.previous \in Nat
      /\ \A v \in Writers : Active(v) => writer[v].time \in 1 .. clock
    BY ChainAssumption DEF ChainTypes, ChainTypeOK, WriterState, Written, Report, Digests, Stamped
<1>2. \A n : Fair(n)' => Fair(n)
    BY DEF ChainNext, chainVars, Builds, ReadsChain, CannotReadChain, LoadsKey, CreatesKey, TruncatesKey, FillsKey,
           CannotKeepKey, WritesReport, WritesChain, CannotWriteChain, WriterDies, FallsBack, Loses, Fair
<1>3. \A n, set : LinkIs(n, set) => LinkIs(n, set)'
    BY <1>2 DEF LinkIs, Newest
<1>4. ASSUME NEW w \in Writers, Builds(w)
      PROVE  ChainInv'
    <2>1. clock' = clock + 1 /\ UNCHANGED <<files, lost, chain>> /\ writer[w].pc = "rest"
        BY <1>4 DEF Builds
    <2>2. /\ \A v \in Writers \ {w} : writer'[v] = writer[v]
          /\ writer'[w].pc = "read" /\ writer'[w].time = clock + 1
        BY <1>1, <1>4 DEF Builds, WriterState
    <2>3. /\ \A v \in Writers : Active(v)' <=> Active(v) \/ v = w
          /\ ~ Active(w) /\ \A v \in Writers : Active(v) => v # w /\ writer'[v] = writer[v]
        BY <2>1, <2>2 DEF Active
    <2>4. ASSUME NEW v \in Writers, Active(v)
          PROVE  writer[v].time \in disturbed' /\ clock + 1 \in disturbed'
        <3>1. writer[v].time \in UnderWay
            BY <2>4 DEF Active, UnderWay
        <3>2. QED BY <1>4, <3>1 DEF Builds
    <2>5. \A v \in Writers : Active(v) => writer[v].time # clock + 1
        BY <1>1
    <2>6. \A f \in Written : f.time < clock + 1
        BY <1>1 DEF ChainInv, OnceEach
    <2>7. Written' = Written
        BY <2>1 DEF Written
    <2>8. OnceEach'
        <3>1. \A f \in Written' : f.time <= clock' /\ f.digest \in {0, f.time}
            BY <1>1, <2>1, <2>6, <2>7 DEF ChainInv, OnceEach
        <3>2. \A u, v \in Writers : Active(u)' /\ Active(v)' /\ writer'[u].time = writer'[v].time => u = v
            BY <2>2, <2>3, <2>5 DEF ChainInv, OnceEach
        <3>3. \A v \in Writers : Active(v)' /\ writer'[v].pc # "chain" => \A f \in Written' : f.time # writer'[v].time
            BY <1>1, <2>2, <2>3, <2>6, <2>7 DEF ChainInv, OnceEach
        <3>4. \A v \in Writers : writer'[v].pc = "chain" => \E f \in Written' : f.time = writer'[v].time
            BY <2>2, <2>7 DEF ChainInv, OnceEach
        <3>5. QED BY <2>1, <2>7, <3>1, <3>2, <3>3, <3>4 DEF ChainInv, OnceEach
    <2>9. Alone'
        BY <2>1, <2>2, <2>3, <2>4 DEF Alone, Fair
    <2>10. Follows'
        BY <1>2, <2>2, <2>3, <2>6, <2>7 DEF ChainInv, Follows
    <2>11. Head'
        BY <1>2, <2>1, <2>3, <2>7 DEF ChainInv, Head, Newest
    <2>12. Carries'
        BY <1>2, <1>3, <2>2, <2>7 DEF ChainInv, Carries
    <2>13. Linked'
        BY <1>2, <1>3, <2>7 DEF ChainInv, Linked, Earlier
    <2>14. QED BY <2>8, <2>9, <2>10, <2>11, <2>12, <2>13 DEF ChainInv
<1>5. ASSUME NEW w \in Writers,
             \/ ReadsChain(w) \/ CannotReadChain(w)
             \/ LoadsKey(w) \/ CreatesKey(w) \/ TruncatesKey(w) \/ FillsKey(w) \/ CannotKeepKey(w)
      PROVE  ChainInv'
    <2>1. UNCHANGED <<clock, files, lost, chain>>
        BY <1>5 DEF ReadsChain, CannotReadChain, LoadsKey, CreatesKey, TruncatesKey, FillsKey, CannotKeepKey
    <2>2. \A v \in Writers \ {w} : writer'[v] = writer[v]
        BY <1>1, <1>5 DEF ReadsChain, CannotReadChain, LoadsKey, CreatesKey, TruncatesKey, FillsKey, CannotKeepKey
    <2>3. /\ writer[w].pc \notin {"rest", "chain"} /\ writer'[w].pc \notin {"rest", "chain", "read"}
          /\ writer'[w].time = writer[w].time
        BY <1>1, <1>5 DEF ReadsChain, CannotReadChain, LoadsKey, CreatesKey, TruncatesKey, FillsKey, CannotKeepKey,
                          Creating, WriterState
    <2>4. \/ writer'[w].previous = chain
          \/ writer[w].time \in disturbed'
          \/ writer[w].pc \in {"key", "create", "store", "file"} /\ writer'[w].previous = writer[w].previous
        BY <1>1, <1>5 DEF ReadsChain, CannotReadChain, LoadsKey, CreatesKey, TruncatesKey, FillsKey, CannotKeepKey,
                          Creating, WriterState, Fair
    <2>5. Written' = Written
        BY <2>1 DEF Written
    <2>6. \A v \in Writers : (Active(v)' <=> Active(v)) /\ writer'[v].time = writer[v].time
                          /\ (writer'[v].pc = "chain" <=> writer[v].pc = "chain")
        BY <2>2, <2>3 DEF Active
    <2>7. OnceEach'
        BY <2>1, <2>5, <2>6 DEF ChainInv, OnceEach
    <2>8. Alone'
        BY <1>2, <2>1, <2>6 DEF ChainInv, Alone
    <2>9. Follows'
        BY <1>2, <2>5, <2>6 DEF ChainInv, Follows
    <2>10. Head'
        BY <1>2, <2>1, <2>5, <2>6 DEF ChainInv, Head, Newest
    <2>11. Carries'
        <3>1. ASSUME writer[w].time \notin disturbed', writer'[w].previous = chain
              PROVE  LinkIs(chain, Written)
            <4>1. Active(w) /\ Fair(writer[w].time)
                BY <1>2, <2>3, <3>1 DEF Active, Fair
            <4>2. \A v \in Writers : Active(v) => v = w
                BY <4>1 DEF ChainInv, Alone
            <4>3. \A q \in Written : q.time # writer[w].time
                BY <2>3, <4>1 DEF ChainInv, OnceEach
            <4>4. QED BY <4>2, <4>3 DEF ChainInv, Head, LinkIs
        <3>2. ASSUME writer[w].time \notin disturbed'
              PROVE  LinkIs(writer'[w].previous, Written)
            <4>1. CASE writer'[w].previous = chain
                BY <3>1, <3>2, <4>1
            <4>2. ASSUME writer[w].pc \in {"key", "create", "store", "file"},
                         writer'[w].previous = writer[w].previous
                  PROVE  LinkIs(writer[w].previous, Written)
                <5>1. Fair(writer[w].time)
                    BY <1>2, <3>2 DEF Fair
                <5>2. QED BY <4>2, <5>1 DEF ChainInv, Carries
            <4>3. QED BY <2>4, <3>2, <4>1, <4>2
        <3>3. ASSUME NEW v \in Writers, writer'[v].pc \in {"key", "create", "store", "file"},
                     writer'[v].time \notin disturbed'
              PROVE  LinkIs(writer'[v].previous, Written)
            <4>1. CASE v = w
                BY <2>3, <3>2, <3>3, <4>1
            <4>2. CASE v # w
                <5>1. writer'[v] = writer[v] /\ Fair(writer[v].time)
                    BY <1>2, <2>2, <3>3, <4>2 DEF Fair
                <5>2. QED BY <3>3, <5>1 DEF ChainInv, Carries
            <4>3. QED BY <4>1, <4>2
        <3>4. \A v \in Writers : LinkIs(writer'[v].previous, Written) => LinkIs(writer[v].previous, Written)'
            BY <1>2, <2>5 DEF LinkIs, Newest
        <3>5. QED BY <3>3, <3>4 DEF Carries, Fair
    <2>12. Linked'
        BY <1>2, <1>3, <2>5 DEF ChainInv, Linked, Earlier
    <2>13. QED BY <2>7, <2>8, <2>9, <2>10, <2>11, <2>12 DEF ChainInv
<1>6. ASSUME NEW w \in Writers, WritesReport(w)
      PROVE  ChainInv'
    <2> DEFINE f == [time |-> writer[w].time, previous |-> writer[w].previous, digest |-> writer[w].time,
                     key |-> writer[w].key, by |-> "cli"]
    <2>1. writer[w].pc = "file" /\ files' = files \cup {f} /\ UNCHANGED <<clock, lost, chain, disturbed>>
        BY <1>6 DEF WritesReport
    <2>2. /\ \A v \in Writers \ {w} : writer'[v] = writer[v]
          /\ writer'[w].pc = "chain" /\ writer'[w].time = writer[w].time
        BY <1>1, <1>6 DEF WritesReport, WriterState
    <2>3. f.time = writer[w].time /\ f.previous = writer[w].previous /\ f.digest = f.time
        OBVIOUS
    <2>4. f.time \in Nat /\ f.time <= clock /\ Active(w)
        BY <1>1, <2>1 DEF Active
    <2> HIDE DEF f
    <2>5. \A v \in Writers : (Active(v)' <=> Active(v)) /\ writer'[v].time = writer[v].time
        BY <2>1, <2>2 DEF Active
    <2>6. Written' = Written \cup {f} /\ \A g \in Written : g.time # f.time
        BY <2>1, <2>3, <2>4 DEF Written, ChainInv, OnceEach
    <2>7. f \notin Written
        BY <2>6
    <2>8. OnceEach'
        <3>1. (files \cap lost = {})'
            BY <2>1, <2>7 DEF ChainInv, OnceEach, Written
        <3>2. \A g \in Written' : g.time <= clock' /\ g.digest \in {0, g.time}
            BY <2>1, <2>3, <2>4, <2>6 DEF ChainInv, OnceEach
        <3>3. \A g, h \in Written' : g.time = h.time => g = h
            BY <2>6 DEF ChainInv, OnceEach
        <3>4. \A u, v \in Writers : Active(u)' /\ Active(v)' /\ writer'[u].time = writer'[v].time => u = v
            BY <2>5 DEF ChainInv, OnceEach
        <3>5. ASSUME NEW v \in Writers, Active(v)', writer'[v].pc # "chain", NEW g \in Written'
              PROVE  g.time # writer'[v].time
            <4>1. v # w /\ writer'[v] = writer[v] /\ Active(v)
                BY <2>2, <2>5, <3>5
            <4>2. writer[v].time # f.time
                BY <2>3, <2>4, <4>1 DEF ChainInv, OnceEach
            <4>3. QED BY <2>6, <3>5, <4>1, <4>2 DEF ChainInv, OnceEach
        <3>6. \A v \in Writers : writer'[v].pc = "chain" => \E g \in Written' : g.time = writer'[v].time
            BY <2>2, <2>3, <2>6 DEF ChainInv, OnceEach
        <3>7. QED BY <3>1, <3>2, <3>3, <3>4, <3>5, <3>6 DEF OnceEach
    <2>9. Alone'
        BY <1>2, <2>1, <2>5 DEF ChainInv, Alone
    <2>10. ASSUME NEW q \in Written, Fair(q.time)
           PROVE  q.time < f.time
        BY <2>3, <2>4, <2>6, <2>10 DEF ChainInv, Follows
    <2>11. Follows'
        <3>1. ASSUME NEW v \in Writers, Active(v), Fair(f.time), f.time # writer[v].time
              PROVE  FALSE
            BY <2>3, <2>4, <3>1 DEF ChainInv, Alone
        <3>2. QED BY <1>2, <2>5, <2>6, <3>1 DEF ChainInv, Follows
    <2>12. Head'
        <3>1. ASSUME NEW q \in Written', Newest(q, Written'), Fair(q.time)',
                     \A v \in Writers : Active(v)' => writer'[v].time # q.time
              PROVE  FALSE
            <4>1. q # f
                BY <2>3, <2>4, <2>5, <3>1
            <4>2. q \in Written /\ q.time < f.time
                BY <1>2, <2>6, <2>10, <3>1, <4>1
            <4>3. f.time <= q.time
                BY <2>6, <3>1 DEF Newest
            <4>4. q.time \in Nat
                BY <1>1, <4>2
            <4>5. QED BY <2>4, <4>2, <4>3, <4>4
        <3>2. Written' # {}
            BY <2>6
        <3>3. QED BY <3>1, <3>2 DEF Head, Newest
    <2>13. Carries'
        <3>1. ASSUME NEW v \in Writers, writer'[v].pc \in {"key", "create", "store", "file"},
                     writer'[v].time \notin disturbed'
              PROVE  FALSE
            <4>1. v # w
                BY <2>2, <3>1
            <4>2. writer'[v] = writer[v] /\ Active(v)
                BY <2>2, <3>1, <4>1 DEF Active
            <4>3. Fair(writer[v].time)
                BY <1>2, <3>1, <4>2 DEF Fair
            <4>4. QED BY <2>4, <4>1, <4>2, <4>3 DEF ChainInv, Alone
        <3>2. QED BY <3>1 DEF Carries, Fair
    <2>14. Linked'
        <3>1. ASSUME NEW g \in Written, Fair(g.time)
              PROVE  Earlier(g, Written') = Earlier(g, Written)
            <4>1. g.time < f.time /\ g.time \in Nat
                BY <1>1, <2>10, <3>1
            <4>2. ~ (f.time < g.time)
                BY <2>4, <4>1
            <4>3. QED BY <2>6, <4>2 DEF Earlier
        <3>2. ASSUME Fair(f.time)
              PROVE  LinkIs(f.previous, Earlier(f, Written'))
            <4>1. writer[w].time = clock
                BY <2>3, <2>4, <3>2 DEF ChainInv, Alone
            <4>2. \A g \in Written : g.time < f.time
                BY <1>1, <2>3, <2>6, <4>1 DEF ChainInv, OnceEach
            <4>3. Earlier(f, Written') = Written
                BY <2>4, <2>6, <4>2 DEF Earlier
            <4>4. LinkIs(f.previous, Written)
                BY <2>1, <2>3, <3>2 DEF ChainInv, Carries
            <4>5. QED BY <4>3, <4>4
        <3>3. ASSUME NEW g \in Written', Fair(g.time)'
              PROVE  g.digest = g.time /\ LinkIs(g.previous, Earlier(g, Written'))
            <4>1. CASE g = f
                BY <1>2, <2>3, <3>2, <3>3, <4>1
            <4>2. CASE g \in Written
                BY <1>2, <3>1, <3>3, <4>2 DEF ChainInv, Linked
            <4>3. QED BY <2>6, <3>3, <4>1, <4>2
        <3>4. \A n, set : LinkIs(n, set) => LinkIs(n, set)'
            BY <1>3
        <3>5. QED BY <3>3, <3>4 DEF Linked, Earlier
    <2>15. QED BY <2>8, <2>9, <2>11, <2>12, <2>13, <2>14 DEF ChainInv
<1>7. ASSUME NEW w \in Writers, WritesChain(w) \/ CannotWriteChain(w) \/ WriterDies(w)
      PROVE  ChainInv'
    <2>1. /\ UNCHANGED <<clock, files, lost>> /\ Active(w)
          /\ writer' = [writer EXCEPT ![w] = Resting]
        BY <1>7 DEF WritesChain, CannotWriteChain, WriterDies, Active
    <2>2. \/ writer[w].pc = "chain" /\ chain' = writer[w].time
          \/ writer[w].pc = "chain" /\ writer[w].time \in disturbed'
          \/ writer[w].pc # "chain" /\ chain' = chain
        BY <1>7 DEF WritesChain, CannotWriteChain, WriterDies
    <2>3. writer'[w].pc = "rest" /\ \A v \in Writers \ {w} : writer'[v] = writer[v]
        BY <1>1, <2>1 DEF Resting
    <2>4. Written' = Written
        BY <2>1 DEF Written
    <2>5. \A v \in Writers : Active(v)' => v # w /\ Active(v) /\ writer'[v] = writer[v]
        BY <2>3 DEF Active
    <2>6. OnceEach'
        BY <2>1, <2>3, <2>4, <2>5 DEF ChainInv, OnceEach
    <2>7. Alone'
        BY <1>2, <2>1, <2>5 DEF ChainInv, Alone
    <2>8. Follows'
        BY <1>2, <2>4, <2>5 DEF ChainInv, Follows
    <2>9. Head'
        <3>1. ASSUME NEW q \in Written, Newest(q, Written), q.time \notin disturbed',
                     \A v \in Writers : Active(v)' => writer'[v].time # q.time
              PROVE  chain' = q.time
            <4>1. Fair(q.time) /\ q.time \in Nat
                BY <1>1, <1>2, <3>1 DEF Fair
            <4>2. CASE q.time = writer[w].time
                <5>1. writer[w].pc = "chain"
                    BY <2>1, <4>2 DEF ChainInv, OnceEach
                <5>2. QED BY <2>2, <3>1, <4>2, <5>1
            <4>3. CASE q.time # writer[w].time
                <5>1. q.time < writer[w].time
                    BY <2>1, <4>1, <4>3 DEF ChainInv, Follows
                <5>2. writer[w].pc # "chain"
                    <6>1. SUFFICES ASSUME writer[w].pc = "chain" PROVE FALSE
                        OBVIOUS
                    <6>2. PICK g \in Written : g.time = writer[w].time
                        BY <6>1 DEF ChainInv, OnceEach
                    <6>3. g.time <= q.time /\ g.time \in Nat
                        BY <1>1, <3>1 DEF Newest
                    <6>4. QED BY <4>1, <5>1, <6>2, <6>3
                <5>3. \A v \in Writers : Active(v) => writer[v].time # q.time
                    BY <2>3, <3>1, <4>3 DEF Active
                <5>4. chain = q.time
                    BY <3>1, <4>1, <5>3 DEF ChainInv, Head
                <5>5. QED BY <2>2, <5>2, <5>4
            <4>4. QED BY <4>2, <4>3
        <3>2. Written = {} => chain' = 0
            <4>1. ASSUME Written = {}
                  PROVE  writer[w].pc # "chain" /\ chain = 0
                BY <4>1 DEF ChainInv, Head, OnceEach
            <4>2. QED BY <2>2, <4>1
        <3>3. QED BY <2>4, <3>1, <3>2 DEF Head, Newest, Fair
    <2>10. Carries'
        BY <1>2, <1>3, <2>3, <2>4 DEF ChainInv, Carries
    <2>11. Linked'
        BY <1>2, <1>3, <2>4 DEF ChainInv, Linked, Earlier
    <2>12. QED BY <2>6, <2>7, <2>8, <2>9, <2>10, <2>11 DEF ChainInv
<1>8. CASE FallsBack
    <2> DEFINE f == [time |-> clock + 1, previous |-> 0, digest |-> 0, key |-> 0, by |-> "panel"]
    <2>1. clock' = clock + 1 /\ files' = files \cup {f} /\ UNCHANGED <<chain, writer, lost>>
          /\ disturbed' = disturbed \cup UnderWay \cup {clock + 1}
        BY <1>8 DEF FallsBack
    <2>2. f.time = clock + 1 /\ f.digest = 0
        OBVIOUS
    <2> HIDE DEF f
    <2>3. f.time \in disturbed' /\ \A v \in Writers : Active(v) => writer[v].time \in disturbed'
        BY <2>1, <2>2 DEF UnderWay, Active
    <2>4. \A g \in Written : g.time < f.time
        BY <1>1, <2>2 DEF ChainInv, OnceEach
    <2>5. Written' = Written \cup {f} /\ \A g \in Written : g.time # f.time
        BY <1>1, <2>1, <2>2, <2>4 DEF Written
    <2>6. \A v \in Writers : Active(v)' <=> Active(v)
        BY <2>1 DEF Active
    <2>7. \A v \in Writers : Active(v) => writer[v].time # f.time
        BY <1>1, <2>2
    <2>8. OnceEach'
        <3>1. f \notin Written
            BY <2>5
        <3>2. (files \cap lost = {})'
            BY <2>1, <3>1 DEF ChainInv, OnceEach, Written
        <3>3. \A g \in Written' : g.time <= clock' /\ g.digest \in {0, g.time}
            BY <1>1, <2>1, <2>2, <2>5 DEF ChainInv, OnceEach
        <3>4. \A g, h \in Written' : g.time = h.time => g = h
            BY <2>5 DEF ChainInv, OnceEach
        <3>5. QED BY <2>1, <2>5, <2>6, <2>7, <3>2, <3>3, <3>4 DEF ChainInv, OnceEach
    <2>9. Alone'
        BY <2>1, <2>3, <2>6 DEF Alone, Fair
    <2>10. Follows'
        BY <1>2, <2>1, <2>3, <2>5, <2>6 DEF ChainInv, Follows, Fair
    <2>11. Head'
        <3>1. ASSUME NEW q \in Written', Newest(q, Written'), q.time \notin disturbed'
              PROVE  FALSE
            <4>1. q \in Written
                BY <2>3, <2>5, <3>1
            <4>2. f.time <= q.time /\ q.time < f.time /\ q.time \in Nat
                BY <1>1, <2>4, <2>5, <3>1, <4>1 DEF Newest
            <4>3. f.time \in Nat
                BY <1>1, <2>2
            <4>4. QED BY <4>2, <4>3
        <3>2. Written' # {}
            BY <2>5
        <3>3. QED BY <3>1, <3>2 DEF Head, Newest, Fair
    <2>12. Carries'
        BY <2>1, <2>3 DEF Carries, Active, Fair
    <2>13. Linked'
        <3>1. ASSUME NEW g \in Written
              PROVE  Earlier(g, Written') = Earlier(g, Written)
            <4>1. g.time < f.time /\ g.time \in Nat /\ f.time \in Nat
                BY <1>1, <2>2, <2>4, <3>1
            <4>2. ~ (f.time < g.time)
                BY <4>1
            <4>3. QED BY <2>5, <4>2 DEF Earlier
        <3>2. ASSUME NEW g \in Written', g.time \notin disturbed'
              PROVE  g.digest = g.time /\ LinkIs(g.previous, Earlier(g, Written'))
            <4>1. g \in Written /\ Fair(g.time)
                BY <1>2, <2>3, <2>5, <3>2 DEF Fair
            <4>2. QED BY <3>1, <4>1 DEF ChainInv, Linked
        <3>3. QED BY <1>3, <3>2 DEF Linked, Earlier, Fair
    <2>14. QED BY <2>8, <2>9, <2>10, <2>11, <2>12, <2>13 DEF ChainInv
<1>9. CASE (\E f \in files : Loses(f)) \/ UNCHANGED chainVars
    <2>1. Written' = Written /\ (files \cap lost = {})' /\ UNCHANGED <<clock, chain, writer, disturbed>>
        BY <1>9 DEF Loses, chainVars, Written, ChainInv, OnceEach
    <2>2. \A v \in Writers : Active(v)' <=> Active(v)
        BY <2>1 DEF Active
    <2>3. OnceEach' /\ Alone' /\ Follows'
        BY <1>2, <2>1, <2>2 DEF ChainInv, OnceEach, Alone, Follows
    <2>4. Head' /\ Carries' /\ Linked'
        BY <1>2, <1>3, <2>1, <2>2 DEF ChainInv, Head, Carries, Linked, Earlier, Newest
    <2>5. QED BY <2>3, <2>4 DEF ChainInv
<1>10. QED BY <1>4, <1>5, <1>6, <1>7, <1>8, <1>9 DEF ChainNext

\* The inductive invariant of the chain.
ChainHolds == ChainTypes /\ Named /\ KeyInv /\ ChainInv

LEMMA ChainStarts == ChainInit => ChainHolds
<1>1. ASSUME ChainInit
      PROVE  Named /\ KeyInv /\ ChainInv
    <2>1. /\ files = {} /\ lost = {} /\ Written = {} /\ clock = 0 /\ chain = 0
          /\ \A w \in Writers : writer[w].pc = "rest"
        BY <1>1 DEF ChainInit, Written, Resting
    <2>2. Named
        BY <2>1 DEF Named, Known
    <2>3. KeyInv
        BY <2>1 DEF KeyInv, KeyAlone, KeyKept, KeySigned, Creating
    <2>4. ChainInv
        BY <2>1 DEF ChainInv, OnceEach, Alone, Follows, Head, Carries, Linked, Active
    <2>5. QED BY <2>2, <2>3, <2>4
<1>2. QED BY <1>1, ChainInitially DEF ChainHolds

LEMMA ChainKeeps == ChainHolds /\ [ChainNext]_chainVars => ChainHolds'
BY ChainTypeStep, NamedStep, KeyStep, ChainHoldsStep DEF ChainHolds

LEMMA ChainInvariance == ChainSpec => []ChainHolds
BY ChainStarts, ChainKeeps, PTL DEF ChainSpec

\* The predecessor of a report as verify_chain determines it.
LEMMA ExpectedIs ==
    ASSUME ChainHolds, NEW f \in files, Before(f) # {}
    PROVE  \E g \in Before(f) : Expected(f) = g.digest /\ \A h \in Before(f) : h.time <= g.time
<1>1. MaxRuns \in Nat /\ \A g \in files : g.time \in 0 .. MaxRuns
    BY ChainAssumption DEF ChainHolds, ChainTypes, ChainTypeOK, Report
<1> DEFINE Times == {g.time : g \in Before(f)}
<1>2. Times \subseteq 0 .. MaxRuns /\ Times # {}
    BY <1>1 DEF Before
<1>3. PICK last \in Times : \A t \in Times : t <= last
    BY <1>1, <1>2, Greatest
<1>4. PICK g \in Before(f) : last = g.time
    OBVIOUS
<1>5. \A h \in Before(f) : h.time <= g.time
    BY <1>3, <1>4
<1>6. QED BY <1>5 DEF Expected

LEMMA NumbersOfReports ==
    ASSUME ChainHolds
    PROVE  \A f \in Written : f.time \in Nat /\ f.time >= 1 /\ f.previous \in Nat
BY ChainAssumption DEF ChainHolds, ChainTypes, ChainTypeOK, Written, Report, Digests

\* The link of an undisturbed report names the one written before it, so that a gap stands
\* there exactly when that one is gone.
LEMMA GapOnlyWhereLost ==
    ASSUME ChainHolds, NEW f \in files, Undisturbed(f)
    PROVE  f \in Gaps <=> \E l \in lost : ComesBefore(l, f)
<1>1. /\ OnceEach /\ f \in Written /\ files \subseteq Written /\ lost \subseteq Written
      /\ LinkIs(f.previous, Earlier(f, Written))
    BY DEF ChainHolds, ChainInv, Linked, Undisturbed, Fair, Written
<1>2. \A g \in Written : g.time \in Nat /\ g.time >= 1 /\ g.previous \in Nat
    BY NumbersOfReports
<1>3. CASE Earlier(f, Written) = {}
    <2>1. Before(f) = {} /\ f.previous = 0 /\ \A l \in lost : ~ ComesBefore(l, f)
        BY <1>1, <1>3 DEF Before, Earlier, LinkIs, ComesBefore
    <2>2. QED BY <2>1 DEF Gaps, Expected
<1>4. CASE Earlier(f, Written) # {}
    <2> DEFINE Times == {g.time : g \in Earlier(f, Written)}
    <2>1. MaxRuns \in Nat /\ Times \subseteq 0 .. MaxRuns /\ Times # {}
        BY <1>4, ChainAssumption DEF ChainHolds, ChainTypes, ChainTypeOK, Report, Earlier, Written
    <2>2. PICK last \in Times : \A t \in Times : t <= last
        BY <2>1, Greatest
    <2>3. PICK q \in Earlier(f, Written) : last = q.time
        OBVIOUS
    <2>4. /\ q \in Written /\ q.time < f.time /\ Newest(q, Earlier(f, Written))
          /\ \A h \in Written : h.time < f.time => h.time <= q.time
        BY <2>2, <2>3 DEF Earlier, Newest
    <2>5. ComesBefore(q, f)
        BY <2>4 DEF ComesBefore, Written
    <2>6. Fair(q.time) /\ q \in files \cup lost
        BY <2>4, <2>5 DEF Undisturbed, Fair, Written
    <2>7. f.previous = q.time /\ q.digest = q.time
        BY <1>1, <2>3, <2>4, <2>6 DEF LinkIs, ChainHolds, ChainInv, Linked
    <2>8. CASE q \in files
        <3>1. q \in Before(f)
            BY <2>4, <2>8 DEF Before
        <3>2. PICK g \in Before(f) : Expected(f) = g.digest /\ \A h \in Before(f) : h.time <= g.time
            BY <3>1, ExpectedIs
        <3>3. g \in Written /\ q.time <= g.time /\ g.time <= q.time
            BY <1>1, <2>4, <3>1, <3>2 DEF Before
        <3>4. g = q
            BY <1>1, <1>2, <2>4, <3>3 DEF OnceEach
        <3>5. f \notin Gaps
            BY <2>7, <3>2, <3>4 DEF Gaps
        <3>6. ASSUME NEW l \in lost, ComesBefore(l, f)
              PROVE  FALSE
            <4>1. l \in Written /\ l.time <= q.time /\ q.time <= l.time
                BY <1>1, <2>4, <2>6, <3>6 DEF ComesBefore
            <4>2. l = q
                BY <1>1, <1>2, <2>4, <4>1 DEF OnceEach
            <4>3. QED BY <1>1, <2>8, <3>6, <4>2 DEF OnceEach
        <3>7. QED BY <3>5, <3>6
    <2>9. CASE q \in lost
        <3>1. Expected(f) # q.time
            <4>1. CASE Before(f) = {}
                BY <1>2, <2>4, <4>1 DEF Expected
            <4>2. CASE Before(f) # {}
                <5>1. PICK g \in Before(f) : Expected(f) = g.digest
                    BY <4>2, ExpectedIs
                <5>2. g \in files /\ g \in Written /\ g # q
                    BY <1>1, <2>9, <5>1 DEF Before, OnceEach
                <5>3. g.time # q.time /\ g.digest \in {0, g.time} /\ q.time >= 1 /\ q.time \in Nat
                    BY <1>1, <1>2, <2>4, <5>2 DEF OnceEach
                <5>4. QED BY <5>1, <5>3
            <4>3. QED BY <4>1, <4>2
        <3>2. f \in Gaps
            BY <2>7, <3>1 DEF Gaps
        <3>3. QED BY <2>5, <2>9, <3>2
    <2>10. QED BY <2>6, <2>8, <2>9
<1>5. QED BY <1>3, <1>4

\* What the chain promises follows.
LEMMA ChainFollows ==
    ASSUME ChainHolds
    PROVE  ChainTypeOK /\ LinksNameReports /\ OneKeySigns /\ VerifyIsRight
<1>1. ChainTypeOK
    BY DEF ChainHolds, ChainTypes
<1>2. LinksNameReports
    BY DEF ChainHolds, Named, Known, Written, LinksNameReports
<1>3. OneKeySigns
    <2>1. key \in [is : {"absent", "empty", "whole"}, of : Digests]
        BY <1>1 DEF ChainTypeOK
    <2>2. key.is = "whole" => key = [is |-> "whole", of |-> key.of]
        BY <2>1
    <2>3. QED BY <2>2 DEF ChainHolds, KeyInv, KeySigned, InUse, Written, OneKeySigns
<1>4. VerifyIsRight
    BY GapOnlyWhereLost DEF VerifyIsRight
<1>5. QED BY <1>1, <1>2, <1>3, <1>4

\* The reports, links, keys and timestamps keep their types, whatever dies or is lost.
THEOREM ChainTypeCorrect == ChainSpec => []ChainTypeOK
BY ChainFollows, ChainInvariance, PTL

\* However many executions write at the same time, wherever they die and whatever error the
\* code drops, no report links to one that was never written.
THEOREM NoDanglingLink == ChainSpec => []LinksNameReports
BY ChainFollows, ChainInvariance, PTL

\* Every signature is by the key in the file, except by keys that a failing read had
\* replaced or that two executions made at the same time: no death, truncated file or
\* failing write leaves a signature by a key nobody has.
THEOREM SignedByOne == ChainSpec => []OneKeySigns
BY ChainFollows, ChainInvariance, PTL

\* `evidence verify` finds a gap at a report exactly when the one before it is gone, for
\* every report that, like the one before it, nothing disturbed while it was written: no
\* overlap, no report of the panel, no error of .chain that the code drops (evidence.rs:310,
\* 314), no death before .chain.  What was disturbed earlier or elsewhere does not matter.
THEOREM GapsAreLosses == ChainSpec => []VerifyIsRight
BY ChainFollows, ChainInvariance, PTL

------------------------------------------------------------------------------
(* The job queue *)

\* persist keeps the type of the writes.
LEMMA PersistType ==
    ASSUME JobTypeOK, NEW j \in Jobs, NEW by \in Authors, NEW what \in Statuses \ {"none"}, NEW n \in 0 .. MaxCancels,
           Persist(j, by, what, n)
    PROVE  writes' \in [Jobs -> SUBSET Writes]
<1> DEFINE one == [by |-> by, n |-> n, what |-> what, torn |-> writes[j] # {}]
           marked == {[w EXCEPT !.torn = TRUE] : w \in writes[j]}
<1>1. writes \in [Jobs -> SUBSET Writes]
    BY DEF JobTypeOK
<1>2. writes' = [writes EXCEPT ![j] = marked \cup {one}]
    BY <1>1 DEF Persist
<1>3. one \in Writes
    <2>1. (writes[j] # {}) \in BOOLEAN
        OBVIOUS
    <2>2. QED BY <2>1 DEF Writes
<1>4. ASSUME NEW w \in writes[j]
      PROVE  [w EXCEPT !.torn = TRUE] \in Writes
    <2>1. w \in Writes
        BY <1>1
    <2>2. QED BY <2>1 DEF Writes
<1>5. marked \subseteq Writes
    BY <1>4
<1> HIDE DEF one, marked
<1>6. QED BY <1>1, <1>2, <1>3, <1>5

LEMMA JobInitially ==
    ASSUME JobAssumption, JobInit
    PROVE  JobTypeOK
<1>1. 0 \in 0 .. MaxCancels /\ 0 \in 0 .. MaxRestarts
    BY DEF JobAssumption
<1>2. writes \in [Jobs -> SUBSET Writes]
    BY DEF JobInit
<1>3. QED BY <1>1, <1>2 DEF JobInit, JobTypeOK, Statuses, Places

\* The steps of create and run that save nothing.
Moves(j) ==
    \/ LooksForCli(j) \/ NoCli(j) \/ SpawnsCli(j) \/ Saved(j) \/ Watchdog(j) \/ ForceKill(j)
    \/ ChildCloses(j) /\ status[j] = "cancelled"

\* Those that save, and what.
Saves(j) ==
    \/ Create(j) \/ RunBegins(j) \/ Fallback(j) \/ RunThrows(j) \/ Cancel(j)
    \/ ChildCloses(j) /\ status[j] # "cancelled"

LEMMA Steps ==
    ASSUME JobNext
    PROVE  \/ \E j \in Jobs : Moves(j) \/ Saves(j) \/ WriteEnds(j) \/ WriteFails(j)
           \/ Restart
BY DEF JobNext, Proceeds, Moves, Saves

\* A step that saves: one job changes, and its record is written as it then is.
LEMMA SavesWhat ==
    ASSUME JobTypeOK, JobAssumption, NEW j \in Jobs, Saves(j)
    PROVE  \E by \in Authors, n \in 0 .. MaxCancels :
              /\ Persist(j, by, status'[j], n)
              /\ status'[j] \in Statuses \ {"none"}
              /\ UNCHANGED <<disk, timedOut, restarts>>
<1>1. status \in [Jobs -> Statuses] /\ cancels \in [Jobs -> 0 .. MaxCancels] /\ 0 \in 0 .. MaxCancels
    BY DEF JobTypeOK, JobAssumption
<1>2. CASE Create(j) \/ RunBegins(j) \/ RunThrows(j)
    BY <1>1, <1>2 DEF Create, RunBegins, RunThrows, Caught, Statuses, Terminal, Authors
<1>3. CASE Fallback(j)
    BY <1>1, <1>3 DEF Fallback, Statuses, Terminal, Authors
<1>4. CASE Cancel(j)
    BY <1>1, <1>4 DEF Cancel, Statuses, Terminal, Authors
<1>5. CASE ChildCloses(j) /\ status[j] # "cancelled"
    BY <1>1, <1>5 DEF ChildCloses, Outcomes, Statuses, Terminal, Authors
<1>6. QED BY <1>2, <1>3, <1>4, <1>5 DEF Saves

\* The types of everything but the writes.
Rest ==
    /\ status \in [Jobs -> Statuses]
    /\ at \in [Jobs -> Places]
    /\ children \in [Jobs -> {"none", "alive", "term", "killed"}]
    /\ timedOut \in [Jobs -> BOOLEAN]
    /\ disk \in [Jobs -> Statuses \cup {"damaged"}]
    /\ cancels \in [Jobs -> 0 .. MaxCancels]
    /\ restarts \in 0 .. MaxRestarts

LEMMA JobTypeStep ==
    ASSUME JobAssumption, JobTypeOK, [JobNext]_jobVars
    PROVE  JobTypeOK'
<1>1. Rest /\ writes \in [Jobs -> SUBSET Writes] /\ MaxCancels \in Nat /\ MaxRestarts \in Nat
    BY DEF JobTypeOK, Rest, JobAssumption
<1>2. ASSUME NEW j \in Jobs, Moves(j)
      PROVE  JobTypeOK'
    <2>1. UNCHANGED <<status, writes, disk, cancels, restarts>>
        BY <1>2 DEF Moves, LooksForCli, NoCli, SpawnsCli, Saved, Watchdog, ForceKill, ChildCloses
    <2>2. at' \in [Jobs -> Places] /\ children' \in [Jobs -> {"none", "alive", "term", "killed"}]
        BY <1>1, <1>2 DEF Rest, Places, Moves, LooksForCli, NoCli, SpawnsCli, Saved, Watchdog, ForceKill, ChildCloses
    <2>3. timedOut' \in [Jobs -> BOOLEAN]
        BY <1>1, <1>2 DEF Rest, Moves, LooksForCli, NoCli, SpawnsCli, Saved, Watchdog, ForceKill, ChildCloses
    <2>4. QED BY <1>1, <2>1, <2>2, <2>3 DEF JobTypeOK, Rest
<1>3. ASSUME NEW j \in Jobs, Saves(j)
      PROVE  JobTypeOK'
    <2>1. PICK by \in Authors, n \in 0 .. MaxCancels :
              /\ Persist(j, by, status'[j], n)
              /\ status'[j] \in Statuses \ {"none"}
              /\ UNCHANGED <<disk, timedOut, restarts>>
        BY <1>3, SavesWhat
    <2>2. writes' \in [Jobs -> SUBSET Writes]
        BY <2>1, PersistType
    <2>3. status' \in [Jobs -> Statuses]
        <3>1. \E s : status' = [status EXCEPT ![j] = s]
            BY <1>3 DEF Saves, Create, RunBegins, Fallback, RunThrows, Caught, Cancel, ChildCloses
        <3>2. QED BY <1>1, <2>1, <3>1 DEF Rest
    <2>4. /\ at' \in [Jobs -> Places]
          /\ children' \in [Jobs -> {"none", "alive", "term", "killed"}]
        BY <1>1, <1>3 DEF Rest, Places, Saves, Create, RunBegins, Fallback, RunThrows, Caught, Cancel, ChildCloses
    <2>5. cancels' \in [Jobs -> 0 .. MaxCancels]
        BY <1>1, <1>3 DEF Rest, Saves, Create, RunBegins, Fallback, RunThrows, Caught, Cancel, ChildCloses
    <2>6. QED BY <1>1, <2>1, <2>2, <2>3, <2>4, <2>5 DEF JobTypeOK, Rest
<1>4. ASSUME NEW j \in Jobs, WriteEnds(j)
      PROVE  JobTypeOK'
    <2>1. PICK w \in writes[j], after \in {u.what : u \in writes[j]} \cup {"damaged", disk[j]} :
              /\ writes' = [writes EXCEPT ![j] = @ \ {w}]
              /\ after \in {w.what, "damaged", disk[j]}
              /\ disk' = [disk EXCEPT ![j] = after]
              /\ UNCHANGED <<status, at, children, timedOut, cancels, restarts>>
        BY <1>4 DEF WriteEnds
    <2>2. w \in Writes
        BY <1>1
    <2>3. after \in Statuses \cup {"damaged"}
        BY <1>1, <2>1, <2>2 DEF Rest, Writes
    <2>4. QED BY <1>1, <2>1, <2>3 DEF JobTypeOK, Rest
<1>5. ASSUME NEW j \in Jobs, WriteFails(j)
      PROVE  JobTypeOK'
    <2>1. PICK w \in writes[j] :
              LET in == [writes EXCEPT ![j] = @ \ {w}]
              IN  /\ disk' = [disk EXCEPT ![j] = "damaged"]
                  /\ \/ /\ w.by # "run"
                        /\ at' = IF w.by = "create" THEN [at EXCEPT ![j] = "rejected"] ELSE at
                        /\ writes' = in
                        /\ UNCHANGED <<status, children>>
                     \/ /\ w.by = "run" /\ at[j] = "saving"
                        /\ at' = [at EXCEPT ![j] = "catching"]
                        /\ status' = [status EXCEPT ![j] = "failed"]
                        /\ children' = [children EXCEPT ![j] = "none"]
                        /\ writes' = [in EXCEPT ![j] = @ \cup
                              {[by |-> "run", n |-> 0, what |-> "failed", torn |-> in[j] # {}]}]
                  /\ UNCHANGED <<timedOut, cancels, restarts>>
        BY <1>5 DEF WriteFails
    <2> DEFINE in == [writes EXCEPT ![j] = @ \ {w}]
               one == [by |-> "run", n |-> 0, what |-> "failed", torn |-> in[j] # {}]
    <2>2. in \in [Jobs -> SUBSET Writes]
        BY <1>1
    <2>3. one \in Writes
        <3>1. (in[j] # {}) \in BOOLEAN /\ 0 \in 0 .. MaxCancels
            BY <1>1
        <3>2. QED BY <3>1 DEF Writes, Statuses, Terminal, Authors
    <2>4. writes' = in \/ writes' = [in EXCEPT ![j] = @ \cup {one}]
        BY <2>1
    <2> HIDE DEF in, one
    <2>5. writes' \in [Jobs -> SUBSET Writes]
        BY <2>2, <2>3, <2>4
    <2>6. disk' \in [Jobs -> Statuses \cup {"damaged"}]
        BY <1>1, <2>1 DEF Rest
    <2>7. at' \in [Jobs -> Places] /\ status' \in [Jobs -> Statuses]
          /\ children' \in [Jobs -> {"none", "alive", "term", "killed"}]
        BY <1>1, <2>1 DEF Rest, Places, Statuses, Terminal
    <2>8. UNCHANGED <<timedOut, cancels, restarts>>
        BY <2>1
    <2>9. QED BY <1>1, <2>5, <2>6, <2>7, <2>8 DEF JobTypeOK, Rest
<1>6. CASE Restart
    <2>1. PICK left \in [Jobs -> UNION {Left(j) : j \in Jobs}] :
              /\ \A j \in Jobs : left[j] \in Left(j)
              /\ disk' = left
              /\ status' = [j \in Jobs |-> Restored(left[j])]
              /\ at' = [j \in Jobs |-> IF at[j] = "nowhere" THEN "nowhere" ELSE "restored"]
        BY <1>6 DEF Restart
    <2>2. ASSUME NEW j \in Jobs
          PROVE  left[j] \in Statuses \cup {"damaged"}
        <3>1. \A w \in writes[j] : w.what \in Statuses
            BY <1>1 DEF Writes
        <3>2. QED BY <1>1, <2>1, <3>1 DEF Left, Rest
    <2>3. disk' \in [Jobs -> Statuses \cup {"damaged"}]
        BY <2>1, <2>2
    <2>4. status' \in [Jobs -> Statuses]
        BY <2>1, <2>2 DEF Restored, Statuses, Terminal
    <2>5. at' \in [Jobs -> Places]
        BY <2>1 DEF Places
    <2>6. /\ children' \in [Jobs -> {"none", "alive", "term", "killed"}]
          /\ writes' \in [Jobs -> SUBSET Writes]
          /\ cancels' = cancels
          /\ restarts' \in 0 .. MaxRestarts
        BY <1>1, <1>6 DEF Restart, Rest
    <2>7. timedOut' \in [Jobs -> BOOLEAN]
        BY <1>6 DEF Restart
    <2>8. QED BY <1>1, <2>3, <2>4, <2>5, <2>6, <2>7 DEF JobTypeOK, Rest
<1>7. CASE UNCHANGED jobVars
    BY <1>7 DEF jobVars, JobTypeOK
<1>8. QED BY <1>2, <1>3, <1>4, <1>5, <1>6, <1>7, Steps

------------------------------------------------------------------------------
(* The invariant, of one job *)

\* Only run, while it waits for it, has a process.
Working(j) == children[j] # "none" => at[j] = "collecting"

\* What the place of create or run says of the status, and who has a write under way.
Placed(j) ==
    /\ at[j] = "nowhere" => status[j] = "none" /\ writes[j] = {} /\ disk[j] = "none"
    /\ at[j] \in {"starting", "invoking", "fallback", "collecting"} => status[j] \in {"running", "cancelled"}
    /\ at[j] = "restored" => status[j] \in Terminal \cup {"none"}
    /\ \A w \in writes[j] :
        /\ w.by = "create" => at[j] \in {"creating", "rejected"}
        /\ w.by = "run" => at[j] \in {"starting", "saving", "catching"}

\* Without cancels at most one write is under way, with what memory says.
Saving(j) ==
    cancels[j] = 0 =>
        /\ writes[j] = {} \/ \E w : writes[j] = {w} /\ w.what = status[j] /\ ~ w.torn /\ w.by # "cancel"
        /\ writes[j] = {} /\ at[j] \notin {"restored", "rejected"} => disk[j] = status[j]

Good(j) == Working(j) /\ Placed(j) /\ Saving(j)

JobHolds == JobTypeOK /\ \A j \in Jobs : Good(j)

\* Whoever saves without a cancel finds nothing under way.
LEMMA NothingUnderWay ==
    ASSUME JobHolds, NEW j \in Jobs, Saves(j), ~ Cancel(j), cancels[j] = 0
    PROVE  writes[j] = {}
<1>1. Placed(j) /\ Saving(j)
    BY DEF JobHolds, Good
<1>2. CASE Create(j)
    BY <1>1, <1>2 DEF Create, Placed
<1>3. CASE RunBegins(j)
    <2>1. at[j] = "creating" /\ \A w \in writes[j] : w.by # "create"
        BY <1>3 DEF RunBegins, Awaits
    <2>2. \A w \in writes[j] : w.by \in Authors
        BY DEF JobHolds, JobTypeOK, Writes
    <2>3. QED BY <1>1, <2>1, <2>2 DEF Placed, Saving, Authors
<1>4. CASE Fallback(j) \/ RunThrows(j) \/ ChildCloses(j)
    <2>1. at[j] \in {"invoking", "fallback", "collecting"}
        BY <1>4 DEF Fallback, RunThrows, ChildCloses
    <2>2. \A w \in writes[j] : w.by \in Authors
        BY DEF JobHolds, JobTypeOK, Writes
    <2>3. QED BY <1>1, <2>1, <2>2 DEF Placed, Saving, Authors
<1>5. QED BY <1>2, <1>3, <1>4 DEF Saves

\* The other jobs stay as they are.
LEMMA OtherJobs ==
    ASSUME JobHolds, NEW j \in Jobs, Moves(j) \/ Saves(j) \/ WriteEnds(j) \/ WriteFails(j), NEW k \in Jobs \ {j}
    PROVE  Good(k)'
<1>1. /\ status \in [Jobs -> Statuses] /\ at \in [Jobs -> Places] /\ writes \in [Jobs -> SUBSET Writes]
      /\ children \in [Jobs -> {"none", "alive", "term", "killed"}] /\ cancels \in [Jobs -> 0 .. MaxCancels]
      /\ disk \in [Jobs -> Statuses \cup {"damaged"}]
    BY DEF JobHolds, JobTypeOK
<1>2. UNCHANGED <<status[k], at[k], children[k], cancels[k], writes[k], disk[k]>>
    <2>1. CASE Moves(j)
        BY <1>1, <2>1 DEF Moves, LooksForCli, NoCli, SpawnsCli, Saved, Watchdog, ForceKill, ChildCloses
    <2>2. CASE Saves(j)
        BY <1>1, <2>2 DEF Saves, Create, RunBegins, Fallback, RunThrows, Caught, Cancel, ChildCloses, Persist
    <2>3. CASE WriteEnds(j)
        BY <1>1, <2>3 DEF WriteEnds
    <2>4. CASE WriteFails(j)
        BY <1>1, <2>4 DEF WriteFails
    <2>5. QED BY <2>1, <2>2, <2>3, <2>4
<1>3. Good(k)
    BY DEF JobHolds
<1>4. QED BY <1>2, <1>3 DEF Good, Working, Placed, Saving

LEMMA GoodStep ==
    ASSUME JobAssumption, JobHolds, [JobNext]_jobVars
    PROVE  \A j \in Jobs : Good(j)'
<1>1. /\ status \in [Jobs -> Statuses] /\ at \in [Jobs -> Places] /\ writes \in [Jobs -> SUBSET Writes]
      /\ children \in [Jobs -> {"none", "alive", "term", "killed"}] /\ cancels \in [Jobs -> 0 .. MaxCancels]
      /\ disk \in [Jobs -> Statuses \cup {"damaged"}]
    BY DEF JobHolds, JobTypeOK
<1>2. ASSUME NEW j \in Jobs, Moves(j)
      PROVE  Good(j)'
    <2>1. Working(j) /\ Placed(j) /\ Saving(j)
        BY DEF JobHolds, Good
    <2>2. UNCHANGED <<status, writes, disk, cancels>>
        BY <1>2 DEF Moves, LooksForCli, NoCli, SpawnsCli, Saved, Watchdog, ForceKill, ChildCloses
    <2>3. \/ at[j] = "starting" /\ at'[j] = "invoking" /\ UNCHANGED children /\ ~ Awaits(j, "run")
          \/ at[j] = "invoking" /\ at'[j] = "fallback" /\ UNCHANGED children
          \/ at[j] = "invoking" /\ at'[j] = "collecting"
          \/ at[j] = "collecting" /\ UNCHANGED at
          \/ children[j] # "none" /\ UNCHANGED at
          \/ at[j] = "collecting" /\ at'[j] = "done" /\ children'[j] = "none"
          \/ at[j] \in {"saving", "catching"} /\ at'[j] = "done" /\ UNCHANGED children /\ ~ Awaits(j, "run")
        BY <1>1, <1>2 DEF Moves, LooksForCli, NoCli, SpawnsCli, Saved, Watchdog, ForceKill, ChildCloses
    <2>4. ~ Awaits(j, "run") => \A w \in writes[j] : w.by # "run"
        BY DEF Awaits
    <2>5. Working(j)'
        BY <2>1, <2>3 DEF Working
    <2>6. Placed(j)'
        BY <2>1, <2>2, <2>3, <2>4 DEF Placed, Working
    <2>7. Saving(j)'
        BY <2>1, <2>2, <2>3 DEF Saving, Working
    <2>8. QED BY <2>5, <2>6, <2>7 DEF Good
<1>3. ASSUME NEW j \in Jobs, Saves(j)
      PROVE  Good(j)'
    <2>1. Working(j) /\ Placed(j) /\ Saving(j)
        BY DEF JobHolds, Good
    <2>2. UNCHANGED <<disk, restarts>>
        BY <1>3 DEF Saves, Create, RunBegins, Fallback, RunThrows, Caught, Cancel, ChildCloses
    <2>3. \/ at[j] = "nowhere" /\ at'[j] = "creating" /\ status'[j] = "queued" /\ UNCHANGED <<children, cancels>>
          \/ at[j] = "creating" /\ at'[j] = "starting" /\ status'[j] = "running" /\ UNCHANGED <<children, cancels>>
          \/ at[j] \in {"invoking", "fallback", "collecting"} /\ at'[j] \in {"saving", "catching"}
                /\ UNCHANGED cancels /\ (children'[j] = "none" \/ (at[j] = "fallback" /\ UNCHANGED children))
          \/ /\ status[j] \notin Terminal \cup {"none"} /\ UNCHANGED at /\ status'[j] = "cancelled"
             /\ children'[j] = children[j] \/ (children[j] = "alive" /\ children'[j] = "term")
             /\ cancels'[j] = cancels[j] + 1 /\ Cancel(j)
        <3>1. CASE Create(j) \/ RunBegins(j)
            BY <1>1, <3>1 DEF Create, RunBegins
        <3>2. CASE Fallback(j) \/ RunThrows(j)
            BY <1>1, <3>2 DEF Fallback, RunThrows, Caught
        <3>3. CASE Cancel(j)
            BY <1>1, <3>3 DEF Cancel
        <3>4. CASE ChildCloses(j) /\ status[j] # "cancelled"
            BY <1>1, <3>4 DEF ChildCloses
        <3>5. QED BY <1>3, <3>1, <3>2, <3>3, <3>4 DEF Saves
    <2>4. Working(j)'
        BY <2>1, <2>3 DEF Working
    <2>5. PICK by \in Authors, n \in 0 .. MaxCancels :
            /\ Persist(j, by, status'[j], n)
            /\ by = "create" => at'[j] \in {"creating", "rejected"}
            /\ by = "run" => at'[j] \in {"starting", "saving", "catching"}
            /\ by = "cancel" => Cancel(j)
        <3>1. 0 \in 0 .. MaxCancels /\ \A k \in Jobs : cancels[k] \in 0 .. MaxCancels
            BY <1>1 DEF JobAssumption
        <3>2. CASE Create(j)
            BY <1>1, <3>1, <3>2 DEF Create, Authors
        <3>3. CASE RunBegins(j) \/ RunThrows(j)
            BY <1>1, <3>1, <3>3 DEF RunBegins, RunThrows, Caught, Authors
        <3>4. CASE Fallback(j)
            BY <1>1, <3>1, <3>4 DEF Fallback, Authors
        <3>5. CASE Cancel(j)
            BY <1>1, <3>1, <3>5 DEF Cancel, Authors
        <3>6. CASE ChildCloses(j) /\ status[j] # "cancelled"
            BY <1>1, <3>1, <3>6 DEF ChildCloses, Authors
        <3>7. QED BY <1>3, <3>2, <3>3, <3>4, <3>5, <3>6 DEF Saves
    <2> DEFINE one == [by |-> by, n |-> n, what |-> status'[j], torn |-> writes[j] # {}]
               marked == {[w EXCEPT !.torn = TRUE] : w \in writes[j]}
    <2>6. writes'[j] = marked \cup {one}
        BY <1>1, <2>5 DEF Persist
    <2>7. one.by = by /\ one.what = status'[j] /\ (writes[j] = {} => ~ one.torn /\ marked = {})
        OBVIOUS
    <2>8. \A v \in marked : \E w \in writes[j] : v.by = w.by
        <3>1. \A w \in writes[j] : w \in Writes
            BY <1>1
        <3>2. QED BY <3>1 DEF Writes
    <2> HIDE DEF one, marked
    <2>9. \A w \in writes'[j] : /\ w.by = "create" => at'[j] \in {"creating", "rejected"}
                                /\ w.by = "run" => at'[j] \in {"starting", "saving", "catching"}
        <3>1. ASSUME NEW v \in marked
              PROVE  /\ v.by = "create" => at'[j] \in {"creating", "rejected"}
                     /\ v.by = "run" => at'[j] \in {"starting", "saving", "catching"}
            <4>1. PICK w \in writes[j] : v.by = w.by
                BY <2>8
            <4>2. CASE Cancel(j)
                BY <2>1, <4>1, <4>2 DEF Placed, Cancel
            <4>3. CASE ~ Cancel(j)
                <5>1. CASE RunBegins(j)
                    BY <2>1, <4>1, <5>1 DEF Placed, RunBegins, Awaits
                <5>2. CASE ~ RunBegins(j)
                    <6>1. at[j] \in {"nowhere", "invoking", "fallback", "collecting"}
                        BY <1>3, <4>3, <5>2 DEF Saves, Create, Fallback, RunThrows, ChildCloses
                    <6>2. QED BY <2>1, <4>1, <6>1 DEF Placed
                <5>3. QED BY <5>1, <5>2
            <4>4. QED BY <4>2, <4>3
        <3>2. QED BY <2>5, <2>6, <2>7, <3>1
    <2>10. Placed(j)'
        BY <2>1, <2>3, <2>6, <2>9 DEF Placed, Terminal
    <2>11. Saving(j)'
        <3>1. CASE Cancel(j)
            <4>1. cancels[j] \in Nat /\ cancels'[j] = cancels[j] + 1
                BY <1>1, <3>1 DEF Cancel
            <4>2. QED BY <4>1 DEF Saving
        <3>2. CASE ~ Cancel(j)
            <4>1. cancels'[j] = cancels[j]
                BY <2>3, <3>2
            <4>2. cancels[j] = 0 => writes[j] = {}
                BY <1>3, <3>2, NothingUnderWay
            <4>3. by # "cancel"
                BY <2>5, <3>2
            <4>4. cancels[j] = 0 => writes'[j] = {one} /\ ~ one.torn /\ one.what = status'[j] /\ one.by # "cancel"
                BY <2>6, <2>7, <4>2, <4>3
            <4>5. QED BY <4>1, <4>4 DEF Saving
        <3>3. QED BY <3>1, <3>2
    <2>12. QED BY <2>4, <2>10, <2>11 DEF Good
<1>4. ASSUME NEW j \in Jobs, WriteEnds(j)
      PROVE  Good(j)'
    <2>1. Working(j) /\ Placed(j) /\ Saving(j)
        BY DEF JobHolds, Good
    <2>2. PICK w \in writes[j] :
              /\ writes' = [writes EXCEPT ![j] = @ \ {w}]
              /\ \E after \in {w.what} \cup (IF w.torn THEN {"damaged"} ELSE {})
                                       \cup (IF w.torn /\ writes[j] = {w} THEN {disk[j]} ELSE {}) :
                    disk' = [disk EXCEPT ![j] = after]
              /\ UNCHANGED <<status, at, children, timedOut, cancels, restarts>>
        BY <1>4 DEF WriteEnds
    <2>3. writes'[j] = writes[j] \ {w} /\ at[j] # "nowhere"
        BY <1>1, <2>1, <2>2 DEF Placed
    <2>4. cancels[j] = 0 => writes'[j] = {} /\ disk'[j] = status[j]
        BY <1>1, <2>1, <2>2, <2>3 DEF Saving
    <2>5. Working(j)'
        BY <2>1, <2>2 DEF Working
    <2>6. Placed(j)'
        BY <2>1, <2>2, <2>3 DEF Placed
    <2>7. Saving(j)'
        BY <2>2, <2>4 DEF Saving
    <2>8. QED BY <2>5, <2>6, <2>7 DEF Good
<1>5. ASSUME NEW j \in Jobs, WriteFails(j)
      PROVE  Good(j)'
    <2>1. Working(j) /\ Placed(j) /\ Saving(j)
        BY DEF JobHolds, Good
    <2>2. PICK w \in writes[j] :
              LET in == [writes EXCEPT ![j] = @ \ {w}]
              IN  /\ disk' = [disk EXCEPT ![j] = "damaged"]
                  /\ \/ /\ w.by # "run"
                        /\ at' = IF w.by = "create" THEN [at EXCEPT ![j] = "rejected"] ELSE at
                        /\ writes' = in
                        /\ UNCHANGED <<status, children>>
                     \/ /\ w.by = "run" /\ at[j] = "saving"
                        /\ at' = [at EXCEPT ![j] = "catching"]
                        /\ status' = [status EXCEPT ![j] = "failed"]
                        /\ children' = [children EXCEPT ![j] = "none"]
                        /\ writes' = [in EXCEPT ![j] = @ \cup
                              {[by |-> "run", n |-> 0, what |-> "failed", torn |-> in[j] # {}]}]
                  /\ UNCHANGED <<timedOut, cancels, restarts>>
        BY <1>5 DEF WriteFails
    <2>3. at[j] # "nowhere" /\ w \in Writes /\ UNCHANGED cancels
        BY <1>1, <2>1, <2>2 DEF Placed
    <2>4. CASE w.by # "run"
        <3>1. writes'[j] = writes[j] \ {w} /\ UNCHANGED <<status, children>>
            BY <1>1, <2>2, <2>4
        <3>2. w.by = "create" => at'[j] = "rejected" /\ at[j] \in {"creating", "rejected"}
            BY <1>1, <2>1, <2>2, <2>4 DEF Placed
        <3>3. w.by # "create" => w.by = "cancel" /\ UNCHANGED at
            BY <2>2, <2>3, <2>4 DEF Writes, Authors
        <3>4. Working(j)'
            BY <2>1, <3>1, <3>2, <3>3 DEF Working
        <3>5. Placed(j)'
            BY <2>1, <2>3, <3>1, <3>2, <3>3 DEF Placed
        <3>6. Saving(j)'
            BY <2>1, <2>3, <3>1, <3>2, <3>3 DEF Saving
        <3>7. QED BY <3>4, <3>5, <3>6 DEF Good
    <2>5. CASE w.by = "run"
        <3> DEFINE one == [by |-> "run", n |-> 0, what |-> "failed", torn |-> writes[j] \ {w} # {}]
        <3>1. at'[j] = "catching" /\ status'[j] = "failed" /\ children'[j] = "none"
            BY <1>1, <2>2, <2>5
        <3>2. writes'[j] = (writes[j] \ {w}) \cup {one}
            BY <1>1, <2>2, <2>5
        <3>3. /\ one.by = "run" /\ one.what = "failed" /\ (writes[j] = {w} => ~ one.torn)
              /\ at[j] = "saving"
            BY <2>2, <2>5
        <3> HIDE DEF one
        <3>4. Working(j)'
            BY <3>1 DEF Working
        <3>5. Placed(j)'
            BY <2>1, <3>1, <3>2, <3>3 DEF Placed
        <3>6. cancels[j] = 0 => writes'[j] = {one} /\ ~ one.torn
            BY <2>1, <3>2, <3>3 DEF Saving
        <3>7. Saving(j)'
            BY <2>3, <3>1, <3>3, <3>6 DEF Saving
        <3>8. QED BY <3>4, <3>5, <3>7 DEF Good
    <2>6. QED BY <2>4, <2>5
<1>6. ASSUME Restart, NEW j \in Jobs
      PROVE  Good(j)'
    <2>1. Placed(j)
        BY DEF JobHolds, Good
    <2>2. PICK left \in [Jobs -> UNION {Left(k) : k \in Jobs}] :
              /\ \A k \in Jobs : left[k] \in Left(k)
              /\ disk' = left
              /\ status' = [k \in Jobs |-> Restored(left[k])]
              /\ at' = [k \in Jobs |-> IF at[k] = "nowhere" THEN "nowhere" ELSE "restored"]
        BY <1>6 DEF Restart
    <2>3. children'[j] = "none" /\ writes'[j] = {}
        BY <1>6 DEF Restart
    <2>4. left[j] \in Statuses \cup {"damaged"}
        <3>1. \A w \in writes[j] : w.what \in Statuses
            BY <1>1 DEF Writes
        <3>2. QED BY <1>1, <2>2, <3>1 DEF Left
    <2>5. status'[j] \in Terminal \cup {"none"}
        BY <2>2, <2>4 DEF Restored, Statuses, Terminal
    <2>6. at[j] = "nowhere" => left[j] = "none" /\ status'[j] = "none"
        BY <2>1, <2>2 DEF Placed, Left, Restored
    <2>7. Working(j)'
        BY <2>3 DEF Working
    <2>8. Placed(j)'
        BY <2>2, <2>3, <2>5, <2>6 DEF Placed
    <2>9. Saving(j)'
        BY <2>2, <2>3, <2>6 DEF Saving
    <2>10. QED BY <2>7, <2>8, <2>9 DEF Good
<1>7. CASE UNCHANGED jobVars
    BY <1>7 DEF jobVars, JobHolds, Good, Working, Placed, Saving
<1>8. ASSUME NEW j \in Jobs, Moves(j) \/ Saves(j) \/ WriteEnds(j) \/ WriteFails(j)
      PROVE  \A k \in Jobs : Good(k)'
    BY <1>2, <1>3, <1>4, <1>5, <1>8, OtherJobs
<1>9. QED BY <1>6, <1>7, <1>8, Steps

LEMMA JobStarts ==
    ASSUME JobAssumption
    PROVE  JobInit => JobHolds
<1>1. ASSUME JobInit, NEW j \in Jobs
      PROVE  Good(j)
    BY <1>1 DEF JobInit, Good, Working, Placed, Saving
<1>2. QED BY <1>1, JobInitially DEF JobHolds

LEMMA JobKeeps ==
    ASSUME JobAssumption
    PROVE  JobHolds /\ [JobNext]_jobVars => JobHolds'
BY JobTypeStep, GoodStep DEF JobHolds

LEMMA JobInvariance ==
    ASSUME JobAssumption
    PROVE  JobSpec => []JobHolds
BY JobStarts, JobKeeps, PTL DEF JobSpec

\* What the queue promises follows: of its states,
LEMMA JobFollows ==
    ASSUME JobHolds
    PROVE  JobTypeOK /\ FinishedHasNoChild /\ NobodyWaitsAfterRestart /\ DiskFollowsMemory
<1>1. JobTypeOK
    BY DEF JobHolds
<1>2. FinishedHasNoChild
    BY DEF JobHolds, FinishedHasNoChild, Good, Working, Placed, Terminal
<1>3. NobodyWaitsAfterRestart
    BY DEF JobHolds, NobodyWaitsAfterRestart, Good, Placed
<1>4. DiskFollowsMemory
    BY DEF JobHolds, DiskFollowsMemory, Good, Saving
<1>5. QED BY <1>1, <1>2, <1>3, <1>4

\* and of its steps.
Sticks ==
    \A j \in Jobs :
        status[j] = "cancelled" /\ children[j] # "none" /\ restarts' = restarts => status'[j] = "cancelled"

LEMMA StepSticks ==
    ASSUME JobAssumption, JobHolds, [JobNext]_jobVars
    PROVE  [Sticks]_jobVars
<1>1. SUFFICES ASSUME JobNext, NEW k \in Jobs, status[k] = "cancelled", children[k] # "none", restarts' = restarts
               PROVE  status'[k] = "cancelled"
    BY DEF Sticks
<1>2. status \in [Jobs -> Statuses] /\ restarts \in Nat
    BY DEF JobHolds, JobTypeOK
<1>3. at[k] = "collecting"
    BY <1>1 DEF JobHolds, Good, Working
<1>4. ~ Restart
    BY <1>1, <1>2 DEF Restart
<1>5. PICK j \in Jobs : Moves(j) \/ Saves(j) \/ WriteEnds(j) \/ WriteFails(j)
    BY <1>1, <1>4, Steps
<1>6. CASE Moves(j) \/ WriteEnds(j)
    BY <1>1, <1>6 DEF Moves, LooksForCli, NoCli, SpawnsCli, Saved, Watchdog, ForceKill, ChildCloses, WriteEnds
<1>7. CASE Saves(j)
    BY <1>1, <1>2, <1>3, <1>7
       DEF Saves, Create, RunBegins, Fallback, RunThrows, Caught, Cancel, ChildCloses
<1>8. CASE WriteFails(j)
    BY <1>1, <1>2, <1>3, <1>8 DEF WriteFails
<1>9. QED BY <1>5, <1>6, <1>7, <1>8

\* The variables keep their types (jobs.ts, JobStatus and Job).
THEOREM JobTypeCorrect ==
    ASSUME JobAssumption
    PROVE  JobSpec => []JobTypeOK
BY JobFollows, JobInvariance, PTL

\* A job shown as finished, other than by a cancel, has no process any more: run
\* takes it out of `children` before it stores the answer.
THEOREM FinishedJobsHaveNoChild ==
    ASSUME JobAssumption
    PROVE  JobSpec => []FinishedHasNoChild
BY JobFollows, JobInvariance, PTL

\* init leaves nobody waiting for a run that died with the panel.
THEOREM RestartSettles ==
    ASSUME JobAssumption
    PROVE  JobSpec => []NobodyWaitsAfterRestart
BY JobFollows, JobInvariance, PTL

\* Without cancels a job's file says what the panel last showed, once nothing is
\* being written.
THEOREM DiskIsMemory ==
    ASSUME JobAssumption
    PROVE  JobSpec => []DiskFollowsMemory
BY JobFollows, JobInvariance, PTL

\* How a process ends never replaces the answer to a cancel that reached it.
THEOREM CancelSticks ==
    ASSUME JobAssumption
    PROVE  JobSpec => CancelOfRunningSticks
BY JobInvariance, StepSticks, PTL DEF JobSpec, CancelOfRunningSticks, Sticks

------------------------------------------------------------------------------
(* The forwarder *)

\* The connection in the hands of the accepting thread has no place yet, and there is one.
Handed ==
    accepting # Nobody =>
        \E c \in Clients : accepting = {c} /\ stage[c] = "queued" /\ live < MaxConnections

Counted == IsFiniteSet(Holding) /\ live = Cardinality(Holding)

\* Nobody copies what was not written.
Behind == \A c \in Clients, d \in Directions : flow[c][d].copied <= flow[c][d].sent

ForwarderHolds == ForwarderTypeOK /\ Handed /\ Counted /\ Behind /\ EndsFollowData

LEMMA ForwarderInitially ==
    ASSUME ForwarderAssumption, ForwarderInit
    PROVE  ForwarderHolds
<1>1. ForwarderTypeOK
    BY DEF ForwarderInit, ForwarderTypeOK, Flows, Still, Nobody, ForwarderAssumption
<1>2. Holding = {}
    BY DEF ForwarderInit, Holding
<1>3. Counted
    BY <1>2, FS_EmptySet DEF Counted, ForwarderInit
<1>4. Handed /\ Behind /\ EndsFollowData
    BY DEF ForwarderInit, Handed, Behind, EndsFollowData, Still
<1>5. QED BY <1>1, <1>3, <1>4 DEF ForwarderHolds

\* The steps of the accepting thread, of the client and of the bridge that move no data.
Stages(c) ==
    \/ Arrives(c) \/ Refuses(c) \/ Accepts(c) \/ SpawnsThread(c)
    \/ Connects(c) \/ ConnectFails(c) \/ BridgeEnds(c) \/ Leaves(c)

Flowing(c, d) == Sends(c, d) \/ Ends(c, d) \/ Copies(c, d) \/ Tells(c, d) \/ Breaks(c, d)

\* The places are counted by every step that takes or gives one.
LEMMA StagesStep ==
    ASSUME ForwarderAssumption, ForwarderHolds, NEW c \in Clients, Stages(c)
    PROVE  ForwarderHolds'
<1>1. /\ stage \in [Clients -> {"away", "queued", "spawned", "bridged", "left", "shut"}]
      /\ accepting \subseteq Clients
      /\ live \in 0 .. MaxConnections
      /\ MaxConnections \in Nat
      /\ IsFiniteSet(Holding) /\ live = Cardinality(Holding)
    BY DEF ForwarderHolds, ForwarderTypeOK, Counted, ForwarderAssumption
<1>2. UNCHANGED flow
    BY DEF Stages, Arrives, Refuses, Accepts, SpawnsThread, Connects, ConnectFails, BridgeEnds, Leaves
<1>3. Behind' /\ EndsFollowData'
    BY <1>2 DEF ForwarderHolds, Behind, EndsFollowData
<1>4. CASE SpawnsThread(c)
    <2>1. stage[c] = "queued" /\ live < MaxConnections
        BY <1>4 DEF SpawnsThread, ForwarderHolds, Handed, Nobody
    <2>2. Holding' = Holding \cup {c} /\ c \notin Holding
        BY <1>1, <1>4, <2>1 DEF SpawnsThread, Holding
    <2>3. Counted'
        BY <1>1, <1>4, <2>2, FS_AddElement DEF Counted, SpawnsThread
    <2>4. live' \in 0 .. MaxConnections
        BY <1>1, <1>4, <2>1 DEF SpawnsThread
    <2>5. ForwarderTypeOK'
        BY <1>1, <1>2, <1>4, <2>4 DEF ForwarderHolds, ForwarderTypeOK, SpawnsThread, Nobody
    <2>6. Handed'
        BY <1>4 DEF SpawnsThread, Handed
    <2>7. QED BY <1>3, <2>3, <2>5, <2>6 DEF ForwarderHolds
<1>5. CASE Leaves(c)
    <2>1. c \in Holding /\ Holding' = Holding \ {c}
        BY <1>1, <1>5 DEF Leaves, Holding
    <2>2. Cardinality(Holding') = Cardinality(Holding) - 1 /\ IsFiniteSet(Holding')
        BY <1>1, <2>1, FS_RemoveElement
    <2>3. Counted'
        BY <1>1, <1>5, <2>2 DEF Counted, Leaves
    <2>4. live' \in 0 .. MaxConnections
        <3>1. Cardinality(Holding') \in Nat
            BY <2>2, FS_CardinalityType
        <3>2. QED BY <1>1, <1>5, <2>2, <3>1 DEF Leaves
    <2>5. ForwarderTypeOK'
        BY <1>1, <1>2, <1>5, <2>4 DEF ForwarderHolds, ForwarderTypeOK, Leaves
    <2>6. Handed'
        BY <1>1, <1>5, <2>4 DEF ForwarderHolds, Handed, Leaves
    <2>7. QED BY <1>3, <2>3, <2>5, <2>6 DEF ForwarderHolds
<1>6. CASE Arrives(c) \/ Refuses(c) \/ Accepts(c) \/ Connects(c) \/ ConnectFails(c) \/ BridgeEnds(c)
    <2>1. UNCHANGED live /\ Holding' = Holding
        BY <1>1, <1>6 DEF Arrives, Refuses, Accepts, Connects, ConnectFails, BridgeEnds, Holding
    <2>2. ForwarderTypeOK'
        BY <1>1, <1>2, <1>6, <2>1
           DEF ForwarderHolds, ForwarderTypeOK, Arrives, Refuses, Accepts, Connects, ConnectFails, BridgeEnds
    <2>3. Handed'
        <3>1. CASE Accepts(c)
            BY <3>1 DEF Accepts, Handed
        <3>2. CASE ~ Accepts(c)
            BY <1>1, <1>6, <2>1, <3>2
               DEF ForwarderHolds, Handed, Arrives, Refuses, Connects, ConnectFails, BridgeEnds
        <3>3. QED BY <3>1, <3>2
    <2>4. QED BY <1>1, <1>3, <2>1, <2>2, <2>3 DEF ForwarderHolds, Counted
<1>7. QED BY <1>4, <1>5, <1>6 DEF Stages

\* What is copied was written, and what is told is all of it.
LEMMA FlowingStep ==
    ASSUME ForwarderAssumption, ForwarderHolds, NEW c \in Clients, NEW d \in Directions, Flowing(c, d)
    PROVE  ForwarderHolds'
<1>1. UNCHANGED <<stage, accepting, live>>
    BY DEF Flowing, Sends, Ends, Copies, Tells, Breaks
<1>2. Handed' /\ Counted'
    BY <1>1 DEF ForwarderHolds, Handed, Counted, Holding
<1>3. flow \in [Clients -> [Directions -> Flows]] /\ MaxBytes \in Nat
    BY DEF ForwarderHolds, ForwarderTypeOK, ForwarderAssumption
<1> DEFINE now == flow[c][d]
           next == flow'[c][d]
<1>4. now \in Flows
    BY <1>3
<1>5. /\ next \in Flows
      /\ now.copied <= now.sent => next.copied <= next.sent
      /\ (now.told /\ ~ now.cut => now.ended /\ now.copied = now.sent)
            => (next.told /\ ~ next.cut => next.ended /\ next.copied = next.sent)
      /\ \A k \in Clients, e \in Directions : k # c \/ e # d => flow'[k][e] = flow[k][e]
      /\ flow' \in [Clients -> [Directions -> Flows]]
    <2>1. CASE Sends(c, d)
        BY <1>3, <1>4, <2>1 DEF Sends, Flows
    <2>2. CASE Ends(c, d)
        BY <1>3, <1>4, <2>2 DEF Ends, Flows
    <2>3. CASE Copies(c, d)
        BY <1>3, <1>4, <2>3 DEF Copies, Flows
    <2>4. CASE Tells(c, d)
        BY <1>3, <1>4, <2>4 DEF Tells, Flows
    <2>5. CASE Breaks(c, d)
        BY <1>3, <1>4, <2>5 DEF Breaks, Flows
    <2>6. QED BY <2>1, <2>2, <2>3, <2>4, <2>5 DEF Flowing
<1>6. ForwarderTypeOK'
    BY <1>1, <1>5 DEF ForwarderHolds, ForwarderTypeOK
<1>7. Behind' /\ EndsFollowData'
    <2>1. ASSUME NEW k \in Clients, NEW e \in Directions
          PROVE  /\ flow'[k][e].copied <= flow'[k][e].sent
                 /\ flow'[k][e].told /\ ~ flow'[k][e].cut =>
                        flow'[k][e].ended /\ flow'[k][e].copied = flow'[k][e].sent
        <3>1. /\ flow[k][e].copied <= flow[k][e].sent
              /\ flow[k][e].told /\ ~ flow[k][e].cut =>
                    flow[k][e].ended /\ flow[k][e].copied = flow[k][e].sent
            BY DEF ForwarderHolds, Behind, EndsFollowData
        <3>2. CASE k = c /\ e = d
            BY <1>5, <3>1, <3>2
        <3>3. CASE k # c \/ e # d
            BY <1>5, <3>1, <3>3
        <3>4. QED BY <3>2, <3>3
    <2>2. QED BY <2>1 DEF Behind, EndsFollowData
<1>8. QED BY <1>2, <1>6, <1>7 DEF ForwarderHolds

LEMMA ForwarderKeeps ==
    ASSUME ForwarderAssumption
    PROVE  ForwarderHolds /\ [ForwarderNext]_forwarderVars => ForwarderHolds'
<1>1. ASSUME ForwarderHolds, UNCHANGED forwarderVars
      PROVE  ForwarderHolds'
    BY <1>1 DEF ForwarderHolds, forwarderVars, ForwarderTypeOK, Handed, Counted, Holding, Behind, EndsFollowData
<1>2. ASSUME ForwarderHolds, ForwarderNext
      PROVE  ForwarderHolds'
    <2>1. PICK c \in Clients : Stages(c) \/ \E d \in Directions : Flowing(c, d)
        BY <1>2 DEF ForwarderNext, Stages, Flowing
    <2>2. QED BY <1>2, <2>1, StagesStep, FlowingStep
<1>3. QED BY <1>1, <1>2

LEMMA ForwarderInvariance ==
    ASSUME ForwarderAssumption
    PROVE  ForwarderSpec => []ForwarderHolds
BY ForwarderInitially, ForwarderKeeps, PTL DEF ForwarderSpec

\* What the forwarder promises follows.
LEMMA ForwarderFollows ==
    ASSUME ForwarderAssumption, ForwarderHolds
    PROVE  ForwarderTypeOK /\ ConnectionsAreSound
<1>1. ForwarderTypeOK /\ live <= MaxConnections
    BY DEF ForwarderHolds, ForwarderTypeOK, ForwarderAssumption
<1>2. QED BY <1>1 DEF ForwarderHolds, Counted, ConnectionsAreSound, SlotsAreCounted

\* The counter keeps within the limit (forward.rs, serve) and everything its type.
THEOREM ForwarderTypeCorrect ==
    ASSUME ForwarderAssumption
    PROVE  ForwarderSpec => []ForwarderTypeOK
BY ForwarderFollows, ForwarderInvariance, PTL

\* However connections end, the counter is the number of those that hold a thread, and
\* the end of an input is told only after everything before it (serve, bridge and pump).
THEOREM SoundConnections ==
    ASSUME ForwarderAssumption
    PROVE  ForwarderSpec => []ConnectionsAreSound
BY ForwarderFollows, ForwarderInvariance, PTL

------------------------------------------------------------------------------
(* The supervisor *)

\* What each part keeps on its own.
SupervisorHolds == ChainHolds /\ Inv /\ JobHolds /\ ForwarderHolds

\* A step is one of one part and leaves the others alone.
LEMMA SupervisorKeeps ==
    ASSUME ExecutionAssumption, JobAssumption, ForwarderAssumption
    PROVE  SupervisorHolds /\ [SupervisorNext]_supervisorVars => SupervisorHolds'
<1> SUFFICES ASSUME SupervisorHolds, [SupervisorNext]_supervisorVars PROVE SupervisorHolds'
    OBVIOUS
<1>1. [ChainNext]_chainVars /\ [RunNext]_runVars /\ [JobNext]_jobVars /\ [ForwarderNext]_forwarderVars
    BY DEF SupervisorNext, ChainStep, RunStep, AtRun, PanelStep, AtPanel, ForwarderStep, supervisorVars
<1>2. QED BY <1>1, ChainKeeps, Keeps, JobKeeps, ForwarderKeeps DEF SupervisorHolds

LEMMA SupervisorInvariance ==
    ASSUME ExecutionAssumption, JobAssumption, ForwarderAssumption
    PROVE  SupervisorSpec => []SupervisorHolds
<1>1. SupervisorInit => SupervisorHolds
    BY ChainStarts, InitImpliesInv, JobStarts, ForwarderInitially DEF SupervisorInit, SupervisorHolds
<1>2. QED BY <1>1, SupervisorKeeps, PTL DEF SupervisorSpec

\* Put together, the parts keep their types, whichever of them is at work.
THEOREM PartsKeepTheirTypes ==
    ASSUME ExecutionAssumption, JobAssumption, ForwarderAssumption
    PROVE  SupervisorSpec => []PartsTypeOK
<1>1. SupervisorHolds => PartsTypeOK
    BY TypesFollow, ChainFollows, JobFollows, ForwarderFollows DEF SupervisorHolds, PartsTypeOK
<1>2. QED BY <1>1, SupervisorInvariance, PTL

\* Put together, the parts keep what they promise: no step of one disturbs what another
\* has promised.
THEOREM PartsKeepTheirPromises ==
    ASSUME ExecutionAssumption, JobAssumption, ForwarderAssumption
    PROVE  SupervisorSpec => /\ [](VerifyIsRight /\ LinksNameReports /\ OneKeySigns)
                             /\ [](EffectiveMeansEnforced /\ NothingOutlivesTheRun /\ ReportTellsWhatHappened)
                             /\ [](DiskFollowsMemory /\ FinishedHasNoChild /\ NobodyWaitsAfterRestart)
                             /\ []ConnectionsAreSound
                             /\ CancelOfRunningSticks
<1>1. SupervisorHolds => /\ VerifyIsRight /\ LinksNameReports /\ OneKeySigns
                         /\ EffectiveMeansEnforced /\ NothingOutlivesTheRun /\ ReportTellsWhatHappened
                         /\ DiskFollowsMemory /\ FinishedHasNoChild /\ NobodyWaitsAfterRestart
                         /\ ConnectionsAreSound
    BY ChainFollows, PromisesFollow, JobFollows, ForwarderFollows DEF SupervisorHolds
<1>2. SupervisorHolds /\ [SupervisorNext]_supervisorVars => [Sticks]_jobVars
    <2>1. [SupervisorNext]_supervisorVars => [JobNext]_jobVars
        BY DEF SupervisorNext, ChainStep, RunStep, AtRun, PanelStep, AtPanel, ForwarderStep, supervisorVars
    <2>2. QED BY <2>1, StepSticks DEF SupervisorHolds
<1>3. QED BY <1>1, <1>2, SupervisorInvariance, PTL DEF SupervisorSpec, CancelOfRunningSticks, Sticks
================================================================================
