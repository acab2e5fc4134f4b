----------------------------- MODULE EgressProofs ------------------------------
(***************************************************************************)
(* What holds of the egress proxy for every limit, every allowlist and any  *)
(* set of connections and requests.                                         *)
(*                                                                          *)
(* The limit holds because a thread is known to the accepting thread from   *)
(* its start to its end (Alive \subseteq handles), and the list is pruned   *)
(* and measured before it grows.  The log is complete because its           *)
(* connections are exactly the finished ones, each once, and the accepting  *)
(* thread ends only when no other is left.  The payload is exact because a  *)
(* thread that was not cut short stands at the first empty line when it     *)
(* starts to copy, and copies one token at a time from there (Honest).      *)
(***************************************************************************)
EXTENDS EgressProxy, FiniteSetTheorems, SequenceTheorems, TLAPS

\* A connection is read no further than it was written, nor written further than its
\* request goes.
WithinStream ==
    \A c \in Conns :
        /\ serving[c].read <= load[c].wrote
        /\ load[c].wrote > 0 => load[c].asks \in Requests /\ load[c].wrote <= Len(load[c].asks.rest) + 1

TypeInv == TypeOK /\ WithinStream

\* What the proxy takes next from a connection is a token.
LEMMA NextTokenType ==
    ASSUME TypeInv, NEW c \in Conns, Pending(c)
    PROVE  NextToken(c) \in Tokens
<1>1. /\ load[c].asks \in Requests /\ serving[c].read \in Nat /\ load[c].wrote \in Nat
      /\ serving[c].read + 1 <= Len(load[c].asks.rest) + 1
    <2>1. load[c] \in LoadState /\ serving[c] \in ServingState
        BY DEF TypeInv, TypeOK
    <2>2. load[c].wrote \in Nat /\ serving[c].read \in Nat
        BY <2>1 DEF LoadState, ServingState
    <2>3. load[c].wrote > 0
        BY <2>2 DEF Pending
    <2>4. load[c].asks \in Requests /\ load[c].wrote <= Len(load[c].asks.rest) + 1
        BY <2>3 DEF TypeInv, WithinStream
    <2>5. Len(load[c].asks.rest) \in Nat
        BY <2>4, EgressAssumption
    <2>6. QED BY <2>2, <2>4, <2>5 DEF Pending
<1>2. load[c].asks.rest \in Seq(Tokens)
    <2>1. load[c].asks.rest \in Seq({"header", "blank", "data"})
        BY <1>1, EgressAssumption
    <2>2. QED BY <2>1 DEF Tokens
<1>3. Stream(c) \in Seq(Tokens) /\ Len(Stream(c)) = Len(load[c].asks.rest) + 1
    BY <1>2 DEF Stream, Tokens
<1>4. QED BY <1>1, <1>3 DEF NextToken

\* The states of a connection that go together, and the types of the rest.
Fits(l, s, f) ==
    /\ l \in LoadState /\ s \in ServingState /\ f \in FarState
    /\ s.at \in {"none", "shut", "reset", "done"} => f = NoFar
    /\ s.read <= l.wrote
    /\ l.wrote > 0 => l.asks \in Requests /\ l.wrote <= Len(l.asks.rest) + 1

Others ==
    /\ backlog \in Seq(Conns)
    /\ worker \in {"checking", "accepting", "joining", "ended"}
    /\ handles \subseteq Conns
    /\ log \in Seq(ConnectionRecord)
    /\ sup \in {"running", "stopping", "finished", "dropped"}

Turns(c, l, s, f) ==
    /\ load' = [load EXCEPT ![c] = l]
    /\ serving' = [serving EXCEPT ![c] = s]
    /\ far' = [far EXCEPT ![c] = f]

\* A step that changes one connection into another keeps the invariant.
LEMMA OneConnection ==
    ASSUME TypeInv, NEW c \in Conns, NEW l, NEW s, NEW f, Turns(c, l, s, f), Fits(l, s, f), Others'
    PROVE  TypeInv'
<1>1. /\ load \in [Conns -> LoadState]
      /\ serving \in [Conns -> ServingState]
      /\ far \in [Conns -> FarState]
    BY DEF TypeInv, TypeOK
<1>2. /\ load' \in [Conns -> LoadState] /\ load'[c] = l
      /\ serving' \in [Conns -> ServingState] /\ serving'[c] = s
      /\ far' \in [Conns -> FarState] /\ far'[c] = f
    BY <1>1 DEF Turns, Fits
<1>3. \A d \in Conns \ {c} : load'[d] = load[d] /\ serving'[d] = serving[d] /\ far'[d] = far[d]
    BY <1>1 DEF Turns
<1>4. TypeOK'
    <2>1. ASSUME NEW d \in Conns, serving'[d].at \in {"none", "shut", "reset", "done"}
          PROVE  far'[d] = NoFar
        <3>1. CASE d = c
            BY <2>1, <3>1, <1>2 DEF Fits
        <3>2. CASE d # c
            BY <2>1, <3>2, <1>3 DEF TypeInv, TypeOK
        <3>3. QED BY <3>1, <3>2
    <2>2. QED BY <1>2, <2>1 DEF TypeOK, Others
<1>5. WithinStream'
    <2>1. ASSUME NEW d \in Conns
          PROVE  /\ serving'[d].read <= load'[d].wrote
                 /\ load'[d].wrote > 0 => /\ load'[d].asks \in Requests
                                         /\ load'[d].wrote <= Len(load'[d].asks.rest) + 1
        <3>1. CASE d = c
            BY <3>1, <1>2 DEF Fits
        <3>2. CASE d # c
            BY <3>2, <1>3 DEF TypeInv, WithinStream
        <3>3. QED BY <3>1, <3>2
    <2>2. QED BY <2>1 DEF WithinStream
<1>6. QED BY <1>4, <1>5 DEF TypeInv

\* What the invariant says of one connection.
LEMMA OfConnection ==
    ASSUME TypeInv, NEW c \in Conns
    PROVE  /\ Fits(load[c], serving[c], far[c])
           /\ load[c].wrote \in Nat /\ serving[c].read \in Nat
           /\ Others
<1>1. /\ load \in [Conns -> LoadState]
      /\ serving \in [Conns -> ServingState]
      /\ far \in [Conns -> FarState]
    BY DEF TypeInv, TypeOK
<1>2. load[c].wrote \in Nat /\ serving[c].read \in Nat
    BY <1>1 DEF LoadState, ServingState
<1>3. QED BY <1>1, <1>2 DEF Fits, Others, TypeInv, TypeOK, WithinStream

\* A step that changes only the load's end, only the thread, or the thread and the far end
\* of one connection.
LEMMA LoadOnly ==
    ASSUME TypeInv, NEW c \in Conns, NEW l, Fits(l, serving[c], far[c]), Others',
           load' = [load EXCEPT ![c] = l], serving' = serving, far' = far
    PROVE  TypeInv'
<1>1. serving' = [serving EXCEPT ![c] = serving[c]] /\ far' = [far EXCEPT ![c] = far[c]]
    BY DEF TypeInv, TypeOK
<1>2. Turns(c, l, serving[c], far[c])
    BY <1>1 DEF Turns
<1>3. QED BY <1>2, OneConnection

LEMMA ThreadOnly ==
    ASSUME TypeInv, NEW c \in Conns, NEW s, Fits(load[c], s, far[c]), Others',
           serving' = [serving EXCEPT ![c] = s], load' = load, far' = far
    PROVE  TypeInv'
<1>1. load' = [load EXCEPT ![c] = load[c]] /\ far' = [far EXCEPT ![c] = far[c]]
    BY DEF TypeInv, TypeOK
<1>2. Turns(c, load[c], s, far[c])
    BY <1>1 DEF Turns
<1>3. QED BY <1>2, OneConnection

LEMMA ThreadAndFar ==
    ASSUME TypeInv, NEW c \in Conns, NEW s, NEW f, Fits(load[c], s, f), Others',
           serving' = [serving EXCEPT ![c] = s], far' = [far EXCEPT ![c] = f], load' = load
    PROVE  TypeInv'
<1>1. load' = [load EXCEPT ![c] = load[c]]
    BY DEF TypeInv, TypeOK
<1>2. Turns(c, load[c], s, f)
    BY <1>1 DEF Turns
<1>3. QED BY <1>2, OneConnection

\* The load keeps the types.
LEMMA LoadType ==
    ASSUME TypeInv, NEW c \in Conns, Connects(c) \/ Writes(c) \/ HalfCloses(c) \/ Closes(c)
    PROVE  TypeInv'
<1>0. Fits(load[c], serving[c], far[c]) /\ Others /\ load[c].wrote \in Nat /\ serving[c].read \in Nat
    BY OfConnection
<1>1. CASE Connects(c) \/ HalfCloses(c) \/ Closes(c)
    <2>1. PICK e \in {"open", "half", "gone"} : load' = [load EXCEPT ![c].end = e]
        BY <1>1 DEF Connects, HalfCloses, Closes
    <2> DEFINE l == [load[c] EXCEPT !.end = e]
    <2>2. l \in LoadState /\ l.wrote = load[c].wrote /\ l.asks = load[c].asks
        BY <1>0 DEF Fits, LoadState
    <2>3. load' = [load EXCEPT ![c] = l]
        BY <2>1
    <2>4. backlog \in Seq(Conns)
        BY <1>0 DEF Others
    <2>5. /\ serving' = serving /\ far' = far /\ log' = log /\ sup' = sup /\ worker' = worker
          /\ handles' = handles /\ backlog' \in Seq(Conns)
        BY <1>1, <2>4 DEF Connects, HalfCloses, Closes
    <2> HIDE DEF l
    <2>6. Fits(l, serving[c], far[c]) /\ Others'
        BY <1>0, <2>2, <2>5 DEF Fits, Others
    <2>7. QED BY <2>3, <2>5, <2>6, LoadOnly
<1>2. CASE Writes(c)
    <2>1. serving' = serving /\ far' = far /\ Others'
        BY <1>0, <1>2 DEF Writes, Others
    <2>2. CASE load[c].wrote = 0 /\ \E r \in Requests : load' = [load EXCEPT ![c].asks = r, ![c].wrote = 1]
        <3>1. PICK r \in Requests : load' = [load EXCEPT ![c].asks = r, ![c].wrote = 1]
            BY <2>2
        <3> DEFINE l == [load[c] EXCEPT !.asks = r, !.wrote = 1]
        <3>2. l \in LoadState /\ l.asks = r /\ l.wrote = 1
            BY <1>0 DEF Fits, LoadState
        <3>3. load' = [load EXCEPT ![c] = l]
            BY <3>1
        <3>4. Len(r.rest) \in Nat
            BY EgressAssumption
        <3> HIDE DEF l
        <3>5. Fits(l, serving[c], far[c])
            BY <1>0, <2>2, <3>2, <3>4 DEF Fits
        <3>6. QED BY <2>1, <3>3, <3>5, LoadOnly
    <2>3. CASE /\ load[c].wrote > 0 /\ load[c].wrote <= Len(load[c].asks.rest)
               /\ load' = [load EXCEPT ![c].wrote = @ + 1]
        <3> DEFINE l == [load[c] EXCEPT !.wrote = @ + 1]
        <3>1. l \in LoadState /\ l.asks = load[c].asks /\ l.wrote = load[c].wrote + 1
            BY <1>0 DEF Fits, LoadState
        <3>2. load' = [load EXCEPT ![c] = l]
            BY <2>3
        <3>3. load[c].asks \in Requests
            BY <1>0, <2>3 DEF Fits
        <3>4. Len(load[c].asks.rest) \in Nat
            BY <3>3, EgressAssumption
        <3> HIDE DEF l
        <3>5. Fits(l, serving[c], far[c])
            BY <1>0, <2>3, <3>1, <3>3, <3>4 DEF Fits
        <3>6. QED BY <2>1, <3>2, <3>5, LoadOnly
    <2>4. QED BY <1>2, <2>2, <2>3 DEF Writes
<1>3. QED BY <1>1, <1>2

\* So do the destinations.
LEMMA FarType ==
    ASSUME TypeInv, NEW c \in Conns, FarReplies(c) \/ FarCloses(c)
    PROVE  TypeInv'
<1>0. Fits(load[c], serving[c], far[c]) /\ Others
    BY OfConnection
<1>1. PICK f \in FarState : far' = [far EXCEPT ![c] = f]
    <2>1. CASE FarReplies(c)
        <3>1. [far[c] EXCEPT !.replied = @ + 1] \in FarState
            BY <1>0 DEF Fits, FarState
        <3>2. far' = [far EXCEPT ![c] = [far[c] EXCEPT !.replied = @ + 1]]
            BY <2>1 DEF FarReplies
        <3>3. QED BY <3>1, <3>2
    <2>2. CASE FarCloses(c)
        <3>1. [far[c] EXCEPT !.state = "closed"] \in FarState
            BY <1>0 DEF Fits, FarState
        <3>2. far' = [far EXCEPT ![c] = [far[c] EXCEPT !.state = "closed"]]
            BY <2>2 DEF FarCloses
        <3>3. QED BY <3>1, <3>2
    <2>3. QED BY <2>1, <2>2
<1>2. far[c] # NoFar
    BY DEF FarReplies, FarCloses, NoFar
<1>3. load' = load /\ serving' = serving /\ Others'
    BY <1>0 DEF FarReplies, FarCloses, Others
<1>4. Fits(load[c], serving[c], f)
    BY <1>0, <1>2 DEF Fits
<1>5. serving' = [serving EXCEPT ![c] = serving[c]]
    BY <1>3 DEF TypeInv, TypeOK
<1>6. QED BY <1>1, <1>3, <1>4, <1>5, ThreadAndFar

\* The empty states fit together.
LEMMA EmptiesFit ==
    /\ Gone.wrote = 0
    /\ Fits(Away, Unserved, NoFar)
    /\ \A at \in {"shut", "reset", "done"} : Fits(Gone, [Unserved EXCEPT !.at = at], NoFar)
<1>1. Away \in LoadState /\ Gone \in LoadState /\ Away.wrote = 0 /\ Gone.wrote = 0
    BY DEF Away, Gone, LoadState
<1>2. NoFar \in FarState
    BY DEF NoFar, FarState
<1>3. Unserved \in ServingState /\ Unserved.read = 0
    BY DEF Unserved, ServingState, Stages
<1>4. ASSUME NEW at \in {"shut", "reset", "done"}
      PROVE  [Unserved EXCEPT !.at = at] \in ServingState /\ [Unserved EXCEPT !.at = at].read = 0
    BY DEF Unserved, ServingState, Stages
<1>5. QED BY <1>1, <1>2, <1>3, <1>4 DEF Fits

\* Whoever waits in the backlog waits once, has a connected end and no thread.
Waiting ==
    /\ \A i \in DOMAIN backlog : /\ serving[backlog[i]].at = "none"
                                /\ load[backlog[i]].end # "away"
    /\ \A i, j \in DOMAIN backlog : backlog[i] = backlog[j] => i = j
    /\ \A c \in Conns : load[c].end = "away" => serving[c].at = "none"

\* The accepting thread keeps the types.
LEMMA WorkerType ==
    ASSUME TypeInv, Waiting, Worker
    PROVE  TypeInv'
<1>0. /\ load \in [Conns -> LoadState] /\ serving \in [Conns -> ServingState]
      /\ far \in [Conns -> FarState] /\ Others
    BY DEF TypeInv, TypeOK, Others
<1>1. CASE Checks \/ FindsNobody \/ AcceptFails
    BY <1>1 DEF Checks, FindsNobody, AcceptFails, TypeInv, TypeOK, WithinStream
<1>2. CASE Accepts
    <2> DEFINE c == Head(backlog)
               s == [Unserved EXCEPT !.at = IF Full THEN "shut" ELSE "line"]
               l == IF Full THEN Gone ELSE load[c]
    <2>1. c \in Conns /\ Tail(backlog) \in Seq(Conns) /\ 1 \in DOMAIN backlog /\ c = backlog[1]
        BY <1>0, <1>2 DEF Accepts, Others
    <2>2. Others'
        BY <1>0, <1>2, <2>1 DEF Accepts, Others, Unfinished
    <2>3. Turns(c, l, s, far[c])
        <3>1. far' = [far EXCEPT ![c] = far[c]]
            BY <1>0, <1>2 DEF Accepts
        <3>2. load' = [load EXCEPT ![c] = l]
            BY <1>2 DEF Accepts
        <3>3. serving' = [serving EXCEPT ![c] = s]
            BY <1>2 DEF Accepts
        <3> HIDE DEF c, s, l
        <3>4. QED BY <3>1, <3>2, <3>3 DEF Turns
    <2>4. far[c] = NoFar /\ Fits(load[c], serving[c], far[c]) /\ load[c].wrote \in Nat
        BY <2>1, OfConnection DEF Waiting, Fits
    <2>5. s \in ServingState /\ s.read = 0 /\ Gone \in LoadState /\ Gone.wrote = 0
        BY DEF Unserved, ServingState, Stages, Gone, Away, LoadState
    <2>6. Fits(l, s, far[c])
        BY <2>4, <2>5 DEF Fits
    <2> HIDE DEF c, s, l
    <2>7. QED BY <2>1, <2>2, <2>3, <2>6, OneConnection
<1>3. CASE Joins
    <2>1. ASSUME NEW d \in Conns
          PROVE  Fits(load'[d], serving'[d], far'[d])
        <3>1. CASE d \in Held
            <4>1. load'[d] = Gone /\ serving'[d] = [Unserved EXCEPT !.at = "reset"] /\ far'[d] = far[d]
                BY <1>3, <3>1 DEF Joins
            <4>2. far[d] = NoFar
                BY <3>1, OfConnection DEF Held, Waiting, Fits
            <4>3. QED BY <4>1, <4>2, EmptiesFit
        <3>2. CASE d \notin Held
            BY <1>3, <3>2, OfConnection DEF Joins
        <3>3. QED BY <3>1, <3>2
    <2>2. Others'
        BY <1>0, <1>3 DEF Joins, Others
    <2>3. /\ load' = [d \in Conns |-> load'[d]] /\ serving' = [d \in Conns |-> serving'[d]]
          /\ far' = [d \in Conns |-> far'[d]]
        BY <1>0, <1>3 DEF Joins
    <2>4. QED BY <2>1, <2>2, <2>3 DEF TypeInv, TypeOK, WithinStream, Others, Fits
<1>4. QED BY <1>1, <1>2, <1>3 DEF Worker

\* The stages of a thread that is at work.
Working == {"line", "headers", "dialling", "confirming", "splicing", "recording"}

\* A thread at work that stays at work, reads no further than was written and leaves the far
\* end in a state of its type keeps the invariant.
LEMMA StageStep ==
    ASSUME TypeInv, NEW c \in Conns, NEW s \in ServingState,
           serving[c].at \in Working, s.at \in Working, s.read <= load[c].wrote,
           serving' = [serving EXCEPT ![c] = s], load' = load, Others',
           far' = far \/ \E f \in FarState : far' = [far EXCEPT ![c] = f]
    PROVE  TypeInv'
<1>1. \A f \in FarState : Fits(load[c], s, f)
    BY OfConnection DEF Fits, Working
<1>2. far[c] \in FarState /\ far = [far EXCEPT ![c] = far[c]]
    BY DEF TypeInv, TypeOK
<1>3. PICK f \in FarState : far' = [far EXCEPT ![c] = f]
    BY <1>2
<1>4. QED BY <1>1, <1>3, ThreadAndFar

\* So do the steps in which a thread listens and dials.
LEMMA HearsType ==
    ASSUME TypeInv, NEW c \in Conns,
           RefusesLine(c) \/ ReadsLine(c) \/ SkipsHeader(c) \/ DialFails(c) \/ Dials(c) \/ ConfirmFails(c) \/ Confirms(c) \/ SpliceEnds(c)
    PROVE  TypeInv'
<1>0. /\ serving[c] \in ServingState /\ serving[c].read \in Nat /\ load[c].wrote \in Nat
      /\ far[c] \in FarState /\ serving[c].read <= load[c].wrote /\ Others
    BY OfConnection DEF Fits
<1>1. CASE RefusesLine(c)
    <2> DEFINE s == [serving[c] EXCEPT !.at = "recording"]
    <2>1. s \in ServingState /\ s.at = "recording" /\ s.read = serving[c].read
        BY <1>0 DEF ServingState, Stages
    <2>2. serving' = [serving EXCEPT ![c] = s]
        BY <1>1 DEF RefusesLine
    <2>3. load' = load /\ Others' /\ serving[c].at \in Working
        BY <1>0, <1>1 DEF RefusesLine, Rest, Others, Working
    <2>4. far' = far
        BY <1>1 DEF RefusesLine, Rest
    <2> HIDE DEF s
    <2>5. s.read <= load[c].wrote
        BY <1>0, <2>1
    <2>6. s.at \in Working
        BY <2>1, <2>3 DEF Working
    <2>7. QED BY <2>1, <2>2, <2>3, <2>4, <2>5, <2>6, StageStep
<1>2. CASE ReadsLine(c)
    <2> DEFINE s == [serving[c] EXCEPT !.at = "headers", !.read = 1]
    <2>1. s \in ServingState /\ s.at = "headers" /\ s.read = 1
        BY <1>0 DEF ServingState, Stages
    <2>2. serving' = [serving EXCEPT ![c] = s]
        BY <1>2 DEF ReadsLine
    <2>3. load' = load /\ Others' /\ serving[c].at \in Working
        BY <1>0, <1>2 DEF ReadsLine, Rest, Others, Working
    <2>4. far' = far
        BY <1>2 DEF ReadsLine, Rest
    <2> HIDE DEF s
    <2>5. s.read <= load[c].wrote
        BY <1>0, <1>2, <2>1 DEF ReadsLine, Pending
    <2>6. s.at \in Working
        BY <2>1, <2>3 DEF Working
    <2>7. QED BY <2>1, <2>2, <2>3, <2>4, <2>5, <2>6, StageStep
<1>3. CASE SkipsHeader(c)
    <2> DEFINE s == [serving[c] EXCEPT !.read = @ + 1]
    <2>1. s \in ServingState /\ s.at = serving[c].at /\ s.read = serving[c].read + 1
        BY <1>0 DEF ServingState, Stages
    <2>2. serving' = [serving EXCEPT ![c] = s]
        BY <1>3 DEF SkipsHeader
    <2>3. load' = load /\ Others' /\ serving[c].at \in Working
        BY <1>0, <1>3 DEF SkipsHeader, Rest, Others, Working
    <2>4. far' = far
        BY <1>3 DEF SkipsHeader, Rest
    <2> HIDE DEF s
    <2>5. s.read <= load[c].wrote
        BY <1>0, <1>3, <2>1 DEF SkipsHeader, Pending
    <2>6. s.at \in Working
        BY <2>1, <2>3 DEF Working
    <2>7. QED BY <2>1, <2>2, <2>3, <2>4, <2>5, <2>6, StageStep
<1>4. CASE DialFails(c)
    <2> DEFINE s == [serving[c] EXCEPT !.at = "recording"]
    <2>1. s \in ServingState /\ s.at = "recording" /\ s.read = serving[c].read
        BY <1>0 DEF ServingState, Stages
    <2>2. serving' = [serving EXCEPT ![c] = s]
        BY <1>4 DEF DialFails
    <2>3. load' = load /\ Others' /\ serving[c].at \in Working
        BY <1>0, <1>4 DEF DialFails, Rest, Others, Working
    <2>4. far' = far
        BY <1>4 DEF DialFails, Rest
    <2> HIDE DEF s
    <2>5. s.read <= load[c].wrote
        BY <1>0, <2>1
    <2>6. s.at \in Working
        BY <2>1, <2>3 DEF Working
    <2>7. QED BY <2>1, <2>2, <2>3, <2>4, <2>5, <2>6, StageStep
<1>5. CASE Dials(c)
    <2> DEFINE s == [serving[c] EXCEPT !.at = "confirming"]
    <2>1. s \in ServingState /\ s.at = "confirming" /\ s.read = serving[c].read
        BY <1>0 DEF ServingState, Stages
    <2>2. serving' = [serving EXCEPT ![c] = s]
        BY <1>5 DEF Dials
    <2>3. load' = load /\ Others' /\ serving[c].at \in Working
        BY <1>0, <1>5 DEF Dials, Rest, Others, Working
    <2>4. \E f \in FarState : far' = [far EXCEPT ![c] = f]
        <3>1. [far[c] EXCEPT !.state = "open"] \in FarState
            BY <1>0 DEF FarState
        <3>2. far' = [far EXCEPT ![c] = [far[c] EXCEPT !.state = "open"]]
            BY <1>5 DEF Dials
        <3>3. QED BY <3>1, <3>2
    <2> HIDE DEF s
    <2>5. s.read <= load[c].wrote
        BY <1>0, <2>1
    <2>6. s.at \in Working
        BY <2>1, <2>3 DEF Working
    <2>7. QED BY <2>1, <2>2, <2>3, <2>4, <2>5, <2>6, StageStep
<1>6. CASE ConfirmFails(c)
    <2> DEFINE s == [serving[c] EXCEPT !.at = "recording", !.out = "off", !.back = "off"]
    <2>1. s \in ServingState /\ s.at = "recording" /\ s.read = serving[c].read
        BY <1>0 DEF ServingState, Stages, HangsUp
    <2>2. serving' = [serving EXCEPT ![c] = s]
        BY <1>6 DEF ConfirmFails, HangsUp
    <2>3. load' = load /\ Others' /\ serving[c].at \in Working
        BY <1>0, <1>6 DEF ConfirmFails, Rest, Others, Working, HangsUp
    <2>4. \E f \in FarState : far' = [far EXCEPT ![c] = f]
        <3>1. [far[c] EXCEPT !.state = "closed"] \in FarState
            BY <1>0 DEF FarState
        <3>2. far' = [far EXCEPT ![c] = [far[c] EXCEPT !.state = "closed"]]
            BY <1>6 DEF ConfirmFails, HangsUp
        <3>3. QED BY <3>1, <3>2
    <2> HIDE DEF s
    <2>5. s.read <= load[c].wrote
        BY <1>0, <2>1
    <2>6. s.at \in Working
        BY <2>1, <2>3 DEF Working
    <2>7. QED BY <2>1, <2>2, <2>3, <2>4, <2>5, <2>6, StageStep
<1>7. CASE Confirms(c)
    <2> DEFINE s == [serving[c] EXCEPT !.at = "splicing", !.out = "copying", !.back = "copying"]
    <2>1. s \in ServingState /\ s.at = "splicing" /\ s.read = serving[c].read
        BY <1>0 DEF ServingState, Stages
    <2>2. serving' = [serving EXCEPT ![c] = s]
        BY <1>7 DEF Confirms
    <2>3. load' = load /\ Others' /\ serving[c].at \in Working
        BY <1>0, <1>7 DEF Confirms, Rest, Others, Working
    <2>4. far' = far
        BY <1>7 DEF Confirms, Rest
    <2> HIDE DEF s
    <2>5. s.read <= load[c].wrote
        BY <1>0, <2>1
    <2>6. s.at \in Working
        BY <2>1, <2>3 DEF Working
    <2>7. QED BY <2>1, <2>2, <2>3, <2>4, <2>5, <2>6, StageStep
<1>8. CASE SpliceEnds(c)
    <2> DEFINE s == [serving[c] EXCEPT !.at = "recording", !.out = "off", !.back = "off"]
    <2>1. s \in ServingState /\ s.at = "recording" /\ s.read = serving[c].read
        BY <1>0 DEF ServingState, Stages, HangsUp
    <2>2. serving' = [serving EXCEPT ![c] = s]
        BY <1>8 DEF SpliceEnds, HangsUp
    <2>3. load' = load /\ Others' /\ serving[c].at \in Working
        BY <1>0, <1>8 DEF SpliceEnds, Rest, Others, Working, HangsUp
    <2>4. \E f \in FarState : far' = [far EXCEPT ![c] = f]
        <3>1. [far[c] EXCEPT !.state = "closed"] \in FarState
            BY <1>0 DEF FarState
        <3>2. far' = [far EXCEPT ![c] = [far[c] EXCEPT !.state = "closed"]]
            BY <1>8 DEF SpliceEnds, HangsUp
        <3>3. QED BY <3>1, <3>2
    <2> HIDE DEF s
    <2>5. s.read <= load[c].wrote
        BY <1>0, <2>1
    <2>6. s.at \in Working
        BY <2>1, <2>3 DEF Working
    <2>7. QED BY <2>1, <2>2, <2>3, <2>4, <2>5, <2>6, StageStep
<1>9. QED BY <1>1, <1>2, <1>3, <1>4, <1>5, <1>6, <1>7, <1>8

\* So does the decision.
LEMMA DecidesType ==
    ASSUME TypeInv, NEW c \in Conns, EndsHeaders(c) \/ CutsHeaders(c)
    PROVE  TypeInv'
<1>0. /\ serving[c] \in ServingState /\ serving[c].read \in Nat /\ load[c].wrote \in Nat
      /\ serving[c].read <= load[c].wrote /\ Others
    BY OfConnection DEF Fits
<1>1. /\ load' = load /\ Others' /\ far' = far /\ serving[c].at \in Working
    BY <1>0 DEF EndsHeaders, CutsHeaders, Rest, Others, Working
<1>2. ASSUME NEW read \in Nat, read <= load[c].wrote, NEW cut \in BOOLEAN, Decided(c, read, cut)
      PROVE  TypeInv'
    <2> DEFINE s == [serving[c] EXCEPT !.at = IF Permits(load[c].asks) THEN "dialling" ELSE "recording",
                                       !.allowed = Permits(load[c].asks), !.read = read, !.cut = cut]
    <2>1. s \in ServingState /\ s.at \in Working /\ s.read = read
        BY <1>0 DEF ServingState, Stages, Permits, Working
    <2>2. serving' = [serving EXCEPT ![c] = s]
        BY <1>2 DEF Decided
    <2> HIDE DEF s
    <2>3. QED BY <1>1, <1>2, <2>1, <2>2, StageStep
<1>3. CASE Pending(c)
    <2> DEFINE next == serving[c].read + 1
    <2>1. next \in Nat /\ next <= load[c].wrote
        BY <1>0, <1>3 DEF Pending
    <2>2. Decided(c, next, FALSE) \/ Decided(c, next, TRUE)
        BY <1>3 DEF EndsHeaders, CutsHeaders, Ended
    <2> HIDE DEF next
    <2>3. QED BY <1>2, <2>1, <2>2
<1>4. CASE ~ Pending(c)
    <2>1. Decided(c, serving[c].read, FALSE) \/ Decided(c, serving[c].read, TRUE)
        BY <1>4 DEF EndsHeaders, CutsHeaders
    <2>2. QED BY <1>0, <1>2, <2>1
<1>5. QED BY <1>3, <1>4

\* So do the copies in both directions.
LEMMA CopiesType ==
    ASSUME TypeInv, NEW c \in Conns,
           OutEnds(c) \/ BackEnds(c)
    PROVE  TypeInv'
<1>0. /\ serving[c] \in ServingState /\ serving[c].read \in Nat /\ load[c].wrote \in Nat
      /\ far[c] \in FarState /\ serving[c].read <= load[c].wrote /\ Others
    BY OfConnection DEF Fits
<1>1. CASE OutEnds(c)
    <2> DEFINE s == [serving[c] EXCEPT !.out = "ended"]
    <2>1. s \in ServingState /\ s.at = serving[c].at /\ s.read = serving[c].read
        BY <1>0 DEF ServingState, Stages
    <2>2. serving' = [serving EXCEPT ![c] = s]
        BY <1>1 DEF OutEnds
    <2>3. load' = load /\ Others' /\ serving[c].at \in Working
        BY <1>0, <1>1 DEF OutEnds, Rest, Others, Working
    <2>4. \E f \in FarState : far' = [far EXCEPT ![c] = f]
        <3>1. [far[c] EXCEPT !.eof = TRUE] \in FarState
            BY <1>0 DEF FarState
        <3>2. far' = [far EXCEPT ![c] = [far[c] EXCEPT !.eof = TRUE]]
            BY <1>1 DEF OutEnds
        <3>3. QED BY <3>1, <3>2
    <2> HIDE DEF s
    <2>5. s.read <= load[c].wrote
        BY <1>0, <2>1
    <2>6. s.at \in Working
        BY <2>1, <2>3 DEF Working
    <2>7. QED BY <2>1, <2>2, <2>3, <2>4, <2>5, <2>6, StageStep
<1>2. CASE BackEnds(c)
    <2> DEFINE s == [serving[c] EXCEPT !.back = "ended"]
    <2>1. s \in ServingState /\ s.at = serving[c].at /\ s.read = serving[c].read
        BY <1>0 DEF ServingState, Stages
    <2>2. serving' = [serving EXCEPT ![c] = s]
        BY <1>2 DEF BackEnds
    <2>3. load' = load /\ Others' /\ serving[c].at \in Working
        BY <1>0, <1>2 DEF BackEnds, Rest, Others, Working
    <2>4. far' = far
        BY <1>2 DEF BackEnds, Rest
    <2> HIDE DEF s
    <2>5. s.read <= load[c].wrote
        BY <1>0, <2>1
    <2>6. s.at \in Working
        BY <2>1, <2>3 DEF Working
    <2>7. QED BY <2>1, <2>2, <2>3, <2>4, <2>5, <2>6, StageStep
<1>3. QED BY <1>1, <1>2

\* A thread that has taken one more token is still a thread.
LEMMA TakesOne ==
    ASSUME NEW s \in ServingState
    PROVE  /\ [s EXCEPT !.read = @ + 1, !.sent = @ + 1] \in ServingState
           /\ [s EXCEPT !.read = @ + 1, !.sent = @ + 1].at = s.at
           /\ [s EXCEPT !.read = @ + 1, !.sent = @ + 1].read = s.read + 1
           /\ [s EXCEPT !.read = @ + 1, !.out = "ended"] \in ServingState
           /\ [s EXCEPT !.read = @ + 1, !.out = "ended"].at = s.at
           /\ [s EXCEPT !.read = @ + 1, !.out = "ended"].read = s.read + 1
<1>1. s.read + 1 \in Nat /\ s.sent + 1 \in Nat
    BY DEF ServingState
<1> DEFINE r == s.read + 1
           t == s.sent + 1
<1> HIDE DEF r, t
<1>2. /\ [s EXCEPT !.read = r, !.sent = t] \in ServingState
      /\ [s EXCEPT !.read = r, !.sent = t].at = s.at
      /\ [s EXCEPT !.read = r, !.sent = t].read = r
    BY <1>1 DEF ServingState, r, t
<1>3. /\ [s EXCEPT !.read = r, !.out = "ended"] \in ServingState
      /\ [s EXCEPT !.read = r, !.out = "ended"].at = s.at
      /\ [s EXCEPT !.read = r, !.out = "ended"].read = r
    BY <1>1 DEF ServingState, r
<1>4. QED BY <1>2, <1>3 DEF r, t

\* Chunks go out, come back, and are recorded.
LEMMA OutCopiesType ==
    ASSUME TypeInv, NEW c \in Conns, OutCopies(c)
    PROVE  TypeInv'
<1>0. /\ serving[c] \in ServingState /\ serving[c].read \in Nat /\ load[c].wrote \in Nat
      /\ far[c] \in FarState /\ serving[c].read <= load[c].wrote /\ Others
    BY OfConnection DEF Fits
<1>1. load' = load /\ Others' /\ serving[c].at \in Working /\ Pending(c)
    BY <1>0 DEF OutCopies, Others, Working
<1>2. NextToken(c) \in Tokens /\ far[c].got \in Seq(Tokens)
    BY <1>0, <1>1, NextTokenType DEF FarState
<1>3. ASSUME NEW got \in Seq(Tokens)
      PROVE  [far[c] EXCEPT !.got = got] \in FarState
    BY <1>0 DEF FarState
<1>4. ASSUME NEW s \in ServingState, s.at \in Working, s.read = serving[c].read + 1,
             serving' = [serving EXCEPT ![c] = s], NEW got \in Seq(Tokens),
             far' = [far EXCEPT ![c] = [far[c] EXCEPT !.got = got]]
      PROVE  TypeInv'
    <2>1. s.read <= load[c].wrote
        BY <1>0, <1>1, <1>4 DEF Pending
    <2>2. \E f \in FarState : far' = [far EXCEPT ![c] = f]
        BY <1>3, <1>4
    <2>3. QED BY <1>1, <1>4, <2>1, <2>2, StageStep
<1>5. CASE /\ serving' = [serving EXCEPT ![c].read = @ + 1, ![c].sent = @ + 1]
           /\ far' = [far EXCEPT ![c].got = Append(@, NextToken(c))]
    <2> DEFINE s == [serving[c] EXCEPT !.read = @ + 1, !.sent = @ + 1]
    <2>1. s \in ServingState /\ s.at = serving[c].at /\ s.read = serving[c].read + 1
        BY <1>0, TakesOne
    <2>2. serving' = [serving EXCEPT ![c] = s]
        BY <1>5
    <2> HIDE DEF s
    <2> DEFINE got == Append(far[c].got, NextToken(c))
    <2>3. far' = [far EXCEPT ![c] = [far[c] EXCEPT !.got = got]]
        BY <1>5
    <2>4. got \in Seq(Tokens)
        BY <1>2
    <2> HIDE DEF got
    <2>5. QED BY <1>1, <1>4, <2>1, <2>2, <2>3, <2>4
<1>6. CASE /\ serving' = [serving EXCEPT ![c].read = @ + 1, ![c].out = "ended"]
           /\ \E left \in {<<>>, <<NextToken(c)>>} : far' = [far EXCEPT ![c].got = @ \o left]
    <2>1. PICK left \in {<<>>, <<NextToken(c)>>} : far' = [far EXCEPT ![c].got = @ \o left]
        BY <1>6
    <2> DEFINE s == [serving[c] EXCEPT !.read = @ + 1, !.out = "ended"]
    <2>2. s \in ServingState /\ s.at = serving[c].at /\ s.read = serving[c].read + 1
        BY <1>0, TakesOne
    <2>3. serving' = [serving EXCEPT ![c] = s]
        BY <1>6
    <2> HIDE DEF s
    <2> DEFINE got == far[c].got \o left
    <2>4. far' = [far EXCEPT ![c] = [far[c] EXCEPT !.got = got]]
        BY <2>1
    <2>5. got \in Seq(Tokens)
        <3>1. left \in Seq(Tokens)
            <4> HIDE DEF got
            <4>1. CASE left = <<>>
                BY <4>1
            <4>2. CASE left = <<NextToken(c)>>
                BY <1>2, <4>2
            <4>3. QED BY <4>1, <4>2
        <3>2. QED BY <1>2, <3>1
    <2> HIDE DEF got
    <2>6. QED BY <1>1, <1>4, <2>2, <2>3, <2>4, <2>5
<1>7. QED BY <1>5, <1>6 DEF OutCopies

LEMMA BackCopiesType ==
    ASSUME TypeInv, NEW c \in Conns, BackCopies(c)
    PROVE  TypeInv'
<1>0. /\ serving[c] \in ServingState /\ serving[c].read <= load[c].wrote /\ Others
    BY OfConnection DEF Fits
<1>1. load' = load /\ far' = far /\ Others' /\ serving[c].at \in Working
    BY <1>0 DEF BackCopies, Rest, Others, Working
<1>2. PICK s \in ServingState : /\ s.at = serving[c].at /\ s.read = serving[c].read
                                /\ serving' = [serving EXCEPT ![c] = s]
    <2>1. CASE load[c].end = "gone"
        <3>1. /\ [serving[c] EXCEPT !.back = "ended"] \in ServingState
              /\ [serving[c] EXCEPT !.back = "ended"].at = serving[c].at
              /\ [serving[c] EXCEPT !.back = "ended"].read = serving[c].read
            BY <1>0 DEF ServingState
        <3>2. serving' = [serving EXCEPT ![c] = [serving[c] EXCEPT !.back = "ended"]]
            BY <2>1 DEF BackCopies
        <3>3. QED BY <3>1, <3>2
    <2>2. CASE load[c].end # "gone"
        <3>1. /\ [serving[c] EXCEPT !.received = @ + 1] \in ServingState
              /\ [serving[c] EXCEPT !.received = @ + 1].at = serving[c].at
              /\ [serving[c] EXCEPT !.received = @ + 1].read = serving[c].read
            BY <1>0 DEF ServingState
        <3>2. serving' = [serving EXCEPT ![c] = [serving[c] EXCEPT !.received = @ + 1]]
            BY <2>2 DEF BackCopies
        <3>3. QED BY <3>1, <3>2
    <2>3. QED BY <2>1, <2>2
<1>3. s.at \in Working /\ s.read <= load[c].wrote
    BY <1>0, <1>1, <1>2
<1>4. QED BY <1>1, <1>2, <1>3, StageStep

LEMMA RecordsType ==
    ASSUME TypeInv, NEW c \in Conns, Records(c)
    PROVE  TypeInv'
<1> DEFINE record == [conn |-> c, allowed |-> serving[c].allowed,
                      sent |-> serving[c].sent, received |-> serving[c].received]
<1>0. serving[c] \in ServingState /\ Others
    BY OfConnection DEF Fits
<1>1. record \in ConnectionRecord
    BY <1>0 DEF ServingState, ConnectionRecord
<1>2. /\ log' = Append(log, record)
      /\ backlog' = backlog /\ worker' = worker /\ handles' = handles /\ sup' = sup
    BY DEF Records
<1> HIDE DEF record
<1>3. Others'
    BY <1>0, <1>1, <1>2 DEF Others
<1>4. Turns(c, Gone, [Unserved EXCEPT !.at = "done"], NoFar)
    BY DEF Records, Turns
<1>5. Fits(Gone, [Unserved EXCEPT !.at = "done"], NoFar)
    BY EmptiesFit
<1>6. QED BY <1>3, <1>4, <1>5, OneConnection

\* Every step keeps the types.
LEMMA TypeStep ==
    ASSUME TypeInv, Waiting, [Next]_vars
    PROVE  TypeInv'
<1>1. ASSUME NEW c \in Conns, Connects(c) \/ Writes(c) \/ HalfCloses(c) \/ Closes(c)
      PROVE  TypeInv'
    BY <1>1, LoadType
<1>2. ASSUME NEW c \in Conns, FarReplies(c) \/ FarCloses(c)
      PROVE  TypeInv'
    BY <1>2, FarType
<1>3. ASSUME NEW c \in Conns, Copies(c)
      PROVE  TypeInv'
    BY <1>3, OutCopiesType, BackCopiesType, CopiesType DEF Copies
<1>4. ASSUME NEW c \in Conns, Handles(c)
      PROVE  TypeInv'
    BY <1>4, HearsType, DecidesType, RecordsType DEF Handles
<1>5. CASE Worker
    BY <1>5, WorkerType
<1>6. CASE FinishBegins \/ FinishReturns \/ Drops
    BY <1>6 DEF FinishBegins, FinishReturns, Drops, TypeInv, TypeOK, WithinStream
<1>7. CASE UNCHANGED vars
    BY <1>7 DEF vars, TypeInv, TypeOK, WithinStream
<1>8. QED BY <1>1, <1>2, <1>3, <1>4, <1>5, <1>6, <1>7 DEF Next

LEMMA TypeInit == Init => TypeInv /\ Waiting
<1> SUFFICES ASSUME Init PROVE TypeInv /\ Waiting
    OBVIOUS
<1>1. \A c \in Conns : Fits(load[c], serving[c], far[c])
    BY EmptiesFit DEF Init
<1>2. load = [c \in Conns |-> load[c]] /\ serving = [c \in Conns |-> serving[c]] /\ far = [c \in Conns |-> far[c]]
    BY DEF Init
<1>3. Others
    BY DEF Init, Others
<1>4. TypeInv
    BY <1>1, <1>2, <1>3 DEF TypeInv, TypeOK, WithinStream, Others, Fits
<1>5. Waiting
    BY DEF Init, Waiting, Unserved
<1>6. QED BY <1>4, <1>5

\* A step of a thread, or of its copies: a thread at work stays at work, or is done with its
\* connection over and a record of it at the end of the log.
Works(c) ==
    /\ serving[c].at \in Working
    /\ \A d \in Conns \ {c} : serving'[d] = serving[d] /\ load'[d] = load[d]
    /\ \/ serving'[c].at \in Working /\ load' = load /\ log' = log
       \/ /\ serving'[c].at = "done" /\ load'[c] = Gone
          /\ \E r \in ConnectionRecord : r.conn = c /\ log' = Append(log, r)
    /\ UNCHANGED <<backlog, worker, handles, sup>>

LEMMA ThreadsWork ==
    ASSUME TypeInv, NEW c \in Conns, Handles(c) \/ Copies(c)
    PROVE  Works(c)
<1>0. /\ load \in [Conns -> LoadState] /\ serving \in [Conns -> ServingState]
    BY DEF TypeInv, TypeOK
<1>1. ASSUME NEW s, s.at \in Working, serving[c].at \in Working, serving' = [serving EXCEPT ![c] = s],
             UNCHANGED <<load, backlog, worker, handles, log, sup>>
      PROVE  Works(c)
    BY <1>0, <1>1 DEF Works
<1>2. CASE RefusesLine(c)
    <2> DEFINE s == [serving[c] EXCEPT !.at = "recording"]
    <2>1. s.at \in Working /\ serving[c].at \in Working
        BY <1>0, <1>2 DEF RefusesLine, Working, ServingState
    <2>2. serving' = [serving EXCEPT ![c] = s] /\ UNCHANGED <<load, backlog, worker, handles, log, sup>>
        BY <1>2 DEF RefusesLine, Rest
    <2> HIDE DEF s
    <2>3. QED BY <1>1, <2>1, <2>2
<1>3. CASE ReadsLine(c)
    <2> DEFINE s == [serving[c] EXCEPT !.at = "headers", !.read = 1]
    <2>1. s.at \in Working /\ serving[c].at \in Working
        BY <1>0, <1>3 DEF ReadsLine, Working, ServingState
    <2>2. serving' = [serving EXCEPT ![c] = s] /\ UNCHANGED <<load, backlog, worker, handles, log, sup>>
        BY <1>3 DEF ReadsLine, Rest
    <2> HIDE DEF s
    <2>3. QED BY <1>1, <2>1, <2>2
<1>4. CASE SkipsHeader(c)
    <2> DEFINE s == [serving[c] EXCEPT !.read = @ + 1]
    <2>1. s.at \in Working /\ serving[c].at \in Working
        BY <1>0, <1>4 DEF SkipsHeader, Working, ServingState
    <2>2. serving' = [serving EXCEPT ![c] = s] /\ UNCHANGED <<load, backlog, worker, handles, log, sup>>
        BY <1>4 DEF SkipsHeader, Rest
    <2> HIDE DEF s
    <2>3. QED BY <1>1, <2>1, <2>2
<1>5. CASE DialFails(c)
    <2> DEFINE s == [serving[c] EXCEPT !.at = "recording"]
    <2>1. s.at \in Working /\ serving[c].at \in Working
        BY <1>0, <1>5 DEF DialFails, Working, ServingState
    <2>2. serving' = [serving EXCEPT ![c] = s] /\ UNCHANGED <<load, backlog, worker, handles, log, sup>>
        BY <1>5 DEF DialFails, Rest
    <2> HIDE DEF s
    <2>3. QED BY <1>1, <2>1, <2>2
<1>6. CASE Dials(c)
    <2> DEFINE s == [serving[c] EXCEPT !.at = "confirming"]
    <2>1. s.at \in Working /\ serving[c].at \in Working
        BY <1>0, <1>6 DEF Dials, Working, ServingState
    <2>2. serving' = [serving EXCEPT ![c] = s] /\ UNCHANGED <<load, backlog, worker, handles, log, sup>>
        BY <1>6 DEF Dials, Rest
    <2> HIDE DEF s
    <2>3. QED BY <1>1, <2>1, <2>2
<1>7. CASE ConfirmFails(c)
    <2> DEFINE s == [serving[c] EXCEPT !.at = "recording", !.out = "off", !.back = "off"]
    <2>1. s.at \in Working /\ serving[c].at \in Working
        BY <1>0, <1>7 DEF ConfirmFails, Working, ServingState
    <2>2. serving' = [serving EXCEPT ![c] = s] /\ UNCHANGED <<load, backlog, worker, handles, log, sup>>
        BY <1>7 DEF ConfirmFails, Rest, HangsUp
    <2> HIDE DEF s
    <2>3. QED BY <1>1, <2>1, <2>2
<1>8. CASE Confirms(c)
    <2> DEFINE s == [serving[c] EXCEPT !.at = "splicing", !.out = "copying", !.back = "copying"]
    <2>1. s.at \in Working /\ serving[c].at \in Working
        BY <1>0, <1>8 DEF Confirms, Working, ServingState
    <2>2. serving' = [serving EXCEPT ![c] = s] /\ UNCHANGED <<load, backlog, worker, handles, log, sup>>
        BY <1>8 DEF Confirms, Rest
    <2> HIDE DEF s
    <2>3. QED BY <1>1, <2>1, <2>2
<1>9. CASE SpliceEnds(c)
    <2> DEFINE s == [serving[c] EXCEPT !.at = "recording", !.out = "off", !.back = "off"]
    <2>1. s.at \in Working /\ serving[c].at \in Working
        BY <1>0, <1>9 DEF SpliceEnds, Working, ServingState
    <2>2. serving' = [serving EXCEPT ![c] = s] /\ UNCHANGED <<load, backlog, worker, handles, log, sup>>
        BY <1>9 DEF SpliceEnds, Rest, HangsUp
    <2> HIDE DEF s
    <2>3. QED BY <1>1, <2>1, <2>2
<1>10. CASE OutEnds(c)
    <2> DEFINE s == [serving[c] EXCEPT !.out = "ended"]
    <2>1. s.at \in Working /\ serving[c].at \in Working
        BY <1>0, <1>10 DEF OutEnds, Working, ServingState
    <2>2. serving' = [serving EXCEPT ![c] = s] /\ UNCHANGED <<load, backlog, worker, handles, log, sup>>
        BY <1>10 DEF OutEnds, Rest
    <2> HIDE DEF s
    <2>3. QED BY <1>1, <2>1, <2>2
<1>11. CASE BackEnds(c)
    <2> DEFINE s == [serving[c] EXCEPT !.back = "ended"]
    <2>1. s.at \in Working /\ serving[c].at \in Working
        BY <1>0, <1>11 DEF BackEnds, Working, ServingState
    <2>2. serving' = [serving EXCEPT ![c] = s] /\ UNCHANGED <<load, backlog, worker, handles, log, sup>>
        BY <1>11 DEF BackEnds, Rest
    <2> HIDE DEF s
    <2>3. QED BY <1>1, <2>1, <2>2
<1>12. CASE EndsHeaders(c) \/ CutsHeaders(c)
    <2>1. ASSUME NEW read, NEW cut, Decided(c, read, cut)
          PROVE  Works(c)
        <3> DEFINE s == [serving[c] EXCEPT !.at = IF Permits(load[c].asks) THEN "dialling" ELSE "recording",
                                           !.allowed = Permits(load[c].asks), !.read = read, !.cut = cut]
        <3>1. s.at \in Working /\ serving[c].at \in Working
            BY <1>0, <1>12 DEF EndsHeaders, CutsHeaders, Working, ServingState
        <3>2. serving' = [serving EXCEPT ![c] = s] /\ UNCHANGED <<load, backlog, worker, handles, log, sup>>
            <4>1. serving' = [serving EXCEPT ![c] = s]
                BY <2>1 DEF Decided
            <4>2. QED BY <1>12, <4>1 DEF EndsHeaders, CutsHeaders, Rest
        <3> HIDE DEF s
        <3>3. QED BY <1>1, <3>1, <3>2
    <2>2. QED BY <1>12, <2>1 DEF EndsHeaders, CutsHeaders
<1>13. CASE OutCopies(c)
    <2>1. PICK s : s.at = serving[c].at /\ serving' = [serving EXCEPT ![c] = s]
        <3>1. serving[c] \in ServingState
            BY <1>0
        <3>2. CASE serving' = [serving EXCEPT ![c].read = @ + 1, ![c].sent = @ + 1]
            BY <3>1, <3>2, TakesOne
        <3>3. CASE serving' = [serving EXCEPT ![c].read = @ + 1, ![c].out = "ended"]
            BY <3>1, <3>3, TakesOne
        <3>4. QED BY <1>13, <3>2, <3>3 DEF OutCopies
    <2>2. serving[c].at \in Working /\ UNCHANGED <<load, backlog, worker, handles, log, sup>>
        BY <1>13 DEF OutCopies, Working
    <2>3. QED BY <1>1, <2>1, <2>2
<1>14. CASE BackCopies(c)
    <2>1. PICK s : s.at = serving[c].at /\ serving' = [serving EXCEPT ![c] = s]
        <3>1. serving[c] \in ServingState
            BY <1>0
        <3>2. /\ [serving[c] EXCEPT !.back = "ended"].at = serving[c].at
              /\ [serving[c] EXCEPT !.received = @ + 1].at = serving[c].at
            BY <3>1 DEF ServingState
        <3>3. \/ serving' = [serving EXCEPT ![c] = [serving[c] EXCEPT !.back = "ended"]]
              \/ serving' = [serving EXCEPT ![c] = [serving[c] EXCEPT !.received = @ + 1]]
            BY <1>14 DEF BackCopies
        <3>4. QED BY <3>2, <3>3
    <2>2. serving[c].at \in Working /\ UNCHANGED <<load, backlog, worker, handles, log, sup>>
        BY <1>14 DEF BackCopies, Rest, Working
    <2>3. QED BY <1>1, <2>1, <2>2
<1>15. CASE Records(c)
    <2> DEFINE record == [conn |-> c, allowed |-> serving[c].allowed,
                          sent |-> serving[c].sent, received |-> serving[c].received]
    <2>1. record \in ConnectionRecord /\ record.conn = c
        BY <1>0 DEF ServingState, ConnectionRecord
    <2>2. /\ log' = Append(log, record) /\ serving' = [serving EXCEPT ![c] = [Unserved EXCEPT !.at = "done"]]
          /\ load' = [load EXCEPT ![c] = Gone] /\ serving[c].at \in Working
          /\ UNCHANGED <<backlog, worker, handles, sup>>
        BY <1>15 DEF Records, Working
    <2>3. [Unserved EXCEPT !.at = "done"].at = "done"
        BY DEF Unserved
    <2> HIDE DEF record
    <2>4. serving'[c].at = "done" /\ load'[c] = Gone
        BY <1>0, <2>2, <2>3
    <2>5. \A d \in Conns \ {c} : serving'[d] = serving[d] /\ load'[d] = load[d]
        BY <1>0, <2>2
    <2>6. QED BY <2>1, <2>2, <2>4, <2>5 DEF Works
<1>16. QED BY <1>2, <1>3, <1>4, <1>5, <1>6, <1>7, <1>8, <1>9, <1>10, <1>11, <1>12, <1>13, <1>14, <1>15 DEF Handles, Copies

\* Steps that leave threads and backlog alone and open no end keep whoever waits waiting.
LEMMA WaitOn ==
    ASSUME TypeInv, Waiting, backlog' = backlog,
           \A c \in Conns : /\ serving[c].at = "none" => serving'[c].at = "none"
                            /\ load[c].end # "away" => load'[c].end # "away"
                            /\ load[c].end = "away" => serving'[c].at = "none"
    PROVE  Waiting'
<1>1. \A i \in DOMAIN backlog : backlog[i] \in Conns
    BY DEF TypeInv, TypeOK
<1>2. QED BY <1>1 DEF Waiting

LEMMA WaitingStep ==
    ASSUME TypeInv, Waiting, [Next]_vars
    PROVE  Waiting'
<1>0. /\ load \in [Conns -> LoadState] /\ serving \in [Conns -> ServingState]
      /\ backlog \in Seq(Conns)
    BY DEF TypeInv, TypeOK
<1>1. ASSUME NEW c \in Conns, Connects(c)
      PROVE  Waiting'
    <2>1. /\ backlog' = Append(backlog, c) /\ load[c].end = "away" /\ serving' = serving
          /\ load' = [load EXCEPT ![c] = [load[c] EXCEPT !.end = "open"]]
        BY <1>1 DEF Connects
    <2>2. serving[c].at = "none"
        BY <2>1 DEF Waiting
    <2>3. [load[c] EXCEPT !.end = "open"].end = "open"
        BY <1>0 DEF LoadState
    <2>4. /\ \A d \in Conns : load'[d].end = "away" => load[d].end = "away"
          /\ load'[c].end = "open"
        BY <1>0, <2>1, <2>3
    <2>5. \A i \in DOMAIN backlog : backlog[i] \in Conns /\ backlog[i] # c
        BY <1>0, <2>1 DEF Waiting
    <2>6. /\ DOMAIN backlog' = (DOMAIN backlog) \cup {Len(backlog) + 1}
          /\ \A i \in DOMAIN backlog : backlog'[i] = backlog[i]
          /\ backlog'[Len(backlog) + 1] = c
        BY <1>0, <2>1
    <2>7. QED BY <2>1, <2>2, <2>4, <2>5, <2>6 DEF Waiting
<1>2. ASSUME NEW c \in Conns, Writes(c)
      PROVE  Waiting'
    <2>1. load[c].end = "open" /\ serving' = serving /\ backlog' = backlog
        BY <1>2 DEF Writes
    <2>2. PICK l \in LoadState : l.end = load[c].end /\ load' = [load EXCEPT ![c] = l]
        <3>1. load[c] \in LoadState
            BY <1>0
        <3>2. CASE \E r \in Requests : load' = [load EXCEPT ![c].asks = r, ![c].wrote = 1]
            <4>1. PICK r \in Requests : load' = [load EXCEPT ![c].asks = r, ![c].wrote = 1]
                BY <3>2
            <4>2. /\ [load[c] EXCEPT !.asks = r, !.wrote = 1] \in LoadState
                  /\ [load[c] EXCEPT !.asks = r, !.wrote = 1].end = load[c].end
                BY <3>1 DEF LoadState
            <4>3. load' = [load EXCEPT ![c] = [load[c] EXCEPT !.asks = r, !.wrote = 1]]
                BY <4>1
            <4>4. QED BY <4>2, <4>3
        <3>3. CASE load' = [load EXCEPT ![c].wrote = @ + 1]
            <4>1. /\ [load[c] EXCEPT !.wrote = @ + 1] \in LoadState
                  /\ [load[c] EXCEPT !.wrote = @ + 1].end = load[c].end
                BY <3>1 DEF LoadState
            <4>2. load' = [load EXCEPT ![c] = [load[c] EXCEPT !.wrote = @ + 1]]
                BY <3>3
            <4>3. QED BY <4>1, <4>2
        <3>4. QED BY <1>2, <3>2, <3>3 DEF Writes
    <2>3. \A d \in Conns : load'[d].end = load[d].end
        BY <1>0, <2>2
    <2>4. QED BY <2>1, <2>3, WaitOn DEF Waiting
<1>3. ASSUME NEW c \in Conns, HalfCloses(c) \/ Closes(c)
      PROVE  Waiting'
    <2>1. PICK e \in {"half", "gone"} : load' = [load EXCEPT ![c] = [load[c] EXCEPT !.end = e]]
        BY <1>3 DEF HalfCloses, Closes
    <2>2. [load[c] EXCEPT !.end = e].end = e
        BY <1>0 DEF LoadState
    <2>3. \A d \in Conns : load[d].end # "away" => load'[d].end # "away"
        BY <1>0, <2>1, <2>2
    <2>4. serving' = serving /\ backlog' = backlog
        BY <1>3 DEF HalfCloses, Closes
    <2>5. QED BY <2>3, <2>4, WaitOn DEF Waiting
<1>4. ASSUME NEW c \in Conns, Handles(c) \/ Copies(c)
      PROVE  Waiting'
    <2>1. Works(c)
        BY <1>4, ThreadsWork
    <2>2. Gone.end # "away"
        BY DEF Gone, Away
    <2>3. load[c].end # "away" /\ serving[c].at # "none"
        BY <2>1 DEF Works, Working, Waiting
    <2>4. \A d \in Conns : /\ serving[d].at = "none" => serving'[d].at = "none"
                           /\ load[d].end # "away" => load'[d].end # "away"
                           /\ load[d].end = "away" => serving'[d].at = "none"
        BY <2>1, <2>2, <2>3 DEF Works, Waiting
    <2>5. QED BY <2>1, <2>4, WaitOn DEF Works
<1>5. CASE Accepts
    <2> DEFINE c == Head(backlog)
               s == [Unserved EXCEPT !.at = IF Full THEN "shut" ELSE "line"]
    <2>1. /\ c \in Conns /\ 1 \in DOMAIN backlog /\ c = backlog[1] /\ Tail(backlog) \in Seq(Conns)
          /\ DOMAIN Tail(backlog) = 1 .. Len(backlog) - 1
          /\ \A i \in 1 .. Len(backlog) - 1 : /\ Tail(backlog)[i] = backlog[i + 1]
                                             /\ i + 1 \in DOMAIN backlog /\ i + 1 # 1 /\ i \in Nat
        BY <1>0, <1>5 DEF Accepts
    <2>2. \A d \in Conns \ {c} : serving'[d] = serving[d] /\ load'[d] = load[d]
        BY <1>0, <1>5 DEF Accepts
    <2>3. Gone.end # "away" /\ load[c].end # "away"
        BY <2>1 DEF Gone, Away, Waiting
    <2>4. load'[c].end # "away"
        BY <1>0, <1>5, <2>1, <2>3 DEF Accepts
    <2>5. backlog' = Tail(backlog)
        BY <1>5 DEF Accepts
    <2> HIDE DEF c, s
    <2>6. \A i \in DOMAIN backlog' : /\ backlog'[i] = backlog[i + 1] /\ i + 1 \in DOMAIN backlog
                                    /\ backlog'[i] \in Conns \ {c}
        BY <1>0, <2>1, <2>5 DEF Waiting
    <2>7. \A i, j \in DOMAIN backlog' : backlog'[i] = backlog'[j] => i = j
        <3>1. SUFFICES ASSUME NEW i \in DOMAIN backlog', NEW j \in DOMAIN backlog', backlog'[i] = backlog'[j]
                       PROVE  i = j
            OBVIOUS
        <3>2. i + 1 = j + 1
            BY <2>6, <3>1 DEF Waiting
        <3>3. QED BY <2>1, <2>5, <3>2
    <2>8. QED BY <2>2, <2>4, <2>6, <2>7 DEF Waiting
<1>6. CASE Joins
    <2>1. backlog' = <<>> /\ Gone.end # "away"
        BY <1>6 DEF Joins, Gone, Away
    <2>2. \A d \in Conns : \/ load'[d] = Gone
                           \/ load'[d] = load[d] /\ serving'[d] = serving[d]
        BY <1>6 DEF Joins
    <2>3. QED BY <2>1, <2>2 DEF Waiting
<1>7. ASSUME UNCHANGED <<load, backlog, serving>>
      PROVE  Waiting'
    BY <1>7 DEF Waiting
<1>8. QED BY <1>1, <1>2, <1>3, <1>4, <1>5, <1>6, <1>7
    DEF Next, Worker, Checks, FindsNobody, AcceptFails, FarReplies, FarCloses, FinishBegins,
        FinishReturns, Drops, vars

\* The types, whatever is asked and in whatever order.
THEOREM TypeCorrect == Spec => []TypeOK
<1>1. TypeInv /\ Waiting /\ [Next]_vars => (TypeInv /\ Waiting)'
    BY TypeStep, WaitingStep
<1>2. TypeInv => TypeOK
    BY DEF TypeInv
<1>3. QED BY TypeInit, <1>1, <1>2, PTL DEF Spec

\* The accepting thread knows every thread at work, and knows no more than Cap of them.
Known ==
    /\ IsFiniteSet(handles)
    /\ Cardinality(handles) <= Cap
    /\ Alive \subseteq handles

LEMMA AliveAtWork == ASSUME TypeInv PROVE Alive = {c \in Conns : serving[c].at \in Working}
<1>1. \A c \in Conns : serving[c].at \in Stages
    BY DEF TypeInv, TypeOK, ServingState
<1>2. QED BY <1>1 DEF Alive, Accepted, Stages, Working

\* Nobody starts to work but whom the accepting thread takes in.
LEMMA AliveStep ==
    ASSUME TypeInv, TypeInv', [Next]_vars
    PROVE  \/ Alive' \subseteq Alive
           \/ Accepts /\ ~ Full /\ Alive' \subseteq Alive \cup {Head(backlog)}
<1>0. /\ serving \in [Conns -> ServingState] /\ backlog \in Seq(Conns)
      /\ Alive = {c \in Conns : serving[c].at \in Working}
      /\ Alive' = {c \in Conns : serving'[c].at \in Working}
    <2>1. Alive = {c \in Conns : serving[c].at \in Working}
        BY AliveAtWork
    <2>2. \A c \in Conns : serving'[c].at \in Stages
        BY DEF TypeInv, TypeOK, ServingState
    <2>3. Alive' = {c \in Conns : serving'[c].at \in Working}
        BY <2>2 DEF Alive, Accepted, Stages, Working
    <2>4. QED BY <2>1, <2>3 DEF TypeInv, TypeOK
<1>1. ASSUME NEW c \in Conns, Handles(c) \/ Copies(c)
      PROVE  Alive' \subseteq Alive
    <2>1. Works(c)
        BY <1>1, ThreadsWork
    <2>2. QED BY <1>0, <2>1 DEF Works
<1>2. CASE Accepts
    <2> DEFINE c == Head(backlog)
    <2>1. c \in Conns
        BY <1>0, <1>2 DEF Accepts
    <2>2. /\ \A d \in Conns \ {c} : serving'[d] = serving[d]
          /\ serving'[c] = [Unserved EXCEPT !.at = IF Full THEN "shut" ELSE "line"]
        BY <1>0, <1>2, <2>1 DEF Accepts
    <2>3. Full => serving'[c].at = "shut"
        BY <2>2 DEF Unserved
    <2> HIDE DEF c
    <2>4. Alive' \subseteq Alive \cup {c} /\ (Full => c \notin Alive')
        BY <1>0, <2>2, <2>3 DEF Working
    <2>5. QED BY <1>2, <2>4 DEF c
<1>3. CASE Joins
    <2>1. \A d \in Conns : serving'[d] = serving[d] \/ serving'[d] = [Unserved EXCEPT !.at = "reset"]
        BY <1>3 DEF Joins
    <2>2. [Unserved EXCEPT !.at = "reset"].at = "reset"
        BY DEF Unserved
    <2>3. QED BY <1>0, <2>1, <2>2 DEF Working
<1>4. CASE serving' = serving
    BY <1>0, <1>4
<1>5. QED BY <1>1, <1>2, <1>3, <1>4
    DEF Next, Worker, Checks, FindsNobody, AcceptFails, Connects, Writes, HalfCloses, Closes, FarReplies,
        FarCloses, FinishBegins, FinishReturns, Drops, vars

LEMMA KnownStep ==
    ASSUME TypeInv, TypeInv', Known, [Next]_vars
    PROVE  Known'
<1>1. Unfinished \subseteq handles /\ Alive \subseteq Unfinished
    BY DEF Unfinished, Known, Alive, Accepted
<1>2. IsFiniteSet(Unfinished) /\ Cardinality(Unfinished) \in Nat /\ Cardinality(Unfinished) <= Cap
    <2>1. IsFiniteSet(Unfinished) /\ Cardinality(Unfinished) <= Cardinality(handles)
        BY <1>1, FS_Subset DEF Known
    <2>2. Cardinality(Unfinished) \in Nat /\ Cardinality(handles) \in Nat
        BY <2>1, FS_CardinalityType DEF Known
    <2>3. QED BY <2>1, <2>2, EgressAssumption DEF Known
<1>3. CASE Accepts /\ Full
    <2>1. handles' = Unfinished
        BY <1>3 DEF Accepts
    <2>2. Alive' \subseteq Alive
        BY <1>3, AliveStep
    <2>3. QED BY <1>1, <1>2, <2>1, <2>2 DEF Known
<1>4. CASE Accepts /\ ~ Full
    <2> DEFINE c == Head(backlog)
    <2>1. handles' = Unfinished \cup {c}
        BY <1>4 DEF Accepts
    <2>2. Alive' \subseteq Alive \cup {c}
        BY AliveStep
    <2>3. Cardinality(Unfinished) < Cap
        BY <1>2, <1>4, EgressAssumption DEF Full
    <2>4. /\ IsFiniteSet(Unfinished \cup {c})
          /\ Cardinality(Unfinished \cup {c}) \in {Cardinality(Unfinished), Cardinality(Unfinished) + 1}
        BY <1>2, FS_AddElement
    <2> HIDE DEF c
    <2>5. Cardinality(Unfinished \cup {c}) <= Cap
        BY <1>2, <2>3, <2>4, EgressAssumption
    <2>6. QED BY <1>1, <2>1, <2>2, <2>4, <2>5 DEF Known
<1>5. CASE Joins
    <2>1. handles' = {} /\ Alive = {}
        BY <1>1, <1>5 DEF Joins
    <2>2. Alive' \subseteq Alive
        BY <1>5, AliveStep DEF Joins, Accepts
    <2>3. QED BY <2>1, <2>2, FS_EmptySet, EgressAssumption DEF Known
<1>6. CASE handles' = handles /\ ~ Accepts
    BY <1>6, AliveStep DEF Known
<1>7. handles' = handles \/ Accepts \/ Joins
    <2>1. ASSUME NEW c \in Conns, Handles(c) \/ Copies(c)
          PROVE  handles' = handles
        BY <2>1, ThreadsWork DEF Works
    <2>2. QED BY <2>1
        DEF Next, Worker, Checks, FindsNobody, AcceptFails, Connects, Writes, HalfCloses, Closes,
            FarReplies, FarCloses, FinishBegins, FinishReturns, Drops, vars
<1>8. QED BY <1>3, <1>4, <1>5, <1>6, <1>7

\* Whatever number of connections the load opens, never more than MAX_CONNECTIONS threads
\* serve it at once, and the accepting thread can join every one of them.
THEOREM NeverBeyondCap == Spec => []AtMostCap
<1>1. Init => Known
    BY FS_EmptySet, EgressAssumption DEF Init, Known, Alive, Accepted, Unserved
<1>2. TypeInv /\ Waiting /\ Known /\ [Next]_vars => (TypeInv /\ Waiting /\ Known)'
    BY TypeStep, WaitingStep, KnownStep
<1>3. Known => AtMostCap
    <2> SUFFICES ASSUME Known PROVE AtMostCap
        OBVIOUS
    <2>1. IsFiniteSet(Alive) /\ Cardinality(Alive) <= Cardinality(handles)
        BY FS_Subset DEF Known
    <2>2. Cardinality(Alive) \in Nat /\ Cardinality(handles) \in Nat
        BY <2>1, FS_CardinalityType DEF Known
    <2>3. QED BY <2>1, <2>2, EgressAssumption DEF Known, AtMostCap
<1>4. QED BY TypeInit, <1>1, <1>2, <1>3, PTL DEF Spec

\* The log holds the finished connections, each once, and nobody is at work once the
\* accepting thread has ended.
Finished == {c \in Conns : serving[c].at = "done"}

Logged ==
    /\ IsFiniteSet(Finished)
    /\ Len(log) = Cardinality(Finished)
    /\ {log[i].conn : i \in DOMAIN log} = Finished
    /\ worker = "ended" => Alive = {}
    /\ sup = "finished" => worker = "ended"

LEMMA FinishedStep ==
    ASSUME TypeInv, Waiting, [Next]_vars
    PROVE  \/ Finished' = Finished /\ log' = log
           \/ \E c \in Conns \ Finished, r \in ConnectionRecord :
                r.conn = c /\ log' = Append(log, r) /\ Finished' = Finished \cup {c}
<1>0. serving \in [Conns -> ServingState] /\ backlog \in Seq(Conns)
    BY DEF TypeInv, TypeOK
<1>1. ASSUME NEW c \in Conns, Handles(c) \/ Copies(c)
      PROVE  \/ Finished' = Finished /\ log' = log
             \/ \E r \in ConnectionRecord : /\ r.conn = c /\ c \notin Finished
                                            /\ log' = Append(log, r) /\ Finished' = Finished \cup {c}
    <2>1. Works(c)
        BY <1>1, ThreadsWork
    <2>2. QED BY <2>1 DEF Works, Working, Finished
<1>2. CASE Accepts
    <2> DEFINE c == Head(backlog)
    <2>1. c \in Conns /\ c = backlog[1] /\ 1 \in DOMAIN backlog
        BY <1>0, <1>2 DEF Accepts
    <2>2. /\ \A d \in Conns \ {c} : serving'[d] = serving[d]
          /\ serving'[c] = [Unserved EXCEPT !.at = IF Full THEN "shut" ELSE "line"]
          /\ log' = log
        BY <1>0, <1>2, <2>1 DEF Accepts
    <2>3. serving'[c].at # "done" /\ serving[c].at # "done"
        BY <2>1, <2>2 DEF Unserved, Waiting
    <2> HIDE DEF c
    <2>4. QED BY <2>1, <2>2, <2>3 DEF Finished
<1>3. CASE Joins
    <2>1. \A d \in Held : serving[d].at = "none"
        BY DEF Held, Waiting
    <2>2. [Unserved EXCEPT !.at = "reset"].at = "reset"
        BY DEF Unserved
    <2>3. /\ \A d \in Conns : serving'[d] = IF d \in Held THEN [Unserved EXCEPT !.at = "reset"] ELSE serving[d]
          /\ log' = log
        BY <1>3 DEF Joins
    <2>4. QED BY <2>1, <2>2, <2>3 DEF Finished
<1>4. CASE serving' = serving /\ log' = log
    BY <1>4 DEF Finished
<1>5. QED BY <1>1, <1>2, <1>3, <1>4
    DEF Next, Worker, Checks, FindsNobody, AcceptFails, Connects, Writes, HalfCloses, Closes, FarReplies,
        FarCloses, FinishBegins, FinishReturns, Drops, vars

\* The accepting thread ends with nobody at work, and stays ended.
LEMMA EndedStep ==
    ASSUME TypeInv, TypeInv', Known, [Next]_vars, worker = "ended" => Alive = {},
           sup = "finished" => worker = "ended"
    PROVE  /\ worker' = "ended" => Alive' = {}
           /\ sup' = "finished" => worker' = "ended"
<1>1. CASE Joins
    <2>1. Alive = {}
        BY <1>1 DEF Joins, Unfinished, Known, Alive, Accepted
    <2>2. Alive' = {} /\ worker' = "ended"
        BY <1>1, <2>1, AliveStep DEF Joins, Accepts
    <2>3. QED BY <2>2
<1>2. CASE Checks \/ FindsNobody \/ Accepts \/ AcceptFails
    BY <1>2 DEF Checks, FindsNobody, Accepts, AcceptFails
<1>3. CASE FinishBegins \/ FinishReturns \/ Drops
    BY <1>3, AliveStep DEF FinishBegins, FinishReturns, Drops, Accepts
<1>4. CASE worker' = worker /\ sup' = sup /\ ~ Accepts
    BY <1>4, AliveStep
<1>5. ASSUME NEW c \in Conns, Handles(c) \/ Copies(c)
      PROVE  worker' = worker /\ sup' = sup
    BY <1>5, ThreadsWork DEF Works
<1>6. QED BY <1>1, <1>2, <1>3, <1>4, <1>5
    DEF Next, Worker, Connects, Writes, HalfCloses, Closes, FarReplies, FarCloses, vars

LEMMA LoggedStep ==
    ASSUME TypeInv, TypeInv', Waiting, Known, Logged, [Next]_vars
    PROVE  Logged'
<1>1. /\ worker' = "ended" => Alive' = {}
      /\ sup' = "finished" => worker' = "ended"
    BY EndedStep DEF Logged
<1>2. CASE Finished' = Finished /\ log' = log
    BY <1>1, <1>2 DEF Logged
<1>3. CASE \E c \in Conns \ Finished, r \in ConnectionRecord :
                r.conn = c /\ log' = Append(log, r) /\ Finished' = Finished \cup {c}
    <2>1. PICK c \in Conns \ Finished, r \in ConnectionRecord :
                r.conn = c /\ log' = Append(log, r) /\ Finished' = Finished \cup {c}
        BY <1>3
    <2>2. IsFiniteSet(Finished') /\ Cardinality(Finished') = Cardinality(Finished) + 1
        BY <2>1, FS_AddElement DEF Logged
    <2>3. log \in Seq(ConnectionRecord)
        BY DEF TypeInv, TypeOK
    <2>4. /\ Len(log') = Len(log) + 1
          /\ DOMAIN log' = (DOMAIN log) \cup {Len(log) + 1}
          /\ \A i \in DOMAIN log : log'[i] = log[i]
          /\ log'[Len(log) + 1] = r
        BY <2>1, <2>3
    <2>5. {log'[i].conn : i \in DOMAIN log'} = {log[i].conn : i \in DOMAIN log} \cup {c}
        BY <2>1, <2>4
    <2>6. QED BY <1>1, <2>1, <2>2, <2>4, <2>5 DEF Logged
<1>4. QED BY <1>2, <1>3, FinishedStep

\* What finish returns is complete: every connection that was accepted has ended and has
\* exactly one record.
THEOREM NothingUnrecorded == Spec => []LogIsComplete
<1>1. Init => Known /\ Logged
    <2> SUFFICES ASSUME Init PROVE Known /\ Logged
        OBVIOUS
    <2>1. Finished = {} /\ Alive = {}
        BY DEF Init, Finished, Alive, Accepted, Unserved
    <2>2. QED BY <2>1, FS_EmptySet, EgressAssumption DEF Init, Known, Logged
<1>2. TypeInv /\ Waiting /\ Known /\ Logged /\ [Next]_vars => (TypeInv /\ Waiting /\ Known /\ Logged)'
    BY TypeStep, WaitingStep, KnownStep, LoggedStep
<1>3. Logged => LogIsComplete
    <2>1. Alive = {} => Accepted \subseteq Finished
        BY DEF Alive, Accepted, Finished
    <2>2. Finished \subseteq Accepted
        BY DEF Finished, Accepted
    <2>3. QED BY <2>1, <2>2 DEF Logged, LogIsComplete
<1>4. QED BY TypeInit, <1>1, <1>2, <1>3, PTL DEF Spec

------------------------------------------------------------------------------
(* What reaches a destination, and what the record says of it *)

\* The connection as the load has written it, and its empty lines.
Heard(l) == <<"line">> \o l.asks.rest

Blanks(l) == {i \in DOMAIN Heard(l) : Heard(l)[i] = "blank"}

FirstBlank(l, i) == i \in Blanks(l) /\ \A j \in Blanks(l) : i <= j

\* The load has been heard to its end.
Exhausted(l, s) == s.read = l.wrote /\ l.end # "open"

\* The destination has what follows the empty line, as far as it was copied.
Passed(l, s, f) ==
    \E i \in 1 .. s.read :
        /\ FirstBlank(l, i)
        /\ i + Len(f.got) <= s.read
        /\ s.out = "copying" => i + Len(f.got) = s.read
        /\ f.got = SubSeq(Heard(l), i + 1, i + Len(f.got))

\* Where the thread stands in the stream when it is not cut short.
Placed(l, s, f) ==
    /\ s.at \in {"headers", "dialling", "confirming", "splicing"} => s.read >= 1
    /\ s.at = "headers" => \A j \in Blanks(l) : s.read < j
    /\ s.at \in {"dialling", "confirming"} /\ ~ s.cut => Exhausted(l, s) \/ FirstBlank(l, s.read)
    /\ s.at \in {"splicing", "recording"} /\ ~ s.cut =>
        Passed(l, s, f) \/ (f.got = <<>> /\ (s.at = "splicing" => Exhausted(l, s)))

\* What the thread has counted is what has gone through its hands.
Counts(l, s, f) ==
    /\ s.at \in {"line", "headers"} => ~ s.allowed /\ f.state = "none"
    /\ s.at \in {"line", "headers", "dialling", "confirming"} =>
        f.got = <<>> /\ ~ f.eof /\ s.sent = 0 /\ s.received = 0 /\ s.out = "off"
    /\ s.at \in {"dialling", "confirming", "splicing"} => s.allowed
    /\ s.allowed => l.wrote > 0 /\ Permits(l.asks)
    /\ f.state # "none" => s.allowed
    /\ f.eof => s.sent = Len(f.got) /\ s.out # "copying"
    /\ Len(f.got) - s.sent \in {0, 1}
    /\ s.out = "copying" => Len(f.got) = s.sent
    /\ s.received <= f.replied

Honest(l, s, f) == s.at \in Working => l.end # "away" /\ Placed(l, s, f) /\ Counts(l, s, f)

AllHonest == \A c \in Conns : Honest(load[c], serving[c], far[c])

\* What is known of a connection before a step.
LEMMA OfHonest ==
    ASSUME TypeInv, AllHonest, NEW c \in Conns
    PROVE  /\ load \in [Conns -> LoadState] /\ serving \in [Conns -> ServingState] /\ far \in [Conns -> FarState]
           /\ load[c] \in LoadState /\ serving[c] \in ServingState /\ far[c] \in FarState
           /\ serving[c].read \in Nat /\ load[c].wrote \in Nat /\ serving[c].sent \in Nat /\ serving[c].received \in Nat
           /\ far[c].got \in Seq(Tokens) /\ Len(far[c].got) \in Nat /\ far[c].replied \in Nat
           /\ serving[c].cut \in BOOLEAN /\ serving[c].allowed \in BOOLEAN /\ far[c].eof \in BOOLEAN
           /\ serving[c].read <= load[c].wrote
           /\ load[c].wrote > 0 => /\ Heard(load[c]) \in Seq(Tokens)
                                   /\ load[c].wrote <= Len(Heard(load[c]))
                                   /\ Heard(load[c])[1] = "line"
           /\ Honest(load[c], serving[c], far[c])
<1>1. /\ load \in [Conns -> LoadState] /\ serving \in [Conns -> ServingState] /\ far \in [Conns -> FarState]
    BY DEF TypeInv, TypeOK
<1>2. load[c] \in LoadState /\ serving[c] \in ServingState /\ far[c] \in FarState
    BY <1>1
<1>3. /\ serving[c].read \in Nat /\ load[c].wrote \in Nat /\ serving[c].sent \in Nat /\ serving[c].received \in Nat
      /\ far[c].got \in Seq(Tokens) /\ far[c].replied \in Nat
      /\ serving[c].cut \in BOOLEAN /\ serving[c].allowed \in BOOLEAN /\ far[c].eof \in BOOLEAN
    BY <1>2 DEF LoadState, ServingState, FarState
<1>4. Len(far[c].got) \in Nat
    BY <1>3
<1>5. serving[c].read <= load[c].wrote
    BY DEF TypeInv, WithinStream
<1>6. ASSUME load[c].wrote > 0
      PROVE  /\ Heard(load[c]) \in Seq(Tokens)
             /\ load[c].wrote <= Len(Heard(load[c]))
             /\ Heard(load[c])[1] = "line"
    <2>1. load[c].asks \in Requests /\ load[c].wrote <= Len(load[c].asks.rest) + 1
        BY <1>6 DEF TypeInv, WithinStream
    <2>2. load[c].asks.rest \in Seq({"header", "blank", "data"})
        BY <2>1, EgressAssumption
    <2>3. load[c].asks.rest \in Seq(Tokens)
        BY <2>2 DEF Tokens
    <2>4. /\ Heard(load[c]) \in Seq(Tokens) /\ Len(Heard(load[c])) = Len(load[c].asks.rest) + 1
          /\ Heard(load[c])[1] = "line"
        BY <2>3 DEF Heard, Tokens
    <2>5. QED BY <2>1, <2>4
<1>7. Honest(load[c], serving[c], far[c])
    BY DEF AllHonest
<1>8. QED BY <1>1, <1>2, <1>3, <1>4, <1>5, <1>6, <1>7

\* Steps that change one connection only.
LEMMA HonestThere ==
    ASSUME TypeInv, AllHonest, NEW c \in Conns, NEW l, NEW s, NEW f, Turns(c, l, s, f), Honest(l, s, f)
    PROVE  AllHonest'
<1>1. /\ load'[c] = l /\ serving'[c] = s /\ far'[c] = f
      /\ \A d \in Conns \ {c} : load'[d] = load[d] /\ serving'[d] = serving[d] /\ far'[d] = far[d]
    BY DEF Turns, TypeInv, TypeOK
<1>2. Honest(load'[c], serving'[c], far'[c])
    BY <1>1
<1>3. \A d \in Conns \ {c} : Honest(load'[d], serving'[d], far'[d])
    BY <1>1 DEF AllHonest
<1>4. \A d \in Conns : Honest(load'[d], serving'[d], far'[d])
    BY <1>2, <1>3
<1>5. QED BY <1>4 DEF AllHonest

\* The load may close, and go on writing what it has begun to ask.
LEMMA LoadHonest ==
    ASSUME TypeInv, Waiting, AllHonest, NEW c \in Conns, Connects(c) \/ Writes(c) \/ HalfCloses(c) \/ Closes(c)
    PROVE  AllHonest'
<1>0. /\ load \in [Conns -> LoadState] /\ serving = [serving EXCEPT ![c] = serving[c]] /\ far = [far EXCEPT ![c] = far[c]]
      /\ load[c] \in LoadState /\ serving[c].read \in Nat /\ load[c].wrote \in Nat
      /\ serving[c].read <= load[c].wrote /\ Honest(load[c], serving[c], far[c])
      /\ far[c].got \in Seq(Tokens) /\ Len(far[c].got) \in Nat
    BY OfHonest
<1>1. serving' = serving /\ far' = far
    BY DEF Connects, Writes, HalfCloses, Closes
<1>2. CASE Connects(c)
    <2> DEFINE l == [load[c] EXCEPT !.end = "open"]
    <2>1. load' = [load EXCEPT ![c] = l]
        BY <1>2 DEF Connects
    <2>2. serving[c].at \notin Working
        BY <1>2 DEF Connects, Waiting, Working
    <2> HIDE DEF l
    <2>3. Honest(l, serving[c], far[c])
        BY <2>2 DEF Honest
    <2>4. QED BY <1>0, <1>1, <2>1, <2>3, HonestThere DEF Turns
<1>3. ASSUME NEW l \in LoadState, load' = [load EXCEPT ![c] = l], l.end # "away",
             l.asks = load[c].asks, l.wrote >= load[c].wrote,
             load[c].end # "open" => l.wrote = load[c].wrote /\ l.end # "open"
      PROVE  AllHonest'
    <2>1. Heard(l) = Heard(load[c]) /\ Blanks(l) = Blanks(load[c]) /\ l.wrote \in Nat
        BY <1>3 DEF Heard, Blanks, LoadState
    <2>2. /\ Exhausted(load[c], serving[c]) => Exhausted(l, serving[c])
          /\ \A i : FirstBlank(l, i) <=> FirstBlank(load[c], i)
        BY <1>3, <2>1 DEF Exhausted, FirstBlank
    <2>3. Passed(load[c], serving[c], far[c]) => Passed(l, serving[c], far[c])
        BY <2>1, <2>2 DEF Passed
    <2>4. Placed(load[c], serving[c], far[c]) => Placed(l, serving[c], far[c])
        BY <2>1, <2>2, <2>3 DEF Placed
    <2>5. Counts(load[c], serving[c], far[c]) => Counts(l, serving[c], far[c])
        BY <1>0, <1>3, <2>1 DEF Counts
    <2>6. Honest(l, serving[c], far[c])
        BY <1>0, <1>3, <2>4, <2>5 DEF Honest
    <2>7. QED BY <1>0, <1>1, <1>3, <2>6, HonestThere DEF Turns
<1>4. CASE HalfCloses(c) \/ Closes(c)
    <2>1. PICK e \in {"half", "gone"} : load' = [load EXCEPT ![c].end = e]
        BY <1>4 DEF HalfCloses, Closes
    <2> DEFINE l == [load[c] EXCEPT !.end = e]
    <2>2. l \in LoadState /\ l.end = e /\ l.asks = load[c].asks /\ l.wrote = load[c].wrote
        BY <1>0 DEF LoadState
    <2>3. load' = [load EXCEPT ![c] = l]
        BY <2>1
    <2>4. l.end # "away" /\ l.wrote >= load[c].wrote /\ l.end # "open"
        BY <1>0, <2>2
    <2> HIDE DEF l
    <2>5. QED BY <1>3, <2>2, <2>3, <2>4
<1>5. CASE Writes(c)
    <2>1. CASE load[c].wrote = 0
        <3>1. PICK r \in Requests : load' = [load EXCEPT ![c].asks = r, ![c].wrote = 1]
            <4>1. ~ (load[c].wrote > 0)
                BY <2>1
            <4>2. QED BY <1>5, <4>1 DEF Writes
        <3> DEFINE l == [load[c] EXCEPT !.asks = r, !.wrote = 1]
        <3>2. l \in LoadState /\ l.end = load[c].end /\ l.wrote = 1
            BY <1>0 DEF LoadState
        <3>3. load' = [load EXCEPT ![c] = l]
            BY <3>1
        <3> HIDE DEF l
        <3>4. serving[c].read = 0 /\ load[c].end = "open"
            BY <1>0, <1>5, <2>1 DEF Writes
        <3>5. ~ Passed(load[c], serving[c], far[c]) /\ ~ Exhausted(load[c], serving[c])
            BY <3>4 DEF Passed, Exhausted
        <3>6. Placed(load[c], serving[c], far[c]) => Placed(l, serving[c], far[c])
            BY <3>4, <3>5 DEF Placed
        <3>7. Counts(load[c], serving[c], far[c]) => Counts(l, serving[c], far[c])
            BY <1>0, <2>1 DEF Counts
        <3>8. Honest(l, serving[c], far[c])
            BY <1>0, <3>2, <3>4, <3>6, <3>7 DEF Honest
        <3>9. QED BY <1>0, <1>1, <3>3, <3>8, HonestThere DEF Turns
    <2>2. CASE load[c].wrote > 0
        <3> DEFINE l == [load[c] EXCEPT !.wrote = @ + 1]
        <3>0. load[c].wrote + 1 \in Nat
            BY <1>0
        <3>1. l \in LoadState /\ l.asks = load[c].asks /\ l.wrote = load[c].wrote + 1 /\ l.end = load[c].end
            BY <1>0, <3>0 DEF LoadState
        <3>2. load' = [load EXCEPT ![c] = l] /\ load[c].end = "open"
            BY <1>5, <2>2 DEF Writes
        <3>3. l.end # "away" /\ l.wrote >= load[c].wrote /\ (load[c].end # "open" => FALSE)
            BY <1>0, <3>1, <3>2
        <3> HIDE DEF l
        <3>4. QED BY <1>3, <3>1, <3>2, <3>3
    <2>3. QED BY <1>0, <2>1, <2>2
<1>6. QED BY <1>2, <1>4, <1>5

\* Destinations reply and close.
LEMMA FarHonest ==
    ASSUME TypeInv, AllHonest, NEW c \in Conns, FarReplies(c) \/ FarCloses(c)
    PROVE  AllHonest'
<1>0. /\ load = [load EXCEPT ![c] = load[c]] /\ serving = [serving EXCEPT ![c] = serving[c]]
      /\ far \in [Conns -> FarState] /\ far[c] \in FarState
      /\ far[c].replied \in Nat /\ serving[c].received \in Nat
      /\ Honest(load[c], serving[c], far[c])
    BY OfHonest
<1>1. load' = load /\ serving' = serving
    BY DEF FarReplies, FarCloses
<1>2. PICK f : /\ far' = [far EXCEPT ![c] = f]
               /\ f.got = far[c].got /\ f.eof = far[c].eof /\ f.replied >= far[c].replied /\ f.replied \in Nat
               /\ f.state # "none" /\ far[c].state # "none"
    <2>1. CASE FarReplies(c)
        <3> DEFINE f == [far[c] EXCEPT !.replied = @ + 1]
        <3>1. far' = [far EXCEPT ![c] = f] /\ far[c].state = "open"
            BY <2>1 DEF FarReplies
        <3>2. f.got = far[c].got /\ f.eof = far[c].eof /\ f.replied = far[c].replied + 1 /\ f.state = far[c].state
            BY <1>0 DEF FarState
        <3> HIDE DEF f
        <3>3. f.replied >= far[c].replied /\ f.replied \in Nat
            BY <1>0, <3>2
        <3>4. QED BY <3>1, <3>2, <3>3
    <2>2. CASE FarCloses(c)
        <3> DEFINE f == [far[c] EXCEPT !.state = "closed"]
        <3>1. far' = [far EXCEPT ![c] = f] /\ far[c].state = "open"
            BY <2>2 DEF FarCloses
        <3>2. f.got = far[c].got /\ f.eof = far[c].eof /\ f.replied = far[c].replied /\ f.state = "closed"
            BY <1>0 DEF FarState
        <3> HIDE DEF f
        <3>3. f.replied >= far[c].replied /\ f.replied \in Nat
            BY <1>0, <3>2
        <3>4. QED BY <3>1, <3>2, <3>3
    <2>3. QED BY <2>1, <2>2
<1>3. Placed(load[c], serving[c], far[c]) => Placed(load[c], serving[c], f)
    BY <1>2 DEF Placed, Passed
<1>4. Counts(load[c], serving[c], far[c]) => Counts(load[c], serving[c], f)
    BY <1>0, <1>2 DEF Counts
<1>5. Honest(load[c], serving[c], f)
    BY <1>0, <1>3, <1>4 DEF Honest
<1>6. QED BY <1>0, <1>1, <1>2, <1>5, HonestThere DEF Turns

\* What a step of a thread has to show.
LEMMA ThreadHonest ==
    ASSUME TypeInv, AllHonest, NEW c \in Conns, NEW s, NEW f,
           load' = load, serving' = [serving EXCEPT ![c] = s], far' = [far EXCEPT ![c] = f],
           serving[c].at \in Working,
           Placed(load[c], s, f), Counts(load[c], s, f)
    PROVE  AllHonest'
<1>1. load = [load EXCEPT ![c] = load[c]] /\ Honest(load[c], serving[c], far[c])
    BY OfHonest
<1>2. Honest(load[c], s, f)
    BY <1>1 DEF Honest
<1>3. QED BY <1>1, <1>2, HonestThere DEF Turns

\* The steps before the decision.
LEMMA ListensHonest ==
    ASSUME TypeInv, AllHonest, NEW c \in Conns, RefusesLine(c) \/ ReadsLine(c) \/ SkipsHeader(c)
    PROVE  AllHonest'
<1>0. /\ far = [far EXCEPT ![c] = far[c]] /\ serving[c] \in ServingState
      /\ serving[c].read \in Nat /\ load[c].wrote \in Nat /\ Honest(load[c], serving[c], far[c])
      /\ load[c].wrote > 0 => Heard(load[c]) \in Seq(Tokens) /\ Heard(load[c])[1] = "line"
    BY OfHonest
<1>1. load' = load /\ far' = far /\ serving[c].at \in {"line", "headers"}
    BY DEF RefusesLine, ReadsLine, SkipsHeader, Rest
<1>2. /\ Placed(load[c], serving[c], far[c]) /\ Counts(load[c], serving[c], far[c])
      /\ serving[c].at \in Working
    BY <1>0, <1>1 DEF Honest, Working
<1>3. CASE RefusesLine(c)
    <2> DEFINE s == [serving[c] EXCEPT !.at = "recording"]
    <2>1. /\ s.at = "recording" /\ s.read = serving[c].read /\ s.allowed = serving[c].allowed
          /\ s.out = serving[c].out /\ s.sent = serving[c].sent /\ s.received = serving[c].received
        BY <1>0 DEF ServingState
    <2>2. serving' = [serving EXCEPT ![c] = s]
        BY <1>3 DEF RefusesLine
    <2> HIDE DEF s
    <2>3. Placed(load[c], s, far[c])
        BY <1>1, <1>2, <2>1 DEF Placed, Counts
    <2>4. Counts(load[c], s, far[c])
        BY <1>1, <1>2, <2>1 DEF Counts
    <2>5. QED BY <1>0, <1>1, <1>2, <2>2, <2>3, <2>4, ThreadHonest
<1>4. CASE ReadsLine(c)
    <2> DEFINE s == [serving[c] EXCEPT !.at = "headers", !.read = 1]
    <2>1. /\ s.at = "headers" /\ s.read = 1 /\ s.allowed = serving[c].allowed
          /\ s.out = serving[c].out /\ s.sent = serving[c].sent /\ s.received = serving[c].received
        BY <1>0 DEF ServingState
    <2>2. serving' = [serving EXCEPT ![c] = s] /\ serving[c].at = "line" /\ Pending(c)
        BY <1>4 DEF ReadsLine
    <2> HIDE DEF s
    <2>3. \A j \in Blanks(load[c]) : 1 < j
        BY <1>0, <2>2 DEF Blanks, Pending
    <2>4. Placed(load[c], s, far[c])
        BY <2>1, <2>3 DEF Placed
    <2>5. Counts(load[c], s, far[c])
        BY <1>1, <1>2, <2>1 DEF Counts
    <2>6. QED BY <1>0, <1>1, <1>2, <2>2, <2>4, <2>5, ThreadHonest
<1>5. CASE SkipsHeader(c)
    <2> DEFINE s == [serving[c] EXCEPT !.read = @ + 1]
    <2>1. /\ s.at = serving[c].at /\ s.read = serving[c].read + 1 /\ s.allowed = serving[c].allowed
          /\ s.out = serving[c].out /\ s.sent = serving[c].sent /\ s.received = serving[c].received
        BY <1>0 DEF ServingState
    <2>2. /\ serving' = [serving EXCEPT ![c] = s] /\ serving[c].at = "headers" /\ Pending(c)
          /\ Heard(load[c])[serving[c].read + 1] # "blank"
        BY <1>5 DEF SkipsHeader, NextToken, Stream, Heard
    <2> HIDE DEF s
    <2>3. \A j \in Blanks(load[c]) : j \in Nat /\ serving[c].read < j /\ j # serving[c].read + 1
        BY <1>0, <1>2, <2>2 DEF Blanks, Placed, Pending
    <2>4. Placed(load[c], s, far[c])
        BY <1>0, <2>1, <2>2, <2>3 DEF Placed
    <2>5. Counts(load[c], s, far[c])
        BY <1>1, <1>2, <2>1 DEF Counts
    <2>6. QED BY <1>0, <1>1, <1>2, <2>2, <2>4, <2>5, ThreadHonest
<1>6. QED BY <1>3, <1>4, <1>5

\* The decision: unless it cut the headers short, it has just read the first empty line or
\* everything there was.
LEMMA DecidesHonest ==
    ASSUME TypeInv, AllHonest, NEW c \in Conns, EndsHeaders(c) \/ CutsHeaders(c)
    PROVE  AllHonest'
<1>0. /\ far = [far EXCEPT ![c] = far[c]] /\ serving[c] \in ServingState
      /\ serving[c].read \in Nat /\ load[c].wrote \in Nat /\ serving[c].read <= load[c].wrote
      /\ load[c].wrote > 0 => Heard(load[c]) \in Seq(Tokens) /\ load[c].wrote <= Len(Heard(load[c]))
      /\ Honest(load[c], serving[c], far[c])
    BY OfHonest
<1>1. load' = load /\ far' = far /\ serving[c].at = "headers"
    BY DEF EndsHeaders, CutsHeaders, Rest
<1>2. /\ Placed(load[c], serving[c], far[c]) /\ Counts(load[c], serving[c], far[c])
      /\ load[c].end # "away" /\ serving[c].at \in Working
    BY <1>0, <1>1 DEF Honest, Working
<1>3. /\ serving[c].read >= 1 /\ load[c].wrote > 0
      /\ \A j \in Blanks(load[c]) : serving[c].read < j
    BY <1>0, <1>1, <1>2 DEF Placed
<1>4. PICK read \in Nat, cut \in BOOLEAN :
          /\ Decided(c, read, cut) /\ read >= serving[c].read
          /\ ~ cut => Exhausted(load[c], [read |-> read]) \/ FirstBlank(load[c], read)
    <2>1. CASE Pending(c) /\ NextToken(c) = "blank" /\ Decided(c, serving[c].read + 1, FALSE)
        <3>1. serving[c].read + 1 \in DOMAIN Heard(load[c])
            BY <1>0, <1>3, <2>1 DEF Pending
        <3>2. serving[c].read + 1 \in Blanks(load[c])
            BY <2>1, <3>1 DEF Blanks, NextToken, Stream, Heard
        <3>3. \A j \in Blanks(load[c]) : serving[c].read + 1 <= j
            BY <1>0, <1>3 DEF Blanks
        <3>4. FirstBlank(load[c], serving[c].read + 1)
            BY <3>2, <3>3 DEF FirstBlank
        <3>5. serving[c].read + 1 \in Nat /\ serving[c].read + 1 >= serving[c].read
            BY <1>0
        <3>6. QED BY <2>1, <3>4, <3>5
    <2>2. CASE Ended(c) /\ Decided(c, serving[c].read, FALSE)
        <3>1. serving[c].read = load[c].wrote /\ load[c].end # "open"
            BY <1>0, <2>2 DEF Ended, Pending
        <3>2. Exhausted(load[c], [read |-> serving[c].read])
            BY <3>1 DEF Exhausted
        <3>3. serving[c].read >= serving[c].read
            BY <1>0
        <3>4. QED BY <1>0, <2>2, <3>2, <3>3
    <2>3. CASE Decided(c, serving[c].read, TRUE) \/ Decided(c, serving[c].read + 1, TRUE)
        <3>1. /\ serving[c].read >= serving[c].read
              /\ serving[c].read + 1 \in Nat /\ serving[c].read + 1 >= serving[c].read
            BY <1>0
        <3>2. QED BY <1>0, <2>3, <3>1
    <2>4. QED BY <2>1, <2>2, <2>3 DEF EndsHeaders, CutsHeaders
<1> DEFINE at == IF Permits(load[c].asks) THEN "dialling" ELSE "recording"
           s == [serving[c] EXCEPT !.at = at, !.allowed = Permits(load[c].asks), !.read = read, !.cut = cut]
<1>5. /\ s.at = at /\ s.read = read /\ s.allowed = Permits(load[c].asks) /\ s.cut = cut
      /\ s.out = serving[c].out /\ s.sent = serving[c].sent /\ s.received = serving[c].received
    BY <1>0 DEF ServingState
<1>6. serving' = [serving EXCEPT ![c] = s]
    BY <1>4 DEF Decided
<1>7. /\ Permits(load[c].asks) => at = "dialling"
      /\ ~ Permits(load[c].asks) => at = "recording"
    OBVIOUS
<1> HIDE DEF s, at
<1>8. Placed(load[c], s, far[c])
    <2>1. far[c].got = <<>>
        BY <1>1, <1>2 DEF Counts
    <2>2. s.read >= 1
        BY <1>0, <1>3, <1>4, <1>5
    <2>3. Exhausted(load[c], [read |-> read]) => Exhausted(load[c], s)
        BY <1>5 DEF Exhausted
    <2>4. QED BY <1>4, <1>5, <1>7, <2>1, <2>2, <2>3 DEF Placed
<1>9. Counts(load[c], s, far[c])
    BY <1>1, <1>2, <1>3, <1>5, <1>7 DEF Counts
<1>10. QED BY <1>0, <1>1, <1>2, <1>6, <1>8, <1>9, ThreadHonest

\* Dialling, the confirmation, and the end of a connection.
LEMMA DialsHonest ==
    ASSUME TypeInv, AllHonest, NEW c \in Conns,
           DialFails(c) \/ Dials(c) \/ ConfirmFails(c) \/ Confirms(c) \/ SpliceEnds(c)
    PROVE  AllHonest'
<1>0. /\ far = [far EXCEPT ![c] = far[c]] /\ serving[c] \in ServingState /\ far[c] \in FarState
      /\ serving[c].read \in Nat /\ far[c].got \in Seq(Tokens) /\ Len(far[c].got) \in Nat
      /\ serving[c].sent \in Nat
      /\ load[c].wrote > 0 => Heard(load[c]) \in Seq(Tokens)
      /\ Honest(load[c], serving[c], far[c])
    BY OfHonest
<1>1. load' = load /\ serving[c].at \in {"dialling", "confirming", "splicing"}
    BY DEF DialFails, Dials, ConfirmFails, Confirms, SpliceEnds, Rest
<1>2. /\ Placed(load[c], serving[c], far[c]) /\ Counts(load[c], serving[c], far[c])
      /\ serving[c].at \in Working
    BY <1>0, <1>1 DEF Honest, Working
<1>3. CASE DialFails(c)
    <2> DEFINE s == [serving[c] EXCEPT !.at = "recording"]
    <2>1. /\ s.at = "recording" /\ s.read = serving[c].read /\ s.allowed = serving[c].allowed
          /\ s.out = serving[c].out /\ s.sent = serving[c].sent /\ s.received = serving[c].received
        BY <1>0 DEF ServingState
    <2>2. serving' = [serving EXCEPT ![c] = s] /\ far' = far /\ serving[c].at = "dialling"
        BY <1>3 DEF DialFails, Rest
    <2> HIDE DEF s
    <2>3. Placed(load[c], s, far[c])
        BY <1>2, <2>1, <2>2 DEF Placed, Counts
    <2>4. Counts(load[c], s, far[c])
        BY <1>2, <2>1, <2>2 DEF Counts
    <2>5. QED BY <1>0, <1>1, <1>2, <2>2, <2>3, <2>4, ThreadHonest
<1>4. CASE Dials(c)
    <2> DEFINE s == [serving[c] EXCEPT !.at = "confirming"]
               f == [far[c] EXCEPT !.state = "open"]
    <2>1. /\ s.at = "confirming" /\ s.read = serving[c].read /\ s.allowed = serving[c].allowed
          /\ s.cut = serving[c].cut
          /\ s.out = serving[c].out /\ s.sent = serving[c].sent /\ s.received = serving[c].received
        BY <1>0 DEF ServingState
    <2>2. f.got = far[c].got /\ f.eof = far[c].eof /\ f.replied = far[c].replied
        BY <1>0 DEF FarState
    <2>3. serving' = [serving EXCEPT ![c] = s] /\ far' = [far EXCEPT ![c] = f] /\ serving[c].at = "dialling"
        BY <1>4 DEF Dials
    <2> HIDE DEF s, f
    <2>4. Placed(load[c], s, f)
        BY <1>2, <2>1, <2>3 DEF Placed, Exhausted
    <2>5. Counts(load[c], s, f)
        BY <1>2, <2>1, <2>2, <2>3 DEF Counts
    <2>6. QED BY <1>1, <1>2, <2>3, <2>4, <2>5, ThreadHonest
<1>5. CASE Confirms(c)
    <2> DEFINE s == [serving[c] EXCEPT !.at = "splicing", !.out = "copying", !.back = "copying"]
    <2>1. /\ s.at = "splicing" /\ s.read = serving[c].read /\ s.allowed = serving[c].allowed
          /\ s.cut = serving[c].cut
          /\ s.out = "copying" /\ s.sent = serving[c].sent /\ s.received = serving[c].received
        BY <1>0 DEF ServingState
    <2>2. serving' = [serving EXCEPT ![c] = s] /\ far' = far /\ serving[c].at = "confirming"
        BY <1>5 DEF Confirms, Rest
    <2> HIDE DEF s
    <2>3. far[c].got = <<>> /\ Len(far[c].got) = 0 /\ ~ far[c].eof /\ serving[c].sent = 0 /\ s.read >= 1
        BY <1>2, <2>1, <2>2 DEF Counts, Placed
    <2>4. FirstBlank(load[c], s.read) => Passed(load[c], s, far[c])
        <3>1. SubSeq(Heard(load[c]), s.read + 1, s.read) = <<>>
            BY <1>0, <2>1, SubSeqEmpty
        <3>2. s.read \in 1 .. s.read /\ s.read + 0 = s.read
            BY <1>0, <2>1, <2>3
        <3>3. QED BY <2>3, <3>1, <3>2 DEF Passed
    <2>5. Placed(load[c], s, far[c])
        BY <1>2, <2>1, <2>2, <2>3, <2>4 DEF Placed, Exhausted
    <2>6. Counts(load[c], s, far[c])
        BY <1>2, <2>1, <2>2, <2>3 DEF Counts
    <2>7. QED BY <1>0, <1>1, <1>2, <2>2, <2>5, <2>6, ThreadHonest
<1>6. CASE ConfirmFails(c) \/ SpliceEnds(c)
    <2> DEFINE s == [serving[c] EXCEPT !.at = "recording", !.out = "off", !.back = "off"]
               f == [far[c] EXCEPT !.state = "closed"]
    <2>1. /\ s.at = "recording" /\ s.read = serving[c].read /\ s.allowed = serving[c].allowed
          /\ s.cut = serving[c].cut
          /\ s.out = "off" /\ s.sent = serving[c].sent /\ s.received = serving[c].received
        BY <1>0 DEF ServingState
    <2>2. f.got = far[c].got /\ f.eof = far[c].eof /\ f.replied = far[c].replied
        BY <1>0 DEF FarState
    <2>3. /\ serving' = [serving EXCEPT ![c] = s] /\ far' = [far EXCEPT ![c] = f]
          /\ serving[c].at \in {"confirming", "splicing"}
        BY <1>6 DEF ConfirmFails, SpliceEnds, HangsUp
    <2> HIDE DEF s, f
    <2>4. Passed(load[c], serving[c], far[c]) => Passed(load[c], s, f)
        BY <2>1, <2>2 DEF Passed
    <2>5. Placed(load[c], s, f)
        BY <1>2, <2>1, <2>2, <2>3, <2>4 DEF Placed, Counts
    <2>6. Counts(load[c], s, f)
        BY <1>2, <2>1, <2>2, <2>3 DEF Counts
    <2>7. QED BY <1>1, <1>2, <2>3, <2>5, <2>6, ThreadHonest
<1>7. QED BY <1>3, <1>4, <1>5, <1>6

\* The copies: a token that is written is the next one of the stream.
LEMMA OutHonest ==
    ASSUME TypeInv, AllHonest, NEW c \in Conns, OutCopies(c) \/ OutEnds(c)
    PROVE  AllHonest'
<1>0. /\ serving[c] \in ServingState /\ far[c] \in FarState
      /\ serving[c].read \in Nat /\ serving[c].read <= load[c].wrote /\ load[c].wrote \in Nat
      /\ far[c].got \in Seq(Tokens) /\ Len(far[c].got) \in Nat /\ serving[c].sent \in Nat
      /\ load[c].wrote > 0 => Heard(load[c]) \in Seq(Tokens) /\ load[c].wrote <= Len(Heard(load[c]))
      /\ Honest(load[c], serving[c], far[c])
    BY OfHonest
<1>1. load' = load /\ serving[c].at = "splicing" /\ serving[c].out = "copying"
    BY DEF OutCopies, OutEnds
<1>2. /\ Placed(load[c], serving[c], far[c]) /\ Counts(load[c], serving[c], far[c])
      /\ serving[c].at \in Working
    BY <1>0, <1>1 DEF Honest, Working
<1>3. Len(far[c].got) = serving[c].sent /\ ~ far[c].eof
    BY <1>1, <1>2 DEF Counts
<1>4. CASE OutEnds(c)
    <2> DEFINE s == [serving[c] EXCEPT !.out = "ended"]
               f == [far[c] EXCEPT !.eof = TRUE]
    <2>1. /\ s.at = serving[c].at /\ s.read = serving[c].read /\ s.allowed = serving[c].allowed
          /\ s.cut = serving[c].cut
          /\ s.out = "ended" /\ s.sent = serving[c].sent /\ s.received = serving[c].received
        BY <1>0 DEF ServingState
    <2>2. f.got = far[c].got /\ f.state = far[c].state /\ f.replied = far[c].replied
        BY <1>0 DEF FarState
    <2>3. serving' = [serving EXCEPT ![c] = s] /\ far' = [far EXCEPT ![c] = f]
        BY <1>4 DEF OutEnds
    <2> HIDE DEF s, f
    <2>4. Passed(load[c], serving[c], far[c]) => Passed(load[c], s, f)
        BY <2>1, <2>2 DEF Passed
    <2>5. Placed(load[c], s, f)
        BY <1>1, <1>2, <2>1, <2>2, <2>4 DEF Placed, Exhausted
    <2>6. Counts(load[c], s, f)
        BY <1>1, <1>2, <1>3, <2>1, <2>2 DEF Counts
    <2>7. QED BY <1>1, <1>2, <2>3, <2>5, <2>6, ThreadHonest
<1> DEFINE token == Heard(load[c])[serving[c].read + 1]
<1>5. ASSUME Pending(c)
      PROVE  /\ Heard(load[c]) \in Seq(Tokens) /\ serving[c].read + 1 \in 1 .. Len(Heard(load[c]))
             /\ ~ Exhausted(load[c], serving[c])
             /\ token \in Tokens /\ NextToken(c) = token
    <2>1. /\ Heard(load[c]) \in Seq(Tokens) /\ serving[c].read + 1 \in 1 .. Len(Heard(load[c]))
          /\ ~ Exhausted(load[c], serving[c])
        BY <1>0, <1>5 DEF Pending, Exhausted
    <2>2. NextToken(c) = token
        BY DEF NextToken, Stream, Heard
    <2>3. QED BY <2>1, <2>2
    \* What is passed stays exact with the next token and without it.
<1>6. ASSUME Pending(c), NEW s, NEW f, s.read = serving[c].read + 1, ~ serving[c].cut,
             \/ f.got = Append(far[c].got, token)
             \/ f.got = far[c].got /\ s.out = "ended"
      PROVE  Passed(load[c], s, f)
    <2>1. Passed(load[c], serving[c], far[c])
        BY <1>1, <1>2, <1>5, <1>6 DEF Placed
    <2>2. PICK i \in 1 .. serving[c].read :
              /\ FirstBlank(load[c], i) /\ i + Len(far[c].got) = serving[c].read
              /\ far[c].got = SubSeq(Heard(load[c]), i + 1, i + Len(far[c].got))
        BY <1>1, <2>1 DEF Passed
    <2>3. i \in 1 .. s.read /\ i \in Nat
        BY <1>0, <1>6
    <2>4. CASE f.got = Append(far[c].got, token)
        <3>1. Len(f.got) = Len(far[c].got) + 1 /\ i + Len(f.got) = s.read
            BY <1>0, <1>5, <1>6, <2>2, <2>4
        <3>2. /\ i + 1 \in 1 .. Len(Heard(load[c])) /\ i + Len(f.got) \in i + 1 .. Len(Heard(load[c]))
              /\ (i + Len(f.got)) - 1 = i + Len(far[c].got) /\ i + Len(f.got) = serving[c].read + 1
            BY <1>0, <1>5, <1>6, <2>2, <3>1
        <3>3. SubSeq(Heard(load[c]), i + 1, i + Len(f.got))
                = SubSeq(Heard(load[c]), i + 1, (i + Len(f.got)) - 1) \o <<Heard(load[c])[i + Len(f.got)]>>
            <4>1. \A q \in Seq(Tokens) : \A m \in 1 .. Len(q) : \A n \in m .. Len(q) :
                      SubSeq(q, m, n) = SubSeq(q, m, n - 1) \o <<q[n]>>
                BY SubSeqRecursiveSecond
            <4>2. \A m \in 1 .. Len(Heard(load[c])) : \A n \in m .. Len(Heard(load[c])) :
                      SubSeq(Heard(load[c]), m, n)
                        = SubSeq(Heard(load[c]), m, n - 1) \o <<Heard(load[c])[n]>>
                BY <1>5, <1>6, <4>1
            <4>3. \A n \in i + 1 .. Len(Heard(load[c])) :
                      SubSeq(Heard(load[c]), i + 1, n)
                        = SubSeq(Heard(load[c]), i + 1, n - 1) \o <<Heard(load[c])[n]>>
                BY <3>2, <4>2, Zenon
            <4>4. QED BY <3>2, <4>3, Zenon
        <3>4. SubSeq(Heard(load[c]), i + 1, i + Len(f.got)) = far[c].got \o <<token>>
            BY <2>2, <3>2, <3>3
        <3>5. f.got = far[c].got \o <<token>>
            BY <1>0, <1>5, <1>6, <2>4, AppendIsConcat
        <3>6. i + Len(f.got) <= s.read
            BY <1>0, <1>6, <3>1
        <3>7. QED BY <2>2, <2>3, <3>1, <3>4, <3>5, <3>6 DEF Passed
    <2>5. CASE f.got = far[c].got /\ s.out = "ended"
        <3>1. i + Len(f.got) <= s.read
            BY <1>0, <1>6, <2>2, <2>5
        <3>2. QED BY <2>2, <2>3, <2>5, <3>1 DEF Passed
    <2>6. QED BY <1>6, <2>4, <2>5
<1>7. CASE /\ OutCopies(c)
           /\ serving' = [serving EXCEPT ![c].read = @ + 1, ![c].sent = @ + 1]
           /\ far' = [far EXCEPT ![c].got = Append(@, NextToken(c))]
    <2> DEFINE s == [serving[c] EXCEPT !.read = @ + 1, !.sent = @ + 1]
               f == [far[c] EXCEPT !.got = Append(@, token)]
    <2>0. Pending(c) /\ NextToken(c) = token
        BY <1>5, <1>7 DEF OutCopies
    <2>1. /\ s.at = serving[c].at /\ s.read = serving[c].read + 1 /\ s.allowed = serving[c].allowed
          /\ s.cut = serving[c].cut
          /\ s.out = serving[c].out /\ s.sent = serving[c].sent + 1 /\ s.received = serving[c].received
        BY <1>0 DEF ServingState
    <2>2. /\ f.got = Append(far[c].got, token) /\ f.state = far[c].state /\ f.replied = far[c].replied
          /\ f.eof = far[c].eof
        BY <1>0 DEF FarState
    <2>3. serving' = [serving EXCEPT ![c] = s] /\ far' = [far EXCEPT ![c] = f]
        BY <1>7, <2>0
    <2> HIDE DEF s, f
    <2>4. ~ s.cut => Passed(load[c], s, f)
        BY <1>6, <2>0, <2>1, <2>2
    <2>5. Placed(load[c], s, f)
        <3>1. s.read >= 1
            BY <1>0, <2>1
        <3>2. QED BY <1>1, <2>1, <2>4, <3>1 DEF Placed
    <2>6. Counts(load[c], s, f)
        <3>1. Len(f.got) = s.sent
            BY <1>0, <1>3, <1>5, <2>0, <2>1, <2>2
        <3>2. Len(f.got) - s.sent \in {0, 1}
            BY <1>0, <2>1, <3>1
        <3>3. QED BY <1>1, <1>2, <1>3, <2>1, <2>2, <3>1, <3>2 DEF Counts
    <2>7. QED BY <1>1, <1>2, <2>3, <2>5, <2>6, ThreadHonest
<1>8. CASE /\ OutCopies(c)
           /\ serving' = [serving EXCEPT ![c].read = @ + 1, ![c].out = "ended"]
           /\ \E left \in {<<>>, <<NextToken(c)>>} : far' = [far EXCEPT ![c].got = @ \o left]
    <2>0. Pending(c) /\ NextToken(c) = token
        BY <1>5, <1>8 DEF OutCopies
    <2>01. PICK left \in {<<>>, <<token>>} : far' = [far EXCEPT ![c].got = @ \o left]
        BY <1>8, <2>0
    <2> DEFINE s == [serving[c] EXCEPT !.read = @ + 1, !.out = "ended"]
               f == [far[c] EXCEPT !.got = @ \o left]
    <2>1. /\ s.at = serving[c].at /\ s.read = serving[c].read + 1 /\ s.allowed = serving[c].allowed
          /\ s.cut = serving[c].cut
          /\ s.out = "ended" /\ s.sent = serving[c].sent /\ s.received = serving[c].received
        BY <1>0 DEF ServingState
    <2>2. /\ f.got = far[c].got \o left /\ f.state = far[c].state /\ f.replied = far[c].replied
          /\ f.eof = far[c].eof
        BY <1>0 DEF FarState
    <2>3. serving' = [serving EXCEPT ![c] = s] /\ far' = [far EXCEPT ![c] = f]
        BY <1>8, <2>01
    <2> HIDE DEF s, f
    <2>4. f.got = far[c].got \/ f.got = Append(far[c].got, token)
        <3>1. token \in Tokens /\ far[c].got \in Seq(Tokens)
            BY <1>0, <1>5, <2>0
        <3> HIDE DEF token
        <3>2. CASE left = <<>>
            BY <2>2, <3>1, <3>2, ConcatEmptySeq
        <3>3. CASE left = <<token>>
            BY <2>2, <3>1, <3>3, AppendIsConcat
        <3>4. QED BY <2>01, <3>2, <3>3
    <2>5. ~ s.cut => Passed(load[c], s, f)
        BY <1>6, <2>0, <2>1, <2>4
    <2>6. Placed(load[c], s, f)
        <3>1. s.read >= 1
            BY <1>0, <2>1
        <3>2. QED BY <1>1, <2>1, <2>5, <3>1 DEF Placed
    <2>7. Counts(load[c], s, f)
        <3>1. Len(f.got) - s.sent \in {0, 1}
            BY <1>0, <1>3, <1>5, <2>0, <2>1, <2>4
        <3>2. QED BY <1>1, <1>2, <1>3, <2>1, <2>2, <3>1 DEF Counts
    <2>8. QED BY <1>1, <1>2, <2>3, <2>6, <2>7, ThreadHonest
<1>9. QED BY <1>4, <1>7, <1>8 DEF OutCopies

\* What comes back is counted when it is written.
LEMMA BackHonest ==
    ASSUME TypeInv, AllHonest, NEW c \in Conns, BackCopies(c) \/ BackEnds(c)
    PROVE  AllHonest'
<1>0. /\ far = [far EXCEPT ![c] = far[c]] /\ serving[c] \in ServingState
      /\ serving[c].received \in Nat /\ far[c].replied \in Nat
      /\ Honest(load[c], serving[c], far[c])
    BY OfHonest
<1>1. load' = load /\ far' = far /\ serving[c].at = "splicing"
    BY DEF BackCopies, BackEnds, Rest
<1>2. /\ Placed(load[c], serving[c], far[c]) /\ Counts(load[c], serving[c], far[c])
      /\ serving[c].at \in Working
    BY <1>0, <1>1 DEF Honest, Working
<1>3. PICK s : /\ serving' = [serving EXCEPT ![c] = s]
               /\ s.at = serving[c].at /\ s.read = serving[c].read /\ s.allowed = serving[c].allowed
               /\ s.cut = serving[c].cut /\ s.out = serving[c].out /\ s.sent = serving[c].sent
               /\ s.received <= far[c].replied
    <2>1. CASE serving' = [serving EXCEPT ![c].back = "ended"]
        <3> DEFINE s == [serving[c] EXCEPT !.back = "ended"]
        <3>1. /\ s.at = serving[c].at /\ s.read = serving[c].read /\ s.allowed = serving[c].allowed
              /\ s.cut = serving[c].cut /\ s.out = serving[c].out /\ s.sent = serving[c].sent
              /\ s.received = serving[c].received
            BY <1>0 DEF ServingState
        <3>2. serving' = [serving EXCEPT ![c] = s]
            BY <2>1
        <3> HIDE DEF s
        <3>3. s.received <= far[c].replied
            BY <1>2, <3>1 DEF Counts
        <3>4. QED BY <3>1, <3>2, <3>3
    <2>2. CASE serving' = [serving EXCEPT ![c].received = @ + 1] /\ far[c].replied > serving[c].received
        <3> DEFINE s == [serving[c] EXCEPT !.received = @ + 1]
        <3>1. /\ s.at = serving[c].at /\ s.read = serving[c].read /\ s.allowed = serving[c].allowed
              /\ s.cut = serving[c].cut /\ s.out = serving[c].out /\ s.sent = serving[c].sent
              /\ s.received = serving[c].received + 1
            BY <1>0 DEF ServingState
        <3>2. serving' = [serving EXCEPT ![c] = s]
            BY <2>2
        <3> HIDE DEF s
        <3>3. s.received <= far[c].replied
            BY <1>0, <2>2, <3>1
        <3>4. QED BY <3>1, <3>2, <3>3
    <2>3. QED BY <2>1, <2>2 DEF BackCopies, BackEnds
<1>4. Passed(load[c], serving[c], far[c]) => Passed(load[c], s, far[c])
    BY <1>3 DEF Passed
<1>5. Placed(load[c], s, far[c])
    BY <1>2, <1>3, <1>4 DEF Placed, Exhausted
<1>6. Counts(load[c], s, far[c])
    BY <1>1, <1>2, <1>3 DEF Counts
<1>7. QED BY <1>0, <1>1, <1>2, <1>3, <1>5, <1>6, ThreadHonest

\* A thread that is not at work has nothing to answer for; a new one has not done anything.
LEMMA IdleHonest ==
    ASSUME NEW l, NEW at \in {"shut", "reset", "done"}
    PROVE  Honest(l, [Unserved EXCEPT !.at = at], NoFar)
<1>1. [Unserved EXCEPT !.at = at].at = at
    BY DEF Unserved
<1>2. QED BY <1>1 DEF Honest, Working

\* A thread that has written its record is not at work any more.
LEMMA RecordsHonest ==
    ASSUME TypeInv, AllHonest, NEW c \in Conns, Records(c)
    PROVE  AllHonest'
<1>1. Turns(c, Gone, [Unserved EXCEPT !.at = "done"], NoFar)
    BY DEF Records, Turns
<1>2. Honest(Gone, [Unserved EXCEPT !.at = "done"], NoFar)
    BY IdleHonest
<1>3. QED BY <1>1, <1>2, HonestThere

\* The accepting thread starts threads that have done nothing yet.
LEMMA WorkerHonest ==
    ASSUME TypeInv, Waiting, AllHonest, Worker
    PROVE  AllHonest'
<1>0. /\ load \in [Conns -> LoadState] /\ serving \in [Conns -> ServingState]
      /\ far \in [Conns -> FarState] /\ backlog \in Seq(Conns)
    BY DEF TypeInv, TypeOK
<1>1. CASE Checks \/ FindsNobody \/ AcceptFails
    BY <1>1 DEF Checks, FindsNobody, AcceptFails, AllHonest
<1>2. CASE Accepts
    <2> DEFINE c == Head(backlog)
               s == [Unserved EXCEPT !.at = IF Full THEN "shut" ELSE "line"]
               l == IF Full THEN Gone ELSE load[c]
    <2>1. c \in Conns /\ 1 \in DOMAIN backlog /\ c = backlog[1]
        BY <1>0, <1>2 DEF Accepts
    <2>2. load[c].end # "away" /\ serving[c].at = "none"
        BY <2>1 DEF Waiting
    <2>3. far[c] = NoFar
        BY <2>1, <2>2 DEF TypeInv, TypeOK
    <2>4. Turns(c, l, s, far[c])
        <3>1. far' = [far EXCEPT ![c] = far[c]]
            BY <1>0, <1>2 DEF Accepts
        <3>2. load' = [load EXCEPT ![c] = l]
            BY <1>2 DEF Accepts
        <3>3. serving' = [serving EXCEPT ![c] = s]
            BY <1>2 DEF Accepts
        <3> HIDE DEF c, s, l
        <3>4. QED BY <3>1, <3>2, <3>3 DEF Turns
    <2>5. CASE Full
        <3>1. s.at = "shut"
            BY <2>5 DEF Unserved
        <3> HIDE DEF c, s, l
        <3>2. Honest(l, s, far[c])
            BY <3>1 DEF Honest, Working
        <3>3. QED BY <2>1, <2>4, <3>2, HonestThere
    <2>6. CASE ~ Full
        <3>1. /\ s.at = "line" /\ s.allowed = FALSE /\ s.out = "off" /\ s.sent = 0 /\ s.received = 0
              /\ l = load[c]
            BY <2>6 DEF Unserved
        <3>2. far[c].got = <<>> /\ far[c].state = "none" /\ far[c].eof = FALSE /\ far[c].replied = 0 /\ Len(far[c].got) = 0
            BY <2>3 DEF NoFar
        <3> HIDE DEF c, s, l
        <3>3. Placed(l, s, far[c])
            BY <3>1 DEF Placed
        <3>4. Counts(l, s, far[c])
            BY <3>1, <3>2 DEF Counts
        <3>5. Honest(l, s, far[c])
            BY <2>2, <3>1, <3>3, <3>4 DEF Honest
        <3>6. QED BY <2>1, <2>4, <3>5, HonestThere
    <2>7. QED BY <2>5, <2>6
<1>3. CASE Joins
    <2>1. ASSUME NEW d \in Conns
          PROVE  Honest(load'[d], serving'[d], far'[d])
        <3>1. CASE d \in Held
            <4>1. serving'[d] = [Unserved EXCEPT !.at = "reset"]
                BY <1>3, <3>1 DEF Joins
            <4>2. [Unserved EXCEPT !.at = "reset"].at = "reset"
                BY DEF Unserved
            <4>3. serving'[d].at \notin Working
                BY <4>1, <4>2 DEF Working
            <4>4. QED BY <4>3 DEF Honest
        <3>2. CASE d \notin Held
            <4>1. load'[d] = load[d] /\ serving'[d] = serving[d] /\ far'[d] = far[d]
                BY <1>3, <3>2 DEF Joins
            <4>2. QED BY <4>1 DEF AllHonest
        <3>3. QED BY <3>1, <3>2
    <2>2. QED BY <2>1 DEF AllHonest
<1>4. QED BY <1>1, <1>2, <1>3 DEF Worker

\* Every step keeps every connection honest.
LEMMA HonestStep ==
    ASSUME TypeInv, Waiting, AllHonest, [Next]_vars
    PROVE  AllHonest'
<1>1. ASSUME NEW c \in Conns, Connects(c) \/ Writes(c) \/ HalfCloses(c) \/ Closes(c)
      PROVE  AllHonest'
    BY <1>1, LoadHonest
<1>2. ASSUME NEW c \in Conns, FarReplies(c) \/ FarCloses(c)
      PROVE  AllHonest'
    BY <1>2, FarHonest
<1>3. ASSUME NEW c \in Conns, Copies(c)
      PROVE  AllHonest'
    BY <1>3, OutHonest, BackHonest DEF Copies
<1>4. ASSUME NEW c \in Conns, Handles(c)
      PROVE  AllHonest'
    BY <1>4, ListensHonest, DecidesHonest, DialsHonest, RecordsHonest DEF Handles
<1>5. CASE Worker
    BY <1>5, WorkerHonest
<1>6. CASE FinishBegins \/ FinishReturns \/ Drops
    BY <1>6 DEF FinishBegins, FinishReturns, Drops, AllHonest
<1>7. CASE UNCHANGED vars
    BY <1>7 DEF vars, AllHonest
<1>8. QED BY <1>1, <1>2, <1>3, <1>4, <1>5, <1>6, <1>7 DEF Next

\* Nobody has done anything at the start.
LEMMA HonestInit == Init => AllHonest
BY DEF Init, AllHonest, Honest, Unserved, Working

\* Whatever the timing of the load, the proxy and the destinations, unless the headers were
\* cut short a destination is handed exactly what follows the first empty line.
THEOREM ExactPayload == Spec => []PayloadIsExact
<1>1. TypeInv /\ Waiting /\ AllHonest /\ [Next]_vars => (TypeInv /\ Waiting /\ AllHonest)'
    BY TypeStep, WaitingStep, HonestStep
<1>2. TypeInv /\ AllHonest => PayloadIsExact
    <2> SUFFICES ASSUME TypeInv, AllHonest, NEW c \in Conns, far[c].got # <<>>, ~ serving[c].cut
                 PROVE  \E i \in Blanks(load[c]) : /\ \A j \in Blanks(load[c]) : i <= j
                                                   /\ far[c].got = SubSeq(Heard(load[c]), i + 1, i + Len(far[c].got))
        BY DEF PayloadIsExact, Blanks, Heard, Stream
    <2>1. serving[c].at \notin {"none", "shut", "reset", "done"}
        BY DEF TypeInv, TypeOK, NoFar
    <2>2. serving[c].at \in Working /\ Honest(load[c], serving[c], far[c])
        <3>1. serving[c].at \in Stages /\ Honest(load[c], serving[c], far[c])
            BY OfHonest DEF ServingState
        <3>2. QED BY <2>1, <3>1 DEF Stages, Working
    <2>3. serving[c].at \in {"splicing", "recording"}
        BY <2>2 DEF Honest, Counts, Working
    <2>4. Passed(load[c], serving[c], far[c])
        BY <2>2, <2>3 DEF Honest, Placed
    <2>5. QED BY <2>4 DEF Passed, FirstBlank
<1>3. QED BY TypeInit, HonestInit, <1>1, <1>2, PTL DEF Spec

\* Only the thread of a connection writes its record, and what it writes is what it counted.
THEOREM TrueRecords == Spec => RecordsAreTrue
<1>1. TypeInv /\ Waiting /\ AllHonest /\ [Next]_vars => (TypeInv /\ Waiting /\ AllHonest)'
    BY TypeStep, WaitingStep, HonestStep
<1> DEFINE True(c) == log' # log /\ log'[Len(log')].conn = c =>
                LET record == log'[Len(log')]
                IN  /\ far[c].state # "none" => record.allowed
                    /\ record.allowed => load[c].asks.host \in Hosts /\ load[c].asks.port # 0
                    /\ far[c].eof => record.sent = Len(far[c].got)
                    /\ Len(far[c].got) - record.sent \in {0, 1}
                    /\ record.received <= far[c].replied
<1>2. ASSUME TypeInv, AllHonest, [Next]_vars, NEW c \in Conns, log' # log, log'[Len(log')].conn = c
      PROVE  True(c)
    <2>1. PICK d \in Conns : Records(d)
        <3>1. ASSUME NEW d \in Conns, Copies(d) \/ Handles(d)
              PROVE  Records(d)
            BY <1>2, <3>1 DEF Copies, Handles, OutCopies, OutEnds, BackCopies, BackEnds, RefusesLine, ReadsLine,
                SkipsHeader, EndsHeaders, CutsHeaders, DialFails, Dials, ConfirmFails, Confirms, SpliceEnds, Rest
        <3>2. QED BY <1>2, <3>1
            DEF Next, Worker, Checks, FindsNobody, Accepts, AcceptFails, Joins, Connects, Writes, HalfCloses, Closes,
                FarReplies, FarCloses, FinishBegins, FinishReturns, Drops, vars
    <2> DEFINE record == [conn |-> d, allowed |-> serving[d].allowed,
                          sent |-> serving[d].sent, received |-> serving[d].received]
    <2>2. log' = Append(log, record) /\ serving[d].at \in Working
        BY <2>1 DEF Records, Working
    <2>3. log \in Seq(ConnectionRecord) /\ record \in ConnectionRecord
        <3>1. serving[d] \in ServingState
            BY OfHonest, <1>2
        <3>2. QED BY <1>2, <3>1 DEF TypeInv, TypeOK, ConnectionRecord, ServingState
    <2>4. log'[Len(log')] = record /\ record.conn = d
        BY <2>2, <2>3
    <2>5. d = c
        BY <1>2, <2>4
    <2>6. Counts(load[c], serving[c], far[c])
        BY <1>2, <2>2, <2>5 DEF AllHonest, Honest
    <2>7. QED BY <2>4, <2>5, <2>6 DEF Counts, Permits
<1>3. TypeInv /\ AllHonest /\ [Next]_vars => \A c \in Conns : True(c)
    BY <1>2
<1>4. TypeInv /\ AllHonest /\ [Next]_vars => [\A c \in Conns : True(c)]_vars
    BY <1>3
<1>5. QED BY TypeInit, HonestInit, <1>1, <1>4, PTL DEF Spec, RecordsAreTrue

================================================================================
