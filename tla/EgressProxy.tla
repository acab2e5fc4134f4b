------------------------------ MODULE EgressProxy ------------------------------
(***************************************************************************)
(* The filtered way out of a sandbox (crates/sandbox-core/src/egress.rs).   *)
(* The load has no network; it connects to a Unix socket, writes a CONNECT  *)
(* line, headers, an empty line and then its data.  The proxy runs outside: *)
(* one thread accepts, one thread per connection decides and splices, and   *)
(* the supervisor that started the proxy ends it with `finish`, or drops it *)
(* when the execution failed.                                               *)
(*                                                                          *)
(* A line or a chunk of data is one token of a connection's stream.         *)
(***************************************************************************)
EXTENDS Naturals, Sequences, FiniteSets

CONSTANTS Conns,        \* connections the load may open
          Hosts,        \* the allowlist, as Allowlist::new keeps it
          Requests,     \* what a connection may carry: [form, host, port, rest]
          NoRequest,
          Cap,          \* MAX_CONNECTIONS
          Buffer,       \* bound: tokens a connection holds that nobody has read
          MaxReplies    \* bound: chunks a destination sends back

ASSUME EgressAssumption ==
    /\ Cap \in Nat
    /\ Buffer \in Nat \ {0}
    /\ MaxReplies \in Nat
    /\ \A r \in Requests : /\ r.form \in {"connect", "malformed"}
                           /\ r.rest \in Seq({"header", "blank", "data"})

VARIABLES load,      \* the load's end: where it stands, its request, the tokens it has written
          backlog,   \* connections the kernel holds for accept
          worker,    \* the accepting thread
          handles,   \* its list of join handles
          serving,   \* the thread of a connection: where it is and what it has counted
          far,       \* the connection with the destination
          log,       \* the shared list of ConnectionRecord
          sup        \* the owner of the Proxy

vars == <<load, backlog, worker, handles, serving, far, log, sup>>

Stages == {"none", "shut", "reset", "line", "headers", "dialling", "confirming", "splicing",
           "recording", "done"}

Away == [end |-> "away", wrote |-> 0, asks |-> NoRequest]

\* The connection is over, whichever end closed it.
Gone == [Away EXCEPT !.end = "gone"]

Unserved == [at |-> "none", read |-> 0, cut |-> FALSE, allowed |-> FALSE, out |-> "off",
             back |-> "off", sent |-> 0, received |-> 0]

NoFar == [state |-> "none", eof |-> FALSE, got |-> <<>>, replied |-> 0]

Init ==
    /\ load = [c \in Conns |-> Away]
    /\ backlog = <<>>
    /\ worker = "checking"
    /\ handles = {}
    /\ serving = [c \in Conns |-> Unserved]
    /\ far = [c \in Conns |-> NoFar]
    /\ log = <<>>
    /\ sup = "running"

\* A connection as the load writes it; `read` counts the tokens the proxy has taken.
Stream(c) == <<"line">> \o load[c].asks.rest

Pending(c) == load[c].wrote > serving[c].read

NextToken(c) == Stream(c)[serving[c].read + 1]

\* Nothing more will come.
Ended(c) == ~ Pending(c) /\ load[c].end # "open"

------------------------------------------------------------------------------
(* The load, and the destinations beyond the proxy *)

\* The load may run on for a moment after the supervisor has seen it end.
Connects(c) ==
    /\ load[c].end = "away" /\ sup \in {"running", "stopping"} /\ worker # "ended"
    /\ load' = [load EXCEPT ![c].end = "open"]
    /\ backlog' = Append(backlog, c)
    /\ UNCHANGED <<worker, handles, serving, far, log, sup>>

\* What a connection carries is chosen with its first line.  What the load writes before it
\* is accepted it may as well write afterwards.
Writes(c) ==
    /\ load[c].end = "open" /\ serving[c].at # "none"
    /\ load[c].wrote - serving[c].read < Buffer
    /\ \/ load[c].wrote = 0 /\ \E r \in Requests :
            load' = [load EXCEPT ![c].asks = r, ![c].wrote = 1]
       \/ /\ load[c].wrote > 0 /\ load[c].wrote <= Len(load[c].asks.rest)
          /\ load' = [load EXCEPT ![c].wrote = @ + 1]
    /\ UNCHANGED <<backlog, worker, handles, serving, far, log, sup>>

HalfCloses(c) ==
    /\ load[c].end = "open"
    /\ load' = [load EXCEPT ![c].end = "half"]
    /\ UNCHANGED <<backlog, worker, handles, serving, far, log, sup>>

Closes(c) ==
    /\ load[c].end \in {"open", "half"}
    /\ load' = [load EXCEPT ![c].end = "gone"]
    /\ UNCHANGED <<backlog, worker, handles, serving, far, log, sup>>

FarReplies(c) ==
    /\ far[c].state = "open" /\ far[c].replied < MaxReplies
    /\ far' = [far EXCEPT ![c].replied = @ + 1]
    /\ UNCHANGED <<load, backlog, worker, handles, serving, log, sup>>

FarCloses(c) ==
    /\ far[c].state = "open"
    /\ far' = [far EXCEPT ![c].state = "closed"]
    /\ UNCHANGED <<load, backlog, worker, handles, serving, log, sup>>

------------------------------------------------------------------------------
(* The accepting thread: Proxy::start *)

Stopped == sup # "running"

\* Mutant: the thread ends at once and leaves the connections to themselves.
ChecksAndLeaves ==
    /\ worker = "checking"
    /\ worker' = IF Stopped THEN "ended" ELSE "accepting"
    /\ UNCHANGED <<load, backlog, handles, serving, far, log, sup>>

Checks ==
    /\ worker = "checking"
    /\ worker' = IF Stopped THEN "joining" ELSE "accepting"
    /\ UNCHANGED <<load, backlog, handles, serving, far, log, sup>>

FindsNobody ==
    /\ worker = "accepting" /\ backlog = <<>>
    /\ worker' = "checking"
    /\ UNCHANGED <<load, backlog, handles, serving, far, log, sup>>

Unfinished == {c \in handles : serving[c].at # "done"}

\* Mutant: the limit is compared after the fact.
FullBeyond == Cardinality(Unfinished) > Cap

Full == Cardinality(Unfinished) >= Cap

Accepts ==
    /\ worker = "accepting" /\ backlog # <<>>
    /\ LET c == Head(backlog)
       IN  /\ handles' = IF Full THEN Unfinished ELSE Unfinished \cup {c}
           /\ serving' = [serving EXCEPT ![c] =
                  [Unserved EXCEPT !.at = IF Full THEN "shut" ELSE "line"]]
           /\ load' = [load EXCEPT ![c] = IF Full THEN Gone ELSE @]
    /\ backlog' = Tail(backlog)
    /\ worker' = "checking"
    /\ UNCHANGED <<far, log, sup>>

\* Any error other than WouldBlock, such as a process without descriptors.
AcceptFails ==
    /\ worker = "accepting"
    /\ worker' = "joining"
    /\ UNCHANGED <<load, backlog, handles, serving, far, log, sup>>

Held == {backlog[i] : i \in DOMAIN backlog}

\* The listener goes with the thread, and with it whoever was not accepted.
Joins ==
    /\ worker = "joining" /\ Unfinished = {}
    /\ worker' = "ended"
    /\ handles' = {}
    /\ backlog' = <<>>
    /\ load' = [c \in Conns |-> IF c \in Held THEN Gone ELSE load[c]]
    /\ serving' = [c \in Conns |-> IF c \in Held THEN [Unserved EXCEPT !.at = "reset"]
                                   ELSE serving[c]]
    /\ UNCHANGED <<far, log, sup>>

Worker == Checks \/ FindsNobody \/ Accepts \/ AcceptFails \/ Joins

------------------------------------------------------------------------------
(* The thread of a connection: serve *)

Permits(r) == r.form = "connect" /\ r.port # 0 /\ r.host \in Hosts

Rest == <<load, backlog, worker, handles, far, log, sup>>

\* The line is no CONNECT, is empty or does not come within HANDSHAKE_TIMEOUT; or, at
\* any time, the socket cannot be duplicated.
RefusesLine(c) ==
    /\ serving[c].at = "line"
    /\ serving' = [serving EXCEPT ![c].at = "recording"]
    /\ UNCHANGED Rest

ReadsLine(c) ==
    /\ serving[c].at = "line" /\ Pending(c) /\ load[c].asks.form = "connect"
    /\ serving' = [serving EXCEPT ![c].at = "headers", ![c].read = 1]
    /\ UNCHANGED Rest

SkipsHeader(c) ==
    /\ serving[c].at = "headers" /\ Pending(c) /\ NextToken(c) # "blank"
    /\ serving' = [serving EXCEPT ![c].read = @ + 1]
    /\ UNCHANGED Rest

Decided(c, read, cut) ==
    serving' = [serving EXCEPT ![c].at = IF Permits(load[c].asks) THEN "dialling" ELSE "recording",
                               ![c].allowed = Permits(load[c].asks),
                               ![c].read = read,
                               ![c].cut = cut]

\* Mutant: the empty line stays in the buffer.
LeavesBlank(c) ==
    /\ serving[c].at = "headers"
    /\ Ended(c) \/ (Pending(c) /\ NextToken(c) = "blank")
    /\ Decided(c, serving[c].read, FALSE)
    /\ UNCHANGED Rest

EndsHeaders(c) ==
    /\ serving[c].at = "headers"
    /\ \/ Pending(c) /\ NextToken(c) = "blank" /\ Decided(c, serving[c].read + 1, FALSE)
       \/ Ended(c) /\ Decided(c, serving[c].read, FALSE)
    /\ UNCHANGED Rest

\* A header that does not come in time, or is not UTF-8, ends the loop like the empty
\* line does.
CutsHeaders(c) ==
    /\ serving[c].at = "headers"
    /\ \/ ~ Pending(c) /\ load[c].end = "open" /\ Decided(c, serving[c].read, TRUE)
       \/ Pending(c) /\ NextToken(c) # "blank" /\ Decided(c, serving[c].read + 1, TRUE)
    /\ UNCHANGED Rest

DialFails(c) ==
    /\ serving[c].at = "dialling"
    /\ serving' = [serving EXCEPT ![c].at = "recording"]
    /\ UNCHANGED Rest

Dials(c) ==
    /\ serving[c].at = "dialling"
    /\ serving' = [serving EXCEPT ![c].at = "confirming"]
    /\ far' = [far EXCEPT ![c].state = "open"]
    /\ UNCHANGED <<load, backlog, worker, handles, log, sup>>

\* The stream to the destination is dropped with the function that holds it.
HangsUp(c) ==
    /\ serving' = [serving EXCEPT ![c].at = "recording", ![c].out = "off", ![c].back = "off"]
    /\ far' = [far EXCEPT ![c].state = "closed"]

\* ESTABLISHED cannot be written, or splice cannot duplicate the stream.
ConfirmFails(c) ==
    /\ serving[c].at = "confirming"
    /\ HangsUp(c)
    /\ UNCHANGED <<load, backlog, worker, handles, log, sup>>

Confirms(c) ==
    /\ serving[c].at = "confirming" /\ load[c].end # "gone"
    /\ serving' = [serving EXCEPT ![c].at = "splicing", ![c].out = "copying", ![c].back = "copying"]
    /\ UNCHANGED Rest

------------------------------------------------------------------------------
(* splice: one thread per direction *)

\* Mutant: what is read is counted before it is written.
OutCountsFirst(c) ==
    /\ serving[c].at = "splicing" /\ serving[c].out = "copying" /\ Pending(c)
    /\ \/ /\ far[c].state = "open"
          /\ serving' = [serving EXCEPT ![c].read = @ + 1, ![c].sent = @ + 1]
          /\ far' = [far EXCEPT ![c].got = Append(@, NextToken(c))]
       \/ /\ far[c].state = "closed"
          /\ serving' = [serving EXCEPT ![c].read = @ + 1, ![c].sent = @ + 1, ![c].out = "ended"]
          /\ UNCHANGED far
    /\ UNCHANGED <<load, backlog, worker, handles, log, sup>>

\* A write to a destination that has closed may still be accepted; when write_all fails,
\* part of the chunk may have left.
OutCopies(c) ==
    /\ serving[c].at = "splicing" /\ serving[c].out = "copying" /\ Pending(c)
    /\ \/ /\ serving' = [serving EXCEPT ![c].read = @ + 1, ![c].sent = @ + 1]
          /\ far' = [far EXCEPT ![c].got = Append(@, NextToken(c))]
       \/ /\ far[c].state = "closed"
          /\ serving' = [serving EXCEPT ![c].read = @ + 1, ![c].out = "ended"]
          /\ \E left \in {<<>>, <<NextToken(c)>>} : far' = [far EXCEPT ![c].got = @ \o left]
    /\ UNCHANGED <<load, backlog, worker, handles, log, sup>>

\* Mutant: the destination is never told that the load has finished.
OutEndsSilently(c) ==
    /\ serving[c].at = "splicing" /\ serving[c].out = "copying" /\ Ended(c)
    /\ serving' = [serving EXCEPT ![c].out = "ended"]
    /\ UNCHANGED Rest

OutEnds(c) ==
    /\ serving[c].at = "splicing" /\ serving[c].out = "copying" /\ Ended(c)
    /\ serving' = [serving EXCEPT ![c].out = "ended"]
    /\ far' = [far EXCEPT ![c].eof = TRUE]
    /\ UNCHANGED <<load, backlog, worker, handles, log, sup>>

BackCopies(c) ==
    /\ serving[c].at = "splicing" /\ serving[c].back = "copying" /\ far[c].replied > serving[c].received
    /\ serving' = IF load[c].end = "gone"
                  THEN [serving EXCEPT ![c].back = "ended"]
                  ELSE [serving EXCEPT ![c].received = @ + 1]
    /\ UNCHANGED Rest

BackEnds(c) ==
    /\ serving[c].at = "splicing" /\ serving[c].back = "copying"
    /\ far[c].state = "closed" /\ far[c].replied = serving[c].received
    /\ serving' = [serving EXCEPT ![c].back = "ended"]
    /\ UNCHANGED Rest

SpliceEnds(c) ==
    /\ serving[c].at = "splicing" /\ serving[c].out = "ended" /\ serving[c].back = "ended"
    /\ HangsUp(c)
    /\ UNCHANGED <<load, backlog, worker, handles, log, sup>>

\* Mutant: the stream to the destination outlives the thread.
RecordsAndStays(c) ==
    /\ serving[c].at = "recording"
    /\ serving' = [serving EXCEPT ![c] = [Unserved EXCEPT !.at = "done"]]
    /\ load' = [load EXCEPT ![c] = Gone]
    /\ log' = Append(log, [conn |-> c, allowed |-> serving[c].allowed,
                           sent |-> serving[c].sent, received |-> serving[c].received])
    /\ UNCHANGED <<backlog, worker, handles, far, sup>>

\* The record of serve is pushed by the thread's closure, its last step; the streams are
\* closed by then.
Records(c) ==
    /\ serving[c].at = "recording"
    /\ serving' = [serving EXCEPT ![c] = [Unserved EXCEPT !.at = "done"]]
    /\ load' = [load EXCEPT ![c] = Gone]
    /\ far' = [far EXCEPT ![c] = NoFar]
    /\ log' = Append(log, [conn |-> c, allowed |-> serving[c].allowed,
                           sent |-> serving[c].sent, received |-> serving[c].received])
    /\ UNCHANGED <<backlog, worker, handles, sup>>

Copies(c) == OutCopies(c) \/ OutEnds(c) \/ BackCopies(c) \/ BackEnds(c)

Handles(c) ==
    \/ RefusesLine(c) \/ ReadsLine(c) \/ SkipsHeader(c) \/ EndsHeaders(c) \/ CutsHeaders(c)
    \/ DialFails(c) \/ Dials(c) \/ ConfirmFails(c) \/ Confirms(c) \/ SpliceEnds(c) \/ Records(c)

------------------------------------------------------------------------------
(* The supervisor *)

\* finish, once the load has ended.
FinishBegins ==
    /\ sup = "running"
    /\ sup' = "stopping"
    /\ UNCHANGED <<load, backlog, worker, handles, serving, far, log>>

FinishReturns ==
    /\ sup = "stopping" /\ worker = "ended"
    /\ sup' = "finished"
    /\ UNCHANGED <<load, backlog, worker, handles, serving, far, log>>

\* run has failed: Drop stops the thread and waits for nobody.
Drops ==
    /\ sup = "running"
    /\ sup' = "dropped"
    /\ UNCHANGED <<load, backlog, worker, handles, serving, far, log>>

Next ==
    \/ \E c \in Conns : \/ Connects(c) \/ Writes(c) \/ HalfCloses(c) \/ Closes(c)
                        \/ FarReplies(c) \/ FarCloses(c) \/ Copies(c) \/ Handles(c)
    \/ Worker \/ FinishBegins \/ FinishReturns \/ Drops

\* The threads run.  Once the supervisor stops, the load's processes die with their
\* namespace, which closes their ends.  A destination that was told the end of the
\* input closes too: the code sets no timeout, so this is asked of the outside.
Fairness ==
    /\ WF_vars(Worker) /\ WF_vars(FinishReturns)
    /\ \A c \in Conns :
        /\ WF_vars(Handles(c))
        /\ WF_vars(OutCopies(c) \/ OutEnds(c))
        /\ WF_vars(BackCopies(c) \/ BackEnds(c))
        /\ WF_vars(sup # "running" /\ Closes(c))
        /\ WF_vars(far[c].eof /\ FarCloses(c))

Spec == Init /\ [][Next]_vars /\ Fairness

------------------------------------------------------------------------------
(* Properties *)

Tokens == {"line", "header", "blank", "data"}

LoadState == [end : {"away", "open", "half", "gone"}, wrote : Nat, asks : Requests \cup {NoRequest}]

ServingState == [at : Stages, read : Nat, cut : BOOLEAN, allowed : BOOLEAN,
                 out : {"off", "copying", "ended"}, back : {"off", "copying", "ended"},
                 sent : Nat, received : Nat]

FarState == [state : {"none", "open", "closed"}, eof : BOOLEAN, got : Seq(Tokens), replied : Nat]

ConnectionRecord == [conn : Conns, allowed : BOOLEAN, sent : Nat, received : Nat]

\* The types, and: only an accepted connection has a thread and a way to the outside.
TypeOK ==
    /\ load \in [Conns -> LoadState]
    /\ serving \in [Conns -> ServingState]
    /\ far \in [Conns -> FarState]
    /\ backlog \in Seq(Conns)
    /\ worker \in {"checking", "accepting", "joining", "ended"}
    /\ handles \subseteq Conns
    /\ log \in Seq(ConnectionRecord)
    /\ sup \in {"running", "stopping", "finished", "dropped"}
    /\ \A c \in Conns : serving[c].at \in {"none", "shut", "reset", "done"} => far[c] = NoFar

Accepted == {c \in Conns : serving[c].at \notin {"none", "shut", "reset"}}

Alive == {c \in Accepted : serving[c].at # "done"}

\* However connections come and go, no more than MAX_CONNECTIONS threads serve at once
\* (egress.rs:144-147), and none that the accepting thread does not know.
AtMostCap == Cardinality(Alive) <= Cap /\ Alive \subseteq handles

\* What finish returns is all that happened (egress.rs:213-214): every accepted connection
\* has ended and has exactly one record.
LogIsComplete ==
    sup = "finished" =>
        /\ Alive = {}
        /\ Len(log) = Cardinality(Accepted)
        /\ {log[i].conn : i \in DOMAIN log} = Accepted

\* A record tells what happened to its connection: whoever reached the outside is recorded
\* as allowed and was on the list, and the bytes are those that left: all of them when the
\* load was heard to its end, but for a last chunk when a write failed half way
\* (egress.rs:41-44, :308-310).
RecordsAreTrue ==
    [][\A c \in Conns : log' # log /\ log'[Len(log')].conn = c =>
        LET record == log'[Len(log')]
        IN  /\ far[c].state # "none" => record.allowed
            /\ record.allowed => load[c].asks.host \in Hosts /\ load[c].asks.port # 0
            /\ far[c].eof => record.sent = Len(far[c].got)
            /\ Len(far[c].got) - record.sent \in {0, 1}
            /\ record.received <= far[c].replied]_vars

\* A destination is handed the data the load sent after the empty line, in order and
\* with nothing before it, as long as the headers came in time (egress.rs:256-259).
PayloadIsExact ==
    \A c \in Conns :
        LET ends == {i \in DOMAIN Stream(c) : Stream(c)[i] = "blank"}
        IN  far[c].got # <<>> /\ ~ serving[c].cut =>
                \E i \in ends : /\ \A j \in ends : i <= j
                               /\ far[c].got = SubSeq(Stream(c), i + 1, i + Len(far[c].got))

\* What egress.rs:256-259 says, whatever the load's timing: the end of the CONNECT never
\* travels to the destination.
HeadersStay == \A c \in Conns : \A i \in DOMAIN far[c].got : far[c].got[i] = "data"

\* finish joins the thread, the thread its connections: once the load is dead and the
\* destinations end when their input does, the supervisor gets its log.
FinishEnds == (sup = "stopping") ~> (sup = "finished")

==============================================================================
