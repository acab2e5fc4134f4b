----------------------------- MODULE ServiceProofs -----------------------------
(***************************************************************************)
(* No `service` command goes after a process of somebody else, for any      *)
(* number of terminals, services and PIDs, however often these are reused.  *)
(*                                                                         *)
(* Commands and record files remember processes by PID and start mark.      *)
(* KnownTo says what such a memory is worth: the tenancy it names is not    *)
(* ahead of the process table, and if it is the present one the process is  *)
(* of the service it is remembered for.  A tenancy can only end (Follows),  *)
(* so that a memory, once true, stays true in files and in commands that    *)
(* sleep or wait for a `kill`, and what same_process finds is their own.     *)
(*                                                                         *)
(* With one command at work, down and down --all leave no record and no     *)
(* process behind, but for one that runs on a recorded number: Lowers and   *)
(* Sweeps say how far each place of a command has come with that.           *)
(***************************************************************************)
EXTENDS ServiceLifecycle, TLAPS

\* A process has a tenancy; the mark of a free number is of the last one.
Table ==
    /\ proc \in [Pids -> Entries]
    /\ \A p \in Pids : proc[p].state # "free" => proc[p].gen \in 1 .. MaxGen

\* What may become of the holder of a number: it stays, it dies, it ends, or another comes
\* when it is gone.
Follows(p) ==
    \/ /\ proc'[p].gen = proc[p].gen
       /\ proc'[p].state # "free" =>
            proc[p].state # "free" /\ proc'[p].role = proc[p].role /\ proc'[p].svc = proc[p].svc
       /\ proc'[p].state = "live" => proc[p].state = "live"
    \/ proc'[p].gen = proc[p].gen + 1

\* s is None for `down --all`, which is after all services.
KnownTo(id, s) ==
    /\ id.ticks <= proc[id.pid].gen
    /\ proc[id.pid].state # "free" /\ proc[id.pid].gen = id.ticks =>
          proc[id.pid].role # "stranger" /\ s \in {None, proc[id.pid].svc}

Names(r, s) == (r.pid # None => KnownTo(r.pid, s)) /\ (r.proxy # None => KnownTo(r.proxy, s))

\* Where a command is at no service.
Between == {"idle", "all", "sweeping", "sweep", "swept"}

Lowering ==
    {"term", "grace", "proxy", "proxyGrace", "scan", "asking", "stragglers", "forget", "unlink"}

\* The processes that command k has found, has still to signal, or is signalling.
Recalls(k) == k.found \cup k.due \cup ({k.sig.target} \ {None})

\* What command c remembers is of the service it is at.
Remembers(c) ==
    /\ Names(cli[c].rec, cli[c].svc)
    /\ \A id \in Recalls(cli[c]) : KnownTo(id, cli[c].svc)
    /\ At(c, "all") => cli[c].svc = None /\ cli[c].rec = NoRecord /\ Recalls(cli[c]) = {}
    /\ At(c, "forward") => cli[c].rec \in Records
    /\ cli[c].pc \notin Between => cli[c].svc \in Services

Inv ==
    /\ TypeOK /\ Table
    /\ \A s \in Services : Names(record[s], s)
    /\ \A c \in Clis : Remembers(c)

------------------------------------------------------------------------------
(* The process table *)

LEMMA BuriedTable ==
    ASSUME Table, NEW S, proc' = Buried(S)
    PROVE  Table' /\ \A p \in Pids : Follows(p)
<1>1. ASSUME NEW p \in Pids
      PROVE  /\ proc'[p] \in Entries
             /\ proc'[p].state # "free" => proc'[p].gen \in 1 .. MaxGen
             /\ Follows(p)
    <2>1. proc[p] \in Entries /\ (proc[p].state # "free" => proc[p].gen \in 1 .. MaxGen)
        BY DEF Table
    <2>2. \/ proc'[p] = proc[p]
          \/ proc'[p] = Vacant(proc[p].gen)
          \/ proc'[p] = [proc[p] EXCEPT !.state = "zombie", !.listens = None] /\ Live(p)
        BY DEF Buried, Casualties
    <2>3. CASE proc'[p] = proc[p]
        BY <2>1, <2>3 DEF Follows
    <2>4. CASE proc'[p] = Vacant(proc[p].gen)
        BY <2>1, <2>4 DEF Follows, Vacant, Entries
    <2>5. CASE proc'[p] = [proc[p] EXCEPT !.state = "zombie", !.listens = None] /\ Live(p)
        BY <2>1, <2>5 DEF Follows, Entries, Live
    <2>6. QED BY <2>2, <2>3, <2>4, <2>5
<1>2. proc' \in [Pids -> Entries]
    BY <1>1 DEF Buried
<1>3. QED BY <1>1, <1>2 DEF Table

LEMMA AdoptedTable ==
    ASSUME Table, NEW c \in Clis, proc' = Adopted(c)
    PROVE  Table' /\ \A p \in Pids : Follows(p)
<1>1. ASSUME NEW p \in Pids
      PROVE  /\ proc'[p] \in Entries
             /\ proc'[p].state # "free" => proc'[p].gen \in 1 .. MaxGen
             /\ Follows(p)
    <2>1. proc[p] \in Entries /\ (proc[p].state # "free" => proc[p].gen \in 1 .. MaxGen)
        BY DEF Table
    <2>2. \/ proc'[p] = proc[p]
          \/ proc'[p] = Vacant(proc[p].gen)
          \/ proc'[p] = [proc[p] EXCEPT !.parent = None]
        BY DEF Adopted
    <2>3. CASE proc'[p] = proc[p]
        BY <2>1, <2>3 DEF Follows
    <2>4. CASE proc'[p] = Vacant(proc[p].gen)
        BY <2>1, <2>4 DEF Follows, Vacant, Entries
    <2>5. CASE proc'[p] = [proc[p] EXCEPT !.parent = None]
        BY <2>1, <2>5 DEF Follows, Entries
    <2>6. QED BY <2>2, <2>3, <2>4, <2>5
<1>2. proc' \in [Pids -> Entries]
    BY <1>1 DEF Adopted
<1>3. QED BY <1>1, <1>2 DEF Table

\* A process that starts on a number nobody holds.
LEMMA FreshEntry ==
    ASSUME Table, NEW p \in Free, NEW role \in {"outer", "inner", "forwarder", "stranger"},
           NEW s \in Services \cup {None}, NEW mate \in Ids \cup {None}, NEW parent \in Clis \cup {None}
    PROVE  /\ p \in Pids
           /\ Fresh(p, role, s, mate, parent) \in Entries
           /\ Fresh(p, role, s, mate, parent).gen = proc[p].gen + 1
           /\ proc[p].gen + 1 \in 1 .. MaxGen
<1>1. p \in Pids /\ proc[p].gen < MaxGen /\ proc[p].gen \in 0 .. MaxGen
    BY DEF Free, Table, Entries
<1>2. MaxGen \in Nat
    BY ServiceAssumption
<1>3. proc[p].gen + 1 \in 1 .. MaxGen
    BY <1>1, <1>2
<1>4. QED BY <1>1, <1>2, <1>3 DEF Fresh, Entries

\* The sandbox that up spawns, and what up remembers of it.
LEMMA UpSpawnTable ==
    ASSUME TypeOK, Table, NEW c \in Clis, UpSpawn(c)
    PROVE  /\ Table' /\ \A p \in Pids : Follows(p)
           /\ \E r \in Records, s \in Services \cup {None}, pc \in {"forward", "record"} :
                /\ s = cli[c].svc /\ Names(r, s)'
                /\ cli' = [cli EXCEPT ![c].rec = r, ![c].pc = pc]
<1>1. cli \in [Clis -> Commands] /\ cli[c] \in Commands /\ proc \in [Pids -> Entries]
    BY DEF TypeOK
<1>2. PICK s \in Services \cup {None} : s = cli[c].svc
    BY <1>1 DEF Commands
<1>3. PICK p \in Free, q \in Free :
          LET outer == [pid |-> p, ticks |-> proc[p].gen + 1]
          IN  /\ p # q
              /\ proc' = [proc EXCEPT ![p] = Fresh(p, "outer", s, None, c),
                                      ![q] = Fresh(q, "inner", s, outer, None)]
              /\ cli' = [cli EXCEPT ![c].rec = [pid |-> outer, proxy |-> None],
                                    ![c].pc = IF NeedsProxy(s) THEN "forward" ELSE "record"]
    BY <1>2 DEF UpSpawn
<1>4. p \in Pids /\ proc[p].gen + 1 \in 1 .. MaxGen
    BY FreshEntry
<1>5. PICK outer \in Ids : outer = [pid |-> p, ticks |-> proc[p].gen + 1]
    BY <1>4 DEF Ids
<1>6. PICK first \in Entries :
          first = Fresh(p, "outer", s, None, c) /\ first.gen = proc[p].gen + 1
    BY FreshEntry
<1>7. PICK second \in Entries :
          second = Fresh(q, "inner", s, outer, None) /\ second.gen = proc[q].gen + 1
    BY FreshEntry
<1>8. first.role = "outer" /\ first.svc = s
    BY <1>6 DEF Fresh
<1>9. q \in Pids /\ proc[q].gen + 1 \in 1 .. MaxGen
    BY FreshEntry
<1>10. /\ proc' \in [Pids -> Entries]
       /\ proc'[p] = first /\ proc'[q] = second
       /\ \A k \in Pids \ {p, q} : proc'[k] = proc[k]
    BY <1>1, <1>3, <1>4, <1>5, <1>6, <1>7, <1>9
<1>11. Table'
    BY <1>4, <1>6, <1>7, <1>9, <1>10 DEF Table
<1>12. \A k \in Pids : Follows(k)
    BY <1>6, <1>7, <1>10 DEF Follows
<1>13. PICK r \in Records : r = [pid |-> outer, proxy |-> None]
    BY DEF Records
<1>14. \E pc \in {"forward", "record"} : cli' = [cli EXCEPT ![c].rec = r, ![c].pc = pc]
    BY <1>3, <1>5, <1>13
<1>15. KnownTo(outer, s)'
    <2>1. outer.pid = p /\ outer.ticks = first.gen /\ first.gen \in Nat
        BY <1>4, <1>5, <1>6
    <2>2. QED BY <1>8, <1>10, <2>1 DEF KnownTo
<1>16. Names(r, s)'
    BY <1>13, <1>15 DEF Names
<1>17. QED BY <1>2, <1>11, <1>12, <1>14, <1>16

\* The forwarder that up spawns, or a stranger.
LEMMA OneFresh ==
    ASSUME Table, NEW p \in Free, NEW role \in {"outer", "inner", "forwarder", "stranger"},
           NEW s \in Services \cup {None}, NEW parent \in Clis \cup {None},
           proc' = [proc EXCEPT ![p] = Fresh(p, role, s, None, parent)]
    PROVE  /\ Table' /\ \A k \in Pids : Follows(k)
           /\ \E id \in Ids : /\ id = [pid |-> p, ticks |-> proc[p].gen + 1]
                              /\ role # "stranger" => KnownTo(id, s)'
<1>1. p \in Pids /\ proc[p].gen + 1 \in 1 .. MaxGen
    BY FreshEntry
<1>2. PICK first \in Entries :
          first = Fresh(p, role, s, None, parent) /\ first.gen = proc[p].gen + 1
    <2>1. None \in Ids \cup {None}
        OBVIOUS
    <2>2. /\ Fresh(p, role, s, None, parent) \in Entries
          /\ Fresh(p, role, s, None, parent).gen = proc[p].gen + 1
        BY <2>1, FreshEntry
    <2>3. QED BY <2>2, Zenon
<1>3. first.role = role /\ first.svc = s
    BY <1>2 DEF Fresh
<1>4. proc' \in [Pids -> Entries] /\ proc'[p] = first /\ \A k \in Pids \ {p} : proc'[k] = proc[k]
    BY <1>1, <1>2 DEF Table
<1>5. Table'
    BY <1>1, <1>2, <1>4 DEF Table
<1>6. \A k \in Pids : Follows(k)
    BY <1>2, <1>4 DEF Follows
<1>7. PICK id \in Ids : id = [pid |-> p, ticks |-> proc[p].gen + 1]
    BY <1>1 DEF Ids
<1>8. role # "stranger" => KnownTo(id, s)'
    <2>1. id.pid = p /\ id.ticks = first.gen /\ first.gen \in Nat
        BY <1>1, <1>2, <1>7
    <2>2. QED BY <1>3, <1>4, <2>1 DEF KnownTo
<1>9. QED BY <1>5, <1>6, <1>7, <1>8

\* A process that begins to listen.
LEMMA ListensTable ==
    ASSUME Table, NEW p \in Pids, NEW where \in Services \cup {None, "socket"},
           proc' = [proc EXCEPT ![p].listens = where]
    PROVE  Table' /\ \A k \in Pids : Follows(k)
<1>1. ASSUME NEW k \in Pids
      PROVE  /\ proc'[k] \in Entries
             /\ proc'[k].state # "free" => proc'[k].gen \in 1 .. MaxGen
             /\ Follows(k)
    <2>1. proc[k] \in Entries /\ (proc[k].state # "free" => proc[k].gen \in 1 .. MaxGen)
        BY DEF Table
    <2>2. proc'[k] = proc[k] \/ proc'[k] = [proc[k] EXCEPT !.listens = where]
        BY <2>1 DEF Table
    <2>3. QED BY <2>1, <2>2 DEF Follows, Entries
<1>2. proc' \in [Pids -> Entries]
    BY <1>1 DEF Table
<1>3. QED BY <1>1, <1>2 DEF Table

LEMMA SameTable ==
    ASSUME Table, UNCHANGED proc
    PROVE  Table' /\ \A p \in Pids : Follows(p)
BY DEF Table, Follows

------------------------------------------------------------------------------
(* What is known stays known, and protects *)

LEMMA KnownStays ==
    ASSUME Table, Table', \A p \in Pids : Follows(p), NEW id \in Ids, NEW s, KnownTo(id, s)
    PROVE  KnownTo(id, s)'
<1>1. id.pid \in Pids /\ id.ticks \in Nat
    BY ServiceAssumption DEF Ids
<1>2. proc[id.pid] \in Entries /\ proc'[id.pid] \in Entries /\ Follows(id.pid)
    BY <1>1 DEF Table
<1>3. proc[id.pid].gen \in Nat /\ proc'[id.pid].gen \in Nat
    BY <1>2, ServiceAssumption DEF Entries
<1>4. QED BY <1>1, <1>2, <1>3 DEF KnownTo, Follows

LEMMA NamesStay ==
    ASSUME Table, Table', \A p \in Pids : Follows(p), NEW r \in Records \cup {NoRecord}, NEW s, Names(r, s)
    PROVE  Names(r, s)'
<1>1. r.pid \in Ids \cup {None} /\ r.proxy \in Ids \cup {None}
    BY DEF Records, NoRecord
<1>2. r.pid # None => KnownTo(r.pid, s)'
    BY <1>1, KnownStays DEF Names
<1>3. r.proxy # None => KnownTo(r.proxy, s)'
    BY <1>1, KnownStays DEF Names
<1>4. QED BY <1>2, <1>3 DEF Names

\* What same_process finds, on a memory that is worth something, is remembered already.
LEMMA TargetIs ==
    ASSUME Table, NEW id \in Ids \cup {None}, NEW name \in {"TERM", "KILL"}
    PROVE  IF SameProcess(id)
           THEN /\ id \in Ids /\ Signalling(id, name) = [target |-> id, name |-> name, left |-> 2]
                /\ Signalling(id, name) \in Signals
           ELSE Signalling(id, name) = NoSignal
<1>1. CASE SameProcess(id)
    <2>1. id \in Ids /\ proc[id.pid].gen = id.ticks
        BY <1>1 DEF SameProcess
    <2>2. Id(id.pid) = id
        BY <2>1 DEF Id, Ids
    <2>3. QED BY <1>1, <2>1, <2>2 DEF Signalling, Signals
<1>2. CASE ~ SameProcess(id)
    BY <1>2 DEF Signalling
<1>3. QED BY <1>1, <1>2

LEMMA NobodyAimedAt == NoSignal.target = None /\ NoSignal.left = 0 /\ NoSignal.name = "none"
BY DEF NoSignal

LEMMA AimedAt ==
    ASSUME Table, NEW id \in Ids \cup {None}, NEW name \in {"TERM", "KILL"}
    PROVE  \E sig \in Signals \cup {NoSignal} :
               sig = Signalling(id, name) /\ (sig.target # None => sig.target = id)
<1>1. PICK sig : sig = Signalling(id, name)
    OBVIOUS
<1>2. CASE SameProcess(id)
    <2>1. sig \in Signals /\ sig = [target |-> id, name |-> name, left |-> 2]
        BY <1>1, <1>2, TargetIs
    <2>2. sig.target = id
        BY <2>1
    <2>3. QED BY <1>1, <2>1, <2>2
<1>3. CASE ~ SameProcess(id)
    <2>1. sig = NoSignal
        BY <1>1, <1>3, TargetIs
    <2>2. sig.target = None
        BY <2>1, NobodyAimedAt
    <2>3. QED BY <1>1, <2>1, <2>2
<1>4. QED BY <1>2, <1>3

\* What a scan of /proc finds now is known for what it is.
LEMMA FoundIsKnown ==
    ASSUME Table, NEW P \in SUBSET Pids, NEW s,
           \A p \in P : Live(p) /\ proc[p].role # "stranger" /\ s \in {None, proc[p].svc}
    PROVE  \A id \in {Id(p) : p \in P} : id \in Ids /\ KnownTo(id, s)
<1>1. ASSUME NEW p \in P
      PROVE  Id(p) \in Ids /\ KnownTo(Id(p), s)
    <2>1. proc[p].gen \in 1 .. MaxGen
        BY DEF Table, Live
    <2>2. proc[p].gen \in Nat
        BY <2>1
    <2>3. Id(p).pid = p /\ Id(p).ticks = proc[p].gen /\ Id(p) \in Ids
        BY <2>1 DEF Id, Ids
    <2>4. QED BY <2>2, <2>3 DEF KnownTo
<1>2. QED BY <1>1

------------------------------------------------------------------------------
(* The steps of the table *)

LEMMA TableStep ==
    ASSUME TypeOK, Table, [Next]_vars
    PROVE  Table' /\ \A p \in Pids : Follows(p)
<1>1. CASE \E c \in Clis : proc' = Adopted(c)
    BY <1>1, AdoptedTable
<1>2. CASE \E S : proc' = Buried(S)
    BY <1>2, BuriedTable
<1>3. CASE UNCHANGED proc
    BY <1>3, SameTable
<1>4. ASSUME NEW c \in Clis, Up(c)
      PROVE  Table' /\ \A p \in Pids : Follows(p)
    <2>1. CASE UpSpawn(c)
        BY <2>1, UpSpawnTable
    <2>2. CASE UpForward(c)
        <3>1. cli[c].svc \in Services \cup {None}
            BY DEF TypeOK, Commands
        <3>2. QED BY <2>2, <3>1, OneFresh DEF UpForward
    <2>3. CASE ~ UpSpawn(c) /\ ~ UpForward(c)
        <3>1. proc' = Adopted(c) \/ UNCHANGED proc
            BY <1>4, <2>3 DEF Up, UpObserve, UpClean, UpBusy, UpUnlink, UpFails, UpRecord, UpReady, UpDied,
                              UpSleep, UpTimeout, Return
        <3>2. QED BY <1>1, <1>3, <3>1
    <2>4. QED BY <2>1, <2>2, <2>3
<1>5. ASSUME NEW c \in Clis, Down(c)
      PROVE  Table' /\ \A p \in Pids : Follows(p)
    <2>1. (\E S : proc' = Buried(S)) \/ proc' = Adopted(c) \/ UNCHANGED proc
        BY <1>5 DEF Down, DownRead, DownTerm, DownKill, DownProxyTerm, DownProxyKill, DownScan, SendsSignal,
                    Aims, Asks, Insists, Finds, DownForget, DownUnlink, AllNext, AllScan, AllDone, Finish, Return
    <2>2. QED BY <1>1, <1>2, <1>3, <2>1
<1>6. ASSUME NEW c \in Clis, Request(c) \/ CliDies(c)
      PROVE  Table' /\ \A p \in Pids : Follows(p)
    <2>1. proc' = Adopted(c) \/ UNCHANGED proc
        BY <1>6 DEF Request, Begin, CliDies, Return
    <2>2. QED BY <1>1, <1>3, <2>1
<1>7. ASSUME NEW p \in Pids, Die(p) \/ ServiceBinds(p) \/ ForwarderBinds(p) \/ StrangerStarts(p)
      PROVE  Table' /\ \A k \in Pids : Follows(k)
    <2>1. CASE Die(p)
        BY <1>2, <2>1 DEF Die
    <2>2. proc[p].svc \in Services \cup {None}
        BY DEF Table, Entries
    <2>3. CASE ServiceBinds(p)
        BY <2>2, <2>3, ListensTable DEF ServiceBinds
    <2>4. CASE ForwarderBinds(p)
        BY <1>2, <2>2, <2>4, ListensTable DEF ForwarderBinds
    <2>5. CASE StrangerStarts(p)
        BY <2>5, OneFresh DEF StrangerStarts
    <2>6. QED BY <1>7, <2>1, <2>3, <2>4, <2>5
<1>8. QED BY <1>3, <1>4, <1>5, <1>6, <1>7 DEF Next, Host, vars

------------------------------------------------------------------------------
(* The steps of a command *)

\* The other commands keep what they remember, and c remembers the right thing.
Fine(c) ==
    /\ cli' \in [Clis -> Commands]
    /\ \A d \in Clis : Remembers(d)'

Filed ==
    /\ record' \in [Services -> Records \cup {NoRecord}]
    /\ \A s \in Services : Names(record[s], s)'

LEMMA RecallsType == ASSUME NEW k \in Commands PROVE Recalls(k) \in SUBSET Ids
<1>1. k.found \subseteq Ids /\ k.due \subseteq Ids /\ k.sig \in Signals \cup {NoSignal}
    BY DEF Commands
<1>2. k.sig.target \in Ids \cup {None}
    BY <1>1 DEF Signals, NoSignal
<1>3. QED BY <1>1, <1>2 DEF Recalls

LEMMA Keeps ==
    ASSUME Inv, Table', \A p \in Pids : Follows(p), NEW d \in Clis, cli'[d] = cli[d]
    PROVE  Remembers(d)'
<1>1. cli[d] \in Commands
    BY DEF Inv, TypeOK
<1>2. /\ cli[d].rec \in Records \cup {NoRecord} /\ Recalls(cli[d]) \subseteq Ids
      /\ cli[d].svc \in Services \cup {None}
    BY <1>1, RecallsType DEF Commands
<1>3. Remembers(d)
    BY DEF Inv
<1>4. PICK r \in Records \cup {NoRecord}, s \in Services \cup {None}, found \in SUBSET Ids :
          r = cli[d].rec /\ s = cli[d].svc /\ found = Recalls(cli[d])
    BY <1>2
<1>5. Names(r, s)'
    BY <1>3, <1>4, NamesStay DEF Inv, Remembers
<1>6. \A id \in found : KnownTo(id, s)'
    BY <1>3, <1>4, KnownStays DEF Inv, Remembers
<1>7. Recalls(cli[d])' = found
    BY <1>4 DEF Recalls
<1>8. QED BY <1>3, <1>4, <1>5, <1>6, <1>7 DEF Remembers, At

\* c is at new afterwards, and what new remembers is right already.
LEMMA NewFine ==
    ASSUME Inv, Table', \A p \in Pids : Follows(p), NEW c \in Clis, NEW new \in Commands,
           cli' = [cli EXCEPT ![c] = new],
           Names(new.rec, new.svc), \A id \in Recalls(new) : KnownTo(id, new.svc),
           new.pc = "all" => new.svc = None /\ new.rec = NoRecord /\ Recalls(new) = {},
           new.pc = "forward" => new.rec \in Records,
           new.pc \notin Between => new.svc \in Services
    PROVE  Fine(c)
<1>1. cli \in [Clis -> Commands]
    BY DEF Inv, TypeOK
<1>2. cli'[c] = new /\ \A d \in Clis \ {c} : cli'[d] = cli[d]
    BY <1>1
<1>3. new.rec \in Records \cup {NoRecord} /\ Recalls(new) \subseteq Ids
    BY RecallsType DEF Commands
<1>4. Names(new.rec, new.svc)'
    BY <1>3, NamesStay DEF Inv
<1>5. PICK mind \in SUBSET Ids : mind = Recalls(new)
    BY <1>3
<1>6. Remembers(c)'
    <2>1. \A id \in mind : KnownTo(id, new.svc)'
        BY <1>5, KnownStays DEF Inv
    <2>2. Recalls(cli[c])' = mind
        BY <1>2, <1>5 DEF Recalls
    <2>3. QED BY <1>2, <1>4, <1>5, <2>1, <2>2 DEF Remembers, At
<1>7. ASSUME NEW d \in Clis \ {c}
      PROVE  Remembers(d)'
    BY <1>2, Keeps
<1>8. QED BY <1>1, <1>6, <1>7 DEF Fine

LEMMA IdleType ==
    ASSUME NEW out \in Outcomes
    PROVE  /\ Idle(out) \in Commands /\ Idle(out).rec = NoRecord /\ Recalls(Idle(out)) = {}
           /\ Idle(out).pc = "idle" /\ Idle(out).sig = NoSignal
<1>1. 0 \in 0 .. MaxPolls
    BY ServiceAssumption
<1>2. PICK quiet \in Signals \cup {NoSignal} : quiet = NoSignal /\ quiet.target = None
    BY NobodyAimedAt
<1>3. Idle(out) = [pc |-> "idle", op |-> "none", svc |-> None, rec |-> NoRecord, found |-> {}, due |-> {},
                   known |-> {}, todo |-> {}, sig |-> quiet, polls |-> 0, out |-> out]
    BY <1>2 DEF Idle
<1>4. QED BY <1>1, <1>2, <1>3 DEF Commands, Places, Recalls

LEMMA NothingNamed == ASSUME NEW s PROVE Names(NoRecord, s)
BY DEF Names, NoRecord

LEMMA ReturnFine ==
    ASSUME Inv, Table', \A p \in Pids : Follows(p), NEW c \in Clis, NEW out \in Outcomes, Return(c, out)
    PROVE  Fine(c)
<1>1. cli' = [cli EXCEPT ![c] = Idle(out)]
    BY DEF Return
<1>2. PICK new \in Commands : new = Idle(out) /\ new.rec = NoRecord /\ Recalls(new) = {} /\ new.pc = "idle"
    BY IdleType
<1>3. QED BY <1>1, <1>2, NewFine, NothingNamed DEF Between

LEMMA GotoFine ==
    ASSUME Inv, Table', \A p \in Pids : Follows(p), NEW c \in Clis, NEW pc \in Places \ {"all", "forward"},
           cli[c].pc \notin Between, Goto(c, pc)
    PROVE  Fine(c)
<1>1. cli[c] \in Commands /\ cli \in [Clis -> Commands]
    BY DEF Inv, TypeOK
<1>2. cli' = [cli EXCEPT ![c] = [cli[c] EXCEPT !.pc = pc]]
    BY <1>1 DEF Goto
<1>3. PICK new \in Commands : new = [cli[c] EXCEPT !.pc = pc]
    BY <1>1 DEF Commands
<1>4. new.pc = pc /\ new.rec = cli[c].rec /\ new.svc = cli[c].svc /\ Recalls(new) = Recalls(cli[c])
    BY <1>1, <1>3 DEF Commands, Recalls
<1>5. Remembers(c)
    BY DEF Inv
<1>6. QED BY <1>2, <1>3, <1>4, <1>5, NewFine DEF Remembers, Between

LEMMA Silence ==
    ASSUME NEW k \in Commands
    PROVE  /\ k.sig.left = 0 => k.sig = NoSignal
           /\ k.sig.left > 0 => k.sig \in Signals
<1>1. \A sig \in Signals : sig.left # 0
    BY DEF Signals
<1>2. k.sig \in Signals \/ k.sig = NoSignal
    BY DEF Commands
<1>3. ~ 0 > 0
    OBVIOUS
<1>4. k.sig = NoSignal => k.sig.left = 0
    BY NobodyAimedAt
<1>5. k.sig.left = 0 => k.sig = NoSignal
    BY <1>1, <1>2, Zenon
<1>6. k.sig.left > 0 => k.sig \in Signals
    BY <1>2, <1>3, <1>4, Zenon
<1>7. QED BY <1>5, <1>6

LEMMA FinishFine ==
    ASSUME Inv, Table', \A p \in Pids : Follows(p), NEW c \in Clis, NEW out \in Outcomes, Finish(c, out),
           cli[c].sig.left = 0
    PROVE  Fine(c)
<1>1. CASE cli[c].op = "down"
    BY <1>1, ReturnFine DEF Finish
<1>2. CASE cli[c].op # "down"
    <2>1. cli[c] \in Commands /\ cli \in [Clis -> Commands]
        BY DEF Inv, TypeOK
    <2>2. PICK new \in Commands :
              new = [cli[c] EXCEPT !.pc = "all", !.svc = None, !.rec = NoRecord, !.found = {}, !.due = {}]
        BY <2>1 DEF Commands, Places
    <2>3. new.pc = "all" /\ new.rec = NoRecord /\ new.svc = None /\ Recalls(new) = {}
        <3>1. cli[c].sig = NoSignal
            BY <2>1, Silence
        <3>2. /\ new.pc = "all" /\ new.rec = NoRecord /\ new.svc = None
              /\ new.found = {} /\ new.due = {} /\ new.sig = NoSignal
            BY <2>1, <2>2, <3>1 DEF Commands
        <3>3. QED BY <3>2, NobodyAimedAt DEF Recalls
    <2>4. cli' = [cli EXCEPT ![c] = new]
        BY <1>2, <2>1, <2>2 DEF Finish
    <2>5. QED BY <2>3, <2>4, NewFine, NothingNamed DEF Between
<1>3. QED BY <1>1, <1>2

LEMMA FiledAs ==
    ASSUME Inv, Table', \A p \in Pids : Follows(p), NEW s, NEW r \in Records \cup {NoRecord},
           record' = record \/ (record' = [record EXCEPT ![s] = r] /\ Names(r, s))
    PROVE  Filed
<1>1. record \in [Services -> Records \cup {NoRecord}] /\ \A t \in Services : Names(record[t], t)
    BY DEF Inv, TypeOK
<1>2. ASSUME NEW t \in Services
      PROVE  Names(record[t], t)'
    <2>1. PICK n \in Records \cup {NoRecord} : n = record'[t] /\ Names(n, t)
        BY <1>1
    <2>2. Names(n, t)'
        BY <2>1, NamesStay DEF Inv
    <2>3. QED BY <2>1, <2>2
<1>3. QED BY <1>1, <1>2 DEF Filed

------------------------------------------------------------------------------
(* One step of each command *)

\* What every step of a command, and of the host, keeps.
Good ==
    /\ cli' \in [Clis -> Commands] /\ \A c \in Clis : Remembers(c)'
    /\ Filed
    /\ sock' \in [Services -> Ids \cup {None}]

LEMMA UpStep ==
    ASSUME Inv, Table', \A p \in Pids : Follows(p), NEW c \in Clis, Up(c)
    PROVE  Good
<1>1. /\ cli[c] \in Commands /\ cli \in [Clis -> Commands]
      /\ record \in [Services -> Records \cup {NoRecord}] /\ sock \in [Services -> Ids \cup {None}]
      /\ \A s \in Services : Names(record[s], s)
    BY DEF Inv, TypeOK
<1>2. /\ cli[c].rec \in Records \cup {NoRecord} /\ cli[c].svc \in Services \cup {None}
      /\ cli[c].polls \in 0 .. MaxPolls
    BY <1>1 DEF Commands
<1>3. Remembers(c)
    BY DEF Inv
<1>4. UNCHANGED record => Filed
    BY FiledAs, NothingNamed
<1>5. record' = [record EXCEPT ![cli[c].svc] = NoRecord] => Filed
    BY FiledAs, NothingNamed
<1>6. \A out \in Outcomes : Return(c, out) => Fine(c)
    BY ReturnFine
<1>7. ASSUME NEW pc \in Places \ {"all", "forward"}, cli[c].pc \notin Between, Goto(c, pc)
      PROVE  Fine(c)
    BY <1>7, GotoFine
<1>8. Fine(c) => cli' \in [Clis -> Commands] /\ \A d \in Clis : Remembers(d)'
    BY DEF Fine
<1>9. CASE UpObserve(c)
    BY <1>1, <1>4, <1>6, <1>7, <1>8, <1>9 DEF UpObserve, Good, Outcomes, Places, Between, At
<1>10. CASE UpClean(c)
    <2>1. cli[c].svc \in Services
        BY <1>3, <1>10 DEF UpClean, At, Remembers, Between
    <2>2. PICK new \in Commands : new = [cli[c] EXCEPT !.pc = "port", !.rec = record[cli[c].svc]]
        BY <1>1, <1>2, <2>1 DEF Commands, Places
    <2>3. /\ new.pc = "port" /\ new.rec = record[cli[c].svc] /\ new.svc = cli[c].svc /\ Recalls(new) = Recalls(cli[c])
        BY <1>1, <2>2 DEF Commands, Recalls
    <2>4. cli' = [cli EXCEPT ![c] = new]
        BY <1>1, <1>10, <2>2 DEF UpClean
    <2>5. Fine(c)
        BY <1>1, <1>3, <2>1, <2>3, <2>4, NewFine DEF Remembers
    <2>6. QED BY <1>1, <1>5, <1>8, <1>10, <2>5 DEF UpClean, Good
<1>11. CASE UpBusy(c) \/ UpFails(c) \/ UpReady(c) \/ UpTimeout(c)
    BY <1>1, <1>4, <1>6, <1>8, <1>11 DEF UpBusy, UpFails, UpReady, UpTimeout, Good, Outcomes
<1>12. CASE UpUnlink(c)
    BY <1>1, <1>4, <1>7, <1>8, <1>12 DEF UpUnlink, Good, Places, Between, At
<1>13. CASE UpSpawn(c)
    <2>1. PICK r \in Records, s \in Services \cup {None}, pc \in {"forward", "record"} :
            /\ s = cli[c].svc /\ Names(r, s)'
            /\ cli' = [cli EXCEPT ![c].rec = r, ![c].pc = pc]
        BY <1>13, UpSpawnTable DEF Inv
    <2>2. cli[c].svc \in Services
        BY <1>3, <1>13 DEF UpSpawn, At, Remembers, Between
    <2>3. cli'[c] = [cli[c] EXCEPT !.rec = r, !.pc = pc]
        BY <1>1, <2>1 DEF Commands
    <2>4. /\ cli'[c] \in Commands /\ cli'[c].pc = pc /\ Recalls(cli'[c]) = Recalls(cli[c])
          /\ cli'[c].rec = r /\ cli'[c].svc = s
        BY <1>1, <2>1, <2>3 DEF Commands, Places, Recalls
    <2>5. cli' \in [Clis -> Commands] /\ \A d \in Clis \ {c} : cli'[d] = cli[d]
        BY <1>1, <2>1, <2>4
    <2>6. \A id \in Recalls(cli[c])' : KnownTo(id, s)'
        <3>1. PICK mind \in SUBSET Ids : mind = Recalls(cli[c])
            BY <1>1, RecallsType
        <3>2. \A id \in mind : KnownTo(id, s)'
            BY <1>3, <2>1, <3>1, KnownStays DEF Inv, Remembers
        <3>3. Recalls(cli[c])' = mind
            BY <2>4, <3>1 DEF Recalls
        <3>4. QED BY <3>2, <3>3
    <2>7. Remembers(c)'
        BY <2>1, <2>2, <2>4, <2>6 DEF Remembers, At
    <2>8. \A d \in Clis \ {c} : Remembers(d)'
        BY <2>5, Keeps
    <2>9. QED BY <1>1, <1>4, <1>13, <2>5, <2>7, <2>8 DEF UpSpawn, Good
<1>14. CASE UpRecord(c)
    <2>1. Filed
        BY <1>2, <1>3, <1>14, FiledAs DEF UpRecord, Remembers
    <2>2. Fine(c)
        BY <1>6, <1>7, <1>14 DEF UpRecord, Outcomes, Places, Between, At
    <2>3. QED BY <1>1, <1>8, <1>14, <2>1, <2>2 DEF UpRecord, Good
<1>15. CASE UpDied(c)
    BY <1>1, <1>5, <1>6, <1>8, <1>15 DEF UpDied, Good, Outcomes
<1>16. CASE UpSleep(c)
    <2>1. cli[c].polls + 1 \in 0 .. MaxPolls
        BY <1>2, <1>16, ServiceAssumption DEF UpSleep
    <2>2. PICK new \in Commands : new = [cli[c] EXCEPT !.polls = cli[c].polls + 1]
        BY <1>1, <2>1 DEF Commands
    <2>3. /\ new.pc = cli[c].pc /\ new.rec = cli[c].rec /\ new.svc = cli[c].svc /\ Recalls(new) = Recalls(cli[c])
        BY <1>1, <2>2 DEF Commands, Recalls
    <2>4. cli' = [cli EXCEPT ![c] = new]
        BY <1>1, <1>16, <2>2 DEF UpSleep
    <2>5. Fine(c)
        BY <1>3, <2>3, <2>4, NewFine DEF Remembers, At
    <2>6. QED BY <1>1, <1>4, <1>8, <1>16, <2>5 DEF UpSleep, Good
<1>17. CASE UpForward(c)
    <2>1. cli[c].svc \in Services /\ cli[c].rec \in Records
        BY <1>3, <1>17 DEF UpForward, At, Remembers, Between
    <2>2. PICK p \in Free :
            /\ proc' = [proc EXCEPT ![p] = Fresh(p, "forwarder", cli[c].svc, None, c)]
            /\ cli' = [cli EXCEPT ![c].rec.proxy = [pid |-> p, ticks |-> proc[p].gen + 1],
                                  ![c].pc = "record"]
        BY <1>17 DEF UpForward
    <2>3. PICK s \in Services : s = cli[c].svc
        BY <2>1
    <2>4. PICK id \in Ids : id = [pid |-> p, ticks |-> proc[p].gen + 1] /\ KnownTo(id, s)'
        BY <2>2, <2>3, OneFresh DEF Inv
    <2>5. PICK old \in Records, r \in Records : old = cli[c].rec /\ r = [cli[c].rec EXCEPT !.proxy = id]
        BY <2>1 DEF Records
    <2>6. r.pid = old.pid /\ r.proxy = id
        BY <2>5 DEF Records
    <2>7. Names(old, s)'
        BY <1>3, <2>3, <2>5, NamesStay DEF Inv, Remembers
    <2>8. Names(r, s)'
        BY <2>4, <2>6, <2>7 DEF Names
    <2>9. cli'[c] = [cli[c] EXCEPT !.rec = r, !.pc = "record"]
        BY <1>1, <2>2, <2>4, <2>5 DEF Commands
    <2>10. cli'[c] \in Commands /\ cli'[c].pc = "record" /\ Recalls(cli'[c]) = Recalls(cli[c])
           /\ cli'[c].rec = r /\ cli'[c].svc = s
        BY <1>1, <2>3, <2>9 DEF Commands, Places, Recalls
    <2>11. cli' \in [Clis -> Commands] /\ \A d \in Clis \ {c} : cli'[d] = cli[d]
        BY <1>1, <2>2, <2>10
    <2>12. \A i \in Recalls(cli[c])' : KnownTo(i, s)'
        <3>1. PICK mind \in SUBSET Ids : mind = Recalls(cli[c])
            BY <1>1, RecallsType
        <3>2. \A i \in mind : KnownTo(i, s)'
            BY <1>3, <2>3, <3>1, KnownStays DEF Inv, Remembers
        <3>3. Recalls(cli[c])' = mind
            BY <2>10, <3>1 DEF Recalls
        <3>4. QED BY <3>2, <3>3
    <2>13. Remembers(c)'
        BY <2>8, <2>10, <2>12 DEF Remembers, At
    <2>14. \A d \in Clis \ {c} : Remembers(d)'
        BY <2>11, Keeps
    <2>15. QED BY <1>1, <1>4, <1>17, <2>11, <2>13, <2>14 DEF UpForward, Good
<1>18. QED BY <1>9, <1>10, <1>11, <1>12, <1>13, <1>14, <1>15, <1>16, <1>17 DEF Up

\* A step of a command that touches neither records nor sockets is good when what the
\* command remembers afterwards is.
LEMMA QuietlyGood ==
    ASSUME Inv, Table', \A p \in Pids : Follows(p), NEW c \in Clis, Fine(c), UNCHANGED <<record, sock>>
    PROVE  Good
<1>1. sock \in [Services -> Ids \cup {None}]
    BY DEF Inv, TypeOK
<1>2. Filed
    BY FiledAs, NothingNamed
<1>3. QED BY <1>1, <1>2 DEF Good, Fine

\* The check of a process that is remembered.
LEMMA AimsGood ==
    ASSUME Inv, Table', \A p \in Pids : Follows(p), NEW c \in Clis, cli[c].pc \notin Between,
           NEW id \in Ids \cup {None}, id # None => KnownTo(id, cli[c].svc),
           NEW name \in {"TERM", "KILL"}, NEW pc \in Lowering, Aims(c, id, name, pc)
    PROVE  Good
<1>1. cli[c] \in Commands /\ cli \in [Clis -> Commands] /\ Remembers(c) /\ Table
    BY DEF Inv, TypeOK
<1>2. PICK sig \in Signals \cup {NoSignal} :
          sig = Signalling(id, name) /\ (sig.target # None => sig.target = id)
    BY <1>1, AimedAt
<1>3. PICK new \in Commands : new = [cli[c] EXCEPT !.sig = sig, !.pc = pc]
    <2>1. pc \in Places
        BY DEF Places, Lowering
    <2>2. QED BY <1>1, <2>1 DEF Commands
<1>4. /\ new.pc = pc /\ new.rec = cli[c].rec /\ new.svc = cli[c].svc
      /\ new.found = cli[c].found /\ new.due = cli[c].due /\ new.sig = sig
    BY <1>1, <1>3 DEF Commands
<1>5. cli' = [cli EXCEPT ![c] = new] /\ UNCHANGED <<record, sock>>
    BY <1>1, <1>2, <1>3 DEF Aims
<1>6. \A i \in Recalls(new) : KnownTo(i, new.svc)
    BY <1>1, <1>2, <1>4 DEF Recalls, Remembers
<1>7. pc \notin {"all", "forward"}
    BY DEF Lowering
<1>8. Fine(c)
    BY <1>1, <1>4, <1>5, <1>6, <1>7, NewFine DEF Remembers
<1>9. QED BY <1>5, <1>8, QuietlyGood

\* The scan of /proc.
LEMMA FindsGood ==
    ASSUME Inv, Table', \A p \in Pids : Follows(p), NEW c \in Clis, NEW P \in SUBSET Pids,
           \A p \in P : Live(p) /\ proc[p].role # "stranger" /\ cli[c].svc \in {None, proc[p].svc},
           NEW ask \in {"asking", "sweeping"}, NEW done \in {"forget", "swept"},
           {ask, done} \subseteq Between \/ cli[c].svc \in Services, Finds(c, P, ask, done)
    PROVE  Good
<1>1. cli[c] \in Commands /\ cli \in [Clis -> Commands] /\ Remembers(c) /\ Table
    BY DEF Inv, TypeOK
<1>2. PICK found : found = {Id(p) : p \in P}
    OBVIOUS
<1>3. \A id \in found : id \in Ids /\ KnownTo(id, cli[c].svc)
    BY <1>1, <1>2, FoundIsKnown
<1>4. PICK pc \in {ask, done} : pc = IF P = {} THEN done ELSE ask
    OBVIOUS
<1>5. PICK new \in Commands : new = [cli[c] EXCEPT !.found = found, !.due = found, !.pc = pc]
    <2>1. found \in SUBSET Ids /\ pc \in Places
        BY <1>3 DEF Places
    <2>2. QED BY <1>1, <2>1 DEF Commands
<1>6. /\ new.pc = pc /\ new.rec = cli[c].rec /\ new.svc = cli[c].svc
      /\ new.found = found /\ new.due = found /\ new.sig = cli[c].sig
    BY <1>1, <1>5 DEF Commands
<1>7. cli' = [cli EXCEPT ![c] = new] /\ UNCHANGED <<record, sock>>
    BY <1>1, <1>2, <1>4, <1>5 DEF Finds
<1>8. \A id \in Recalls(new) : KnownTo(id, new.svc)
    BY <1>1, <1>3, <1>6 DEF Recalls, Remembers
<1>9. Fine(c)
    BY <1>1, <1>6, <1>7, <1>8, NewFine DEF Remembers
<1>10. QED BY <1>7, <1>9, QuietlyGood

\* One turn of the two loops of stop_stragglers.
LEMMA StragglersGood ==
    ASSUME Inv, Table', \A p \in Pids : Follows(p), NEW c \in Clis,
           NEW at \in Places, NEW next \in Places, {at, next} \subseteq Between \/ cli[c].pc \notin Between,
           {at, next} \cap {"all", "forward"} = {}, Asks(c, at, next) \/ Insists(c, at, next)
    PROVE  Good
<1>1. cli[c] \in Commands /\ cli \in [Clis -> Commands] /\ Remembers(c) /\ Table
    BY DEF Inv, TypeOK
<1>2. cli[c].due \in SUBSET Ids /\ cli[c].found \in SUBSET Ids
    BY <1>1 DEF Commands
<1>3. PICK id \in cli[c].due, name \in {"TERM", "KILL"}, due \in SUBSET (cli[c].due \cup cli[c].found),
           pc \in {at, next} :
          cli' = [cli EXCEPT ![c] = [cli[c] EXCEPT !.sig = Signalling(id, name), !.due = due, !.pc = pc]]
    <2>1. ASSUME Asks(c, at, next)
          PROVE  \E id \in cli[c].due, due \in SUBSET (cli[c].due \cup cli[c].found), pc \in {at, next} :
                 cli' = [cli EXCEPT ![c] = [cli[c] EXCEPT !.sig = Signalling(id, "TERM"), !.due = due, !.pc = pc]]
        <3>1. PICK id \in cli[c].due :
                  cli' = [cli EXCEPT ![c].sig = Signalling(id, "TERM"),
                                     ![c].due = IF @ = {id} THEN cli[c].found ELSE @ \ {id},
                                     ![c].pc = IF cli[c].due = {id} THEN next ELSE at]
            BY <2>1 DEF Asks
        <3>2. PICK due \in SUBSET (cli[c].due \cup cli[c].found) :
                  due = IF cli[c].due = {id} THEN cli[c].found ELSE cli[c].due \ {id}
            OBVIOUS
        <3>3. PICK pc \in {at, next} : pc = IF cli[c].due = {id} THEN next ELSE at
            OBVIOUS
        <3>4. PICK sig : sig = Signalling(id, "TERM")
            OBVIOUS
        <3>5. cli' = [cli EXCEPT ![c].sig = sig, ![c].due = due, ![c].pc = pc]
            BY <3>1, <3>2, <3>3, <3>4
        <3>6. cli' = [cli EXCEPT ![c] = [cli[c] EXCEPT !.sig = sig, !.due = due, !.pc = pc]]
            BY <1>1, <3>5
        <3>7. QED BY <3>4, <3>6
    <2>2. ASSUME Insists(c, at, next)
          PROVE  \E id \in cli[c].due, due \in SUBSET (cli[c].due \cup cli[c].found), pc \in {at, next} :
                 cli' = [cli EXCEPT ![c] = [cli[c] EXCEPT !.sig = Signalling(id, "KILL"), !.due = due, !.pc = pc]]
        <3>1. PICK id \in cli[c].due :
                  cli' = [cli EXCEPT ![c].sig = Signalling(id, "KILL"),
                                     ![c].due = @ \ {id},
                                     ![c].pc = IF cli[c].due = {id} THEN next ELSE at]
            BY <2>2 DEF Insists
        <3>2. PICK due \in SUBSET (cli[c].due \cup cli[c].found) : due = cli[c].due \ {id}
            OBVIOUS
        <3>3. PICK pc \in {at, next} : pc = IF cli[c].due = {id} THEN next ELSE at
            OBVIOUS
        <3>4. PICK sig : sig = Signalling(id, "KILL")
            OBVIOUS
        <3>5. cli' = [cli EXCEPT ![c].sig = sig, ![c].due = due, ![c].pc = pc]
            BY <3>1, <3>2, <3>3, <3>4
        <3>6. cli' = [cli EXCEPT ![c] = [cli[c] EXCEPT !.sig = sig, !.due = due, !.pc = pc]]
            BY <1>1, <3>5
        <3>7. QED BY <3>4, <3>6
    <2>3. QED BY <2>1, <2>2
<1>4. PICK sig \in Signals \cup {NoSignal} :
          sig = Signalling(id, name) /\ (sig.target # None => sig.target = id)
    <2>1. id \in Ids \cup {None}
        BY <1>2
    <2>2. QED BY <1>1, <2>1, AimedAt
<1>5. PICK new \in Commands : new = [cli[c] EXCEPT !.sig = sig, !.due = due, !.pc = pc]
    BY <1>1, <1>2 DEF Commands
<1>6. /\ new.pc = pc /\ new.rec = cli[c].rec /\ new.svc = cli[c].svc
      /\ new.found = cli[c].found /\ new.due = due /\ new.sig = sig
    BY <1>1, <1>5 DEF Commands
<1>7. cli' = [cli EXCEPT ![c] = new] /\ UNCHANGED <<record, sock>>
    BY <1>3, <1>4, <1>5 DEF Asks, Insists
<1>8. \A i \in Recalls(new) : KnownTo(i, new.svc)
    BY <1>1, <1>3, <1>4, <1>6 DEF Recalls, Remembers
<1>9. Fine(c)
    BY <1>1, <1>3, <1>6, <1>7, <1>8, NewFine DEF Remembers
<1>10. QED BY <1>7, <1>9, QuietlyGood

LEMMA SendsGood ==
    ASSUME Inv, Table', \A p \in Pids : Follows(p), NEW c \in Clis, SendsSignal(c)
    PROVE  Good
<1>1. cli[c] \in Commands /\ cli \in [Clis -> Commands] /\ Remembers(c) /\ cli[c].sig \in Signals
    BY Silence DEF Inv, TypeOK, SendsSignal
<1>2. PICK sig \in Signals \cup {NoSignal} :
          /\ cli' = [cli EXCEPT ![c] = [cli[c] EXCEPT !.sig = sig]]
          /\ sig.target # None => sig.target = cli[c].sig.target
    <2>1. PICK sig : sig = IF cli[c].sig.left = 2 THEN [cli[c].sig EXCEPT !.left = 1] ELSE NoSignal
        OBVIOUS
    <2>2. sig \in Signals \cup {NoSignal} /\ (sig.target # None => sig.target = cli[c].sig.target)
        BY <1>1, <2>1, NobodyAimedAt DEF Signals
    <2>3. cli' = [cli EXCEPT ![c] = [cli[c] EXCEPT !.sig = sig]]
        BY <1>1, <2>1 DEF SendsSignal
    <2>4. QED BY <2>2, <2>3
<1>3. PICK new \in Commands : new = [cli[c] EXCEPT !.sig = sig]
    BY <1>1, <1>2 DEF Commands
<1>4. /\ new.pc = cli[c].pc /\ new.rec = cli[c].rec /\ new.svc = cli[c].svc
      /\ new.found = cli[c].found /\ new.due = cli[c].due /\ new.sig = sig
    BY <1>1, <1>3 DEF Commands
<1>5. cli' = [cli EXCEPT ![c] = new] /\ UNCHANGED <<record, sock>>
    BY <1>2, <1>3 DEF SendsSignal
<1>6. Recalls(new) \subseteq Recalls(cli[c])
    BY <1>2, <1>4 DEF Recalls
<1>7. Fine(c)
    BY <1>1, <1>4, <1>5, <1>6, NewFine DEF Remembers, At
<1>8. QED BY <1>5, <1>7, QuietlyGood

LEMMA DownStep ==
    ASSUME Inv, Table', \A p \in Pids : Follows(p), NEW c \in Clis, Down(c)
    PROVE  Good
<1>1. /\ cli[c] \in Commands /\ cli \in [Clis -> Commands]
      /\ record \in [Services -> Records \cup {NoRecord}] /\ sock \in [Services -> Ids \cup {None}]
      /\ \A s \in Services : Names(record[s], s)
    BY DEF Inv, TypeOK
<1>2. /\ cli[c].rec \in Records \cup {NoRecord} /\ cli[c].svc \in Services \cup {None}
    BY <1>1 DEF Commands
<1>3. Remembers(c) /\ Table
    BY DEF Inv
<1>4. UNCHANGED record => Filed
    BY FiledAs, NothingNamed
<1>5. record' = [record EXCEPT ![cli[c].svc] = NoRecord] => Filed
    BY FiledAs, NothingNamed
<1>6. \A out \in Outcomes : cli[c].sig.left = 0 /\ Finish(c, out) => Fine(c)
    BY FinishFine
<1>7. ASSUME NEW pc \in Places \ {"all", "forward"}, cli[c].pc \notin Between, Goto(c, pc)
      PROVE  Fine(c)
    BY <1>7, GotoFine
<1>8. Fine(c) => cli' \in [Clis -> Commands] /\ \A d \in Clis : Remembers(d)'
    BY DEF Fine
<1>9. CASE SendsSignal(c)
    BY <1>9, SendsGood
<1>10. ASSUME DownRead(c), cli[c].sig.left = 0
       PROVE  Good
    <2>1. cli[c].svc \in Services
        BY <1>3, <1>10 DEF DownRead, At, Remembers, Between
    <2>2. CASE record[cli[c].svc] = NoRecord
        BY <1>1, <1>4, <1>6, <1>8, <1>10, <2>2 DEF DownRead, Good, Outcomes
    <2>3. CASE record[cli[c].svc] # NoRecord
        <3>1. PICK new \in Commands : new = [cli[c] EXCEPT !.rec = record[cli[c].svc], !.pc = "term"]
            BY <1>1, <2>1 DEF Commands, Places
        <3>2. /\ new.pc = "term" /\ new.rec = record[cli[c].svc] /\ new.svc = cli[c].svc
              /\ Recalls(new) = Recalls(cli[c])
            BY <1>1, <3>1 DEF Commands, Recalls
        <3>3. cli' = [cli EXCEPT ![c] = new] /\ UNCHANGED <<record, sock>>
            BY <1>1, <1>10, <2>3, <3>1 DEF DownRead
        <3>4. Fine(c)
            BY <1>1, <1>3, <2>1, <3>2, <3>3, NewFine DEF Remembers
        <3>5. QED BY <1>1, <1>4, <1>8, <3>3, <3>4 DEF Good
    <2>4. QED BY <2>2, <2>3
<1>11. CASE DownTerm(c) \/ DownKill(c) \/ DownProxyTerm(c) \/ DownProxyKill(c)
    <2>1. cli[c].rec.pid \in Ids \cup {None} /\ cli[c].rec.proxy \in Ids \cup {None}
        BY <1>2 DEF Records, NoRecord
    <2>2. cli[c].pc \in {"term", "grace", "proxy", "proxyGrace"}
        BY <1>11 DEF DownTerm, DownKill, DownProxyTerm, DownProxyKill, At
    <2>3. cli[c].pc \notin Between
        BY <2>2 DEF Between
    <2>4. PICK id \in {cli[c].rec.pid, cli[c].rec.proxy}, name \in {"TERM", "KILL"},
               pc \in {"grace", "proxy", "proxyGrace", "scan"} : Aims(c, id, name, pc)
        BY <1>11 DEF DownTerm, DownKill, DownProxyTerm, DownProxyKill
    <2>5. pc \in Lowering
        BY DEF Lowering
    <2>6. id \in Ids \cup {None} /\ (id # None => KnownTo(id, cli[c].svc))
        BY <1>3, <2>1, <2>4 DEF Remembers, Names
    <2>7. QED BY <2>3, <2>4, <2>5, <2>6, AimsGood
<1>12. CASE DownScan(c)
    <2>1. PICK P \in SUBSET Pids :
            P = {q \in Orphans({cli[c].rec.pid.pid}) : BelongsToService(q, cli[c].svc)}
        BY DEF Orphans
    <2>2. \A p \in P : Live(p) /\ proc[p].role # "stranger" /\ cli[c].svc \in {None, proc[p].svc}
        BY <2>1 DEF Orphans, BelongsToService
    <2>3. cli[c].svc \in Services
        BY <1>3, <1>12 DEF DownScan, At, Remembers, Between
    <2>4. Finds(c, P, "asking", "forget")
        BY <1>12, <2>1 DEF DownScan
    <2>5. QED BY <2>2, <2>3, <2>4, FindsGood
<1>13. CASE Asks(c, "asking", "stragglers") \/ Insists(c, "stragglers", "forget")
    <2>1. cli[c].pc \notin Between
        BY <1>13 DEF Asks, Insists, At, Between
    <2>2. "asking" \in Places /\ "stragglers" \in Places /\ "forget" \in Places
        BY DEF Places
    <2>3. CASE Asks(c, "asking", "stragglers")
        BY <2>1, <2>2, <2>3, StragglersGood
    <2>4. CASE Insists(c, "stragglers", "forget")
        BY <2>1, <2>2, <2>4, StragglersGood
    <2>5. QED BY <1>13, <2>3, <2>4
<1>14. CASE Asks(c, "sweeping", "sweep") \/ Insists(c, "sweep", "swept")
    <2>1. /\ "sweeping" \in Places /\ "sweep" \in Places /\ "swept" \in Places
          /\ {"sweeping", "sweep"} \subseteq Between /\ {"sweep", "swept"} \subseteq Between
        BY DEF Places, Between
    <2>2. CASE Asks(c, "sweeping", "sweep")
        BY <2>1, <2>2, StragglersGood
    <2>3. CASE Insists(c, "sweep", "swept")
        BY <2>1, <2>3, StragglersGood
    <2>4. QED BY <1>14, <2>2, <2>3
<1>15. CASE DownForget(c)
    BY <1>1, <1>5, <1>7, <1>8, <1>15 DEF DownForget, Good, Places, Between, At
<1>16. ASSUME DownUnlink(c), cli[c].sig.left = 0
       PROVE  Good
    BY <1>1, <1>4, <1>6, <1>8, <1>16 DEF DownUnlink, Good, Outcomes
<1>17. ASSUME AllNext(c), cli[c].sig.left = 0
       PROVE  Good
    <2>1. cli[c].svc = None /\ cli[c].rec = NoRecord /\ Recalls(cli[c]) = {} /\ cli[c].pc = "all"
        BY <1>3, <1>17 DEF AllNext, At, Remembers
    <2>2. PICK s \in cli[c].todo :
            cli' = [cli EXCEPT ![c] =
                IF record[s] = NoRecord THEN [cli[c] EXCEPT !.todo = cli[c].todo \ {s}]
                ELSE [cli[c] EXCEPT !.todo = cli[c].todo \ {s}, !.svc = s, !.pc = "read",
                        !.known = cli[c].known \cup ({record[s].pid, record[s].proxy} \ {None})]]
        BY <1>1, <1>17 DEF AllNext
    <2>3. s \in Services /\ cli[c].todo \in SUBSET Services /\ cli[c].known \in SUBSET Ids
        BY <1>1 DEF Commands
    <2>4. Fine(c)
        <3>1. CASE record[s] = NoRecord
            <4>1. PICK new \in Commands : new = [cli[c] EXCEPT !.todo = cli[c].todo \ {s}]
                BY <1>1, <2>3 DEF Commands
            <4>2. new.pc = "all" /\ new.rec = NoRecord /\ new.svc = None /\ Recalls(new) = {}
                BY <1>1, <2>1, <4>1 DEF Commands, Recalls
            <4>3. cli' = [cli EXCEPT ![c] = new]
                BY <1>1, <2>2, <3>1, <4>1
            <4>4. QED BY <4>2, <4>3, NewFine, NothingNamed DEF Between
        <3>2. CASE record[s] # NoRecord
            <4>1. PICK known \in SUBSET Ids :
                    known = cli[c].known \cup ({record[s].pid, record[s].proxy} \ {None})
                BY <1>1, <2>3, <3>2 DEF Records
            <4>2. PICK new \in Commands :
                    new = [cli[c] EXCEPT !.todo = cli[c].todo \ {s}, !.svc = s, !.pc = "read", !.known = known]
                BY <1>1, <2>3 DEF Commands, Places
            <4>3. new.pc = "read" /\ new.rec = NoRecord /\ new.svc = s /\ Recalls(new) = {}
                BY <1>1, <2>1, <4>2 DEF Commands, Recalls
            <4>4. cli' = [cli EXCEPT ![c] = new]
                BY <1>1, <2>2, <3>2, <4>1, <4>2
            <4>5. QED BY <2>3, <4>3, <4>4, NewFine, NothingNamed
        <3>3. QED BY <3>1, <3>2
    <2>5. QED BY <1>1, <1>4, <1>8, <1>17, <2>4 DEF AllNext, Good
<1>18. CASE AllScan(c)
    <2>1. cli[c].svc = None
        BY <1>3, <1>18 DEF AllScan, At, Remembers
    <2>2. PICK P \in SUBSET Pids : P = Orphans({id.pid : id \in cli[c].known})
        BY DEF Orphans
    <2>3. \A p \in P : Live(p) /\ proc[p].role # "stranger" /\ cli[c].svc \in {None, proc[p].svc}
        BY <2>1, <2>2 DEF Orphans
    <2>4. Finds(c, P, "sweeping", "swept") /\ {"sweeping", "swept"} \subseteq Between
        BY <1>18, <2>2 DEF AllScan, Between
    <2>5. QED BY <2>3, <2>4, FindsGood
<1>19. CASE AllDone(c)
    <2>1. Fine(c)
        BY <1>19, ReturnFine DEF AllDone, Outcomes
    <2>2. QED BY <1>19, <2>1, QuietlyGood DEF AllDone
<1>20. QED BY <1>9, <1>10, <1>11, <1>12, <1>13, <1>14, <1>15, <1>16, <1>17, <1>18, <1>19 DEF Down

\* A command is started or killed.
LEMMA AroundStep ==
    ASSUME Inv, Table', \A p \in Pids : Follows(p), NEW c \in Clis, Request(c) \/ CliDies(c)
    PROVE  Good
<1>1. sock \in [Services -> Ids \cup {None}]
    BY DEF Inv, TypeOK
<1>2. UNCHANGED record => Filed
    BY FiledAs, NothingNamed
<1>3. Fine(c) => cli' \in [Clis -> Commands] /\ \A d \in Clis : Remembers(d)'
    BY DEF Fine
<1>4. CASE CliDies(c)
    <2>1. Fine(c)
        BY <1>4, ReturnFine DEF CliDies, Outcomes
    <2>2. QED BY <1>1, <1>2, <1>3, <1>4, <2>1 DEF CliDies, Good
<1>5. CASE Request(c)
    <2>1. PICK op \in {"up", "down", "down --all"}, s \in Services \cup {None}, todo \in SUBSET Services,
               pc \in {"observe", "read", "all"} :
            /\ Begin(c, op, s, todo, pc)
            /\ IF pc = "all" THEN s = None ELSE s \in Services
        BY <1>5 DEF Request
    <2>2. Idle("none") \in Commands /\ Idle("none").rec = NoRecord /\ Recalls(Idle("none")) = {}
        BY IdleType DEF Outcomes
    <2>3. PICK new \in Commands :
            new = [Idle("none") EXCEPT !.pc = pc, !.op = op, !.svc = s, !.todo = todo]
        <3>1. PICK rest \in Commands : rest = Idle("none")
            BY <2>2
        <3>2. [rest EXCEPT !.pc = pc, !.op = op, !.svc = s, !.todo = todo] \in Commands
            BY DEF Commands, Places
        <3>3. QED BY <3>1, <3>2
    <2>4. new.pc = pc /\ new.svc = s /\ new.rec = NoRecord /\ Recalls(new) = {}
        BY <2>2, <2>3 DEF Commands, Recalls
    <2>5. cli' = [cli EXCEPT ![c] = new] /\ UNCHANGED <<record, sock>>
        BY <2>1, <2>3 DEF Begin
    <2>6. Fine(c)
        BY <2>1, <2>4, <2>5, NewFine, NothingNamed DEF Between
    <2>7. QED BY <1>1, <1>2, <1>3, <2>5, <2>6 DEF Good
<1>6. QED BY <1>4, <1>5

LEMMA HostStep ==
    ASSUME Inv, Table', \A p \in Pids : Follows(p), Host \/ UNCHANGED vars
    PROVE  Good
<1>1. sock \in [Services -> Ids \cup {None}] /\ cli \in [Clis -> Commands]
    BY DEF Inv, TypeOK
<1>2. UNCHANGED <<record, cli>>
    BY DEF Host, Die, ServiceBinds, ForwarderBinds, StrangerStarts, vars
<1>3. Filed
    BY <1>2, FiledAs, NothingNamed
<1>4. \A d \in Clis : Remembers(d)'
    BY <1>2, Keeps
<1>5. sock' \in [Services -> Ids \cup {None}]
    <2>1. ASSUME NEW p \in Pids, ServiceBinds(p)
          PROVE  sock' \in [Services -> Ids \cup {None}]
        <3>1. Id(p) \in Ids
            BY <2>1 DEF Inv, Table, ServiceBinds, Live, Id, Ids
        <3>2. QED BY <1>1, <2>1, <3>1 DEF ServiceBinds
    <2>2. UNCHANGED sock \/ \E p \in Pids : ServiceBinds(p)
        BY DEF Host, Die, ForwarderBinds, StrangerStarts, vars
    <2>3. QED BY <1>1, <2>1, <2>2
<1>6. QED BY <1>1, <1>2, <1>3, <1>4, <1>5 DEF Good

LEMMA Invariance == Spec => []Inv
<1>1. Init => Inv
    <2>1. 0 \in 0 .. MaxGen
        BY ServiceAssumption
    <2>2. ASSUME Init
          PROVE  proc \in [Pids -> Entries] /\ \A p \in Pids : proc[p].state = "free"
        BY <2>1, <2>2 DEF Init, Vacant, Entries
    <2>3. ASSUME Init
          PROVE  cli \in [Clis -> Commands] /\ \A c \in Clis : Remembers(c)
        <3>1. PICK new \in Commands :
                new = Idle("none") /\ new.rec = NoRecord /\ Recalls(new) = {} /\ new.pc = "idle"
            BY IdleType DEF Outcomes
        <3>2. cli \in [Clis -> Commands] /\ \A c \in Clis : cli[c] = new
            BY <2>3, <3>1 DEF Init
        <3>3. QED BY <3>1, <3>2, NothingNamed DEF Remembers, At, Between
    <2>4. QED BY <2>2, <2>3, NothingNamed DEF Init, Inv, TypeOK, Table
<1>2. Inv /\ [Next]_vars => Inv'
    <2>1. SUFFICES ASSUME Inv, [Next]_vars
                   PROVE  Inv'
        OBVIOUS
    <2>2. Table' /\ \A p \in Pids : Follows(p)
        BY <2>1, TableStep DEF Inv
    <2>3. Good
        BY <2>1, <2>2, UpStep, DownStep, AroundStep, HostStep DEF Next
    <2>4. QED BY <2>1, <2>2, <2>3 DEF Inv, TypeOK, Table, Good, Filed
<1>3. QED BY <1>1, <1>2, PTL DEF Spec

------------------------------------------------------------------------------
(* What down leaves, when no other command is at work                        *)
(*                                                                         *)
(* A command that lowers a service goes after three kinds of process: the   *)
(* recorded sandbox, the recorded forwarder, what a scan of /proc finds.    *)
(* Lowers says what each place of `down` has done with them, Sweeps what    *)
(* `down --all` has.  Both rest on two facts about the table: a tenancy that *)
(* has ended is over (DeadStays), and none but `up` makes a process of a    *)
(* service (NobodyComes).                                                   *)

Alive(id) == Live(id.pid) /\ proc[id.pid].gen = id.ticks

\* The process on its way to which a SIGKILL is.
Struck(k) == IF k.sig.name = "KILL" THEN {k.sig.target} ELSE {}

\* What a command k that lowers one service has achieved, with the signal it has sent.
Lowers(k) ==
    /\ k.pc \in Lowering => k.rec \in Records
    /\ k.pc \in Lowering \ {"term", "grace"} => (Alive(k.rec.pid) => k.rec.pid \in Struck(k))
    /\ k.pc = "asking" => \A p \in Processes(k.svc) : Id(p) \in k.found \/ p = k.rec.pid.pid
    /\ k.pc = "stragglers" => \A p \in Processes(k.svc) : Id(p) \in k.due \cup Struck(k) \/ p = k.rec.pid.pid
    /\ k.pc \in {"forget", "unlink"} => \A p \in Processes(k.svc) : Id(p) \in Struck(k) \/ p = k.rec.pid.pid
    /\ k.pc = "unlink" => record[k.svc] = NoRecord

\* The process id of a record still has to be lowered.
Due(id, k) ==
    \/ k.pc = "read" /\ id \in {record[k.svc].pid, record[k.svc].proxy}
    \/ k.pc \in {"term", "grace"} /\ id \in {k.rec.pid, k.rec.proxy}
    \/ k.pc \in {"proxy", "proxyGrace"} /\ id = k.rec.proxy
    \/ id \in Struck(k)

Sweeping(k) ==
    \/ k.pc \in {"all", "sweeping", "sweep", "swept"}
    \/ k.pc \in {"read"} \cup Lowering /\ k.op # "down"

\* p runs on a number a record names.
Shielded(p, k) == p \in {id.pid : id \in k.known}

\* What a command k that lowers all services has achieved.
Sweeps(k) ==
    /\ \A id \in k.known : id.ticks <= proc[id.pid].gen /\ (Alive(id) => Due(id, k))
    /\ Sweeping(k) => \A s \in Services :
          \/ record[s] = NoRecord
          \/ s \in k.todo
          \/ s = k.svc /\ k.pc \in {"read"} \cup (Lowering \ {"unlink"})
    /\ k.pc \in {"sweeping", "sweep", "swept"} => k.todo = {}
    /\ k.pc = "sweeping" => \A s \in Services : \A p \in Processes(s) : Id(p) \in k.found \/ Shielded(p, k)
    /\ k.pc = "sweep" => \A s \in Services : \A p \in Processes(s) :
          Id(p) \in k.due \cup Struck(k) \/ Shielded(p, k)
    /\ k.pc = "swept" => \A s \in Services : \A p \in Processes(s) : Id(p) \in Struck(k) \/ Shielded(p, k)

\* A scan of /proc sees every live process of a service; only a service with a socket
\* has a socket file.
Staffed ==
    \A p \in Pids : Live(p) /\ proc[p].svc \in Services => proc[p].role \in {"outer", "inner", "forwarder"}

Socketed == \A s \in Services : ~ IsSocket(s) => sock[s] = None

Alone == Staffed /\ Socketed /\ \A c \in Clis : Lowers(cli[c]) /\ Sweeps(cli[c])

\* No process of a service is new.
NobodyComes ==
    \A p \in Pids : proc'[p].state = "live" /\ proc'[p].svc \in Services => proc'[p].gen = proc[p].gen

\* A tenancy that has ended is over.
LEMMA DeadStays ==
    ASSUME Table, Table', \A p \in Pids : Follows(p), NEW id \in Ids, id.ticks <= proc[id.pid].gen
    PROVE  id.ticks <= proc'[id.pid].gen /\ (Alive(id)' => Alive(id))
<1>1. id.pid \in Pids /\ id.ticks \in Nat
    BY ServiceAssumption DEF Ids
<1>2. proc[id.pid] \in Entries /\ proc'[id.pid] \in Entries /\ Follows(id.pid)
    BY <1>1 DEF Table
<1>3. proc[id.pid].gen \in Nat /\ proc'[id.pid].gen \in Nat
    BY <1>2, ServiceAssumption DEF Entries
<1>4. QED BY <1>1, <1>2, <1>3 DEF Alive, Live, Follows

\* What a service runs, it ran before.
LEMMA ProcessStays ==
    ASSUME Table, Table', \A p \in Pids : Follows(p), NobodyComes,
           NEW p \in Pids, Live(p)', proc'[p].svc \in Services
    PROVE  Live(p) /\ proc[p].svc = proc'[p].svc /\ proc[p].role = proc'[p].role /\ Id(p)' = Id(p)
<1>1. proc'[p].gen = proc[p].gen /\ Follows(p)
    BY DEF NobodyComes, Live
<1>2. proc[p].gen \in Nat
    BY ServiceAssumption DEF Table, Entries
<1>3. proc'[p].state = "live" /\ "live" # "free"
    BY DEF Live
<1>4. Live(p) /\ proc[p].svc = proc'[p].svc /\ proc[p].role = proc'[p].role
    BY <1>1, <1>2, <1>3 DEF Follows, Live
<1>5. QED BY <1>1, <1>4 DEF Id

\* Only the spawns of up bring a process of a service.
LEMMA NobodyNew ==
    ASSUME TypeOK, Table, [Next]_vars, \A c \in Clis : ~ UpSpawn(c) /\ ~ UpForward(c)
    PROVE  NobodyComes
<1>1. CASE \A p \in Pids : proc'[p].gen = proc[p].gen
    BY <1>1 DEF NobodyComes
<1>2. ASSUME NEW c \in Clis, proc' = Adopted(c)
      PROVE  \A p \in Pids : proc'[p].gen = proc[p].gen
    BY <1>2 DEF Adopted, Vacant, Table, Entries
<1>3. ASSUME NEW S, proc' = Buried(S)
      PROVE  \A p \in Pids : proc'[p].gen = proc[p].gen
    BY <1>3 DEF Buried, Vacant, Table, Entries
<1>4. ASSUME NEW q \in Pids, NEW where, proc' = [proc EXCEPT ![q].listens = where]
      PROVE  \A p \in Pids : proc'[p].gen = proc[p].gen
    <2>1. SUFFICES ASSUME NEW p \in Pids PROVE proc'[p].gen = proc[p].gen
        OBVIOUS
    <2>2. proc[p] \in Entries
        BY DEF Table
    <2>3. proc'[p] \in {proc[p], [proc[p] EXCEPT !.listens = where]}
        BY <1>4 DEF Table
    <2>4. QED BY <2>2, <2>3 DEF Entries
<1>5. ASSUME NEW c \in Clis, Up(c)
      PROVE  proc' = Adopted(c) \/ UNCHANGED proc
    BY <1>5 DEF Up, UpObserve, UpClean, UpBusy, UpUnlink, UpFails, UpRecord, UpReady, UpDied,
                UpSleep, UpTimeout, Return
<1>6. ASSUME NEW c \in Clis, Down(c)
      PROVE  (\E S : proc' = Buried(S)) \/ proc' = Adopted(c) \/ UNCHANGED proc
    BY <1>6 DEF Down, DownRead, DownTerm, DownKill, DownProxyTerm, DownProxyKill, DownScan, SendsSignal,
                Aims, Asks, Insists, Finds, DownForget, DownUnlink, AllNext, AllScan, AllDone, Finish, Return
<1>7. ASSUME NEW c \in Clis, Request(c) \/ CliDies(c)
      PROVE  proc' = Adopted(c) \/ UNCHANGED proc
    BY <1>7 DEF Request, Begin, CliDies, Return
<1>8. ASSUME NEW q \in Pids, StrangerStarts(q)
      PROVE  NobodyComes
    <2>1. q \in Free /\ proc' = [proc EXCEPT ![q] = Fresh(q, "stranger", None, None, None)]
        BY <1>8 DEF StrangerStarts
    <2>2. proc'[q].svc = None /\ \A p \in Pids \ {q} : proc'[p] = proc[p]
        BY <2>1 DEF Table, Fresh
    <2>3. QED BY <2>2, NoneAssumption DEF NobodyComes
<1>9. ASSUME NEW q \in Pids, Die(q) \/ ServiceBinds(q) \/ ForwarderBinds(q)
      PROVE  (\E S : proc' = Buried(S)) \/ (\E where : proc' = [proc EXCEPT ![q].listens = where])
    BY <1>9 DEF Die, ServiceBinds, ForwarderBinds
<1>10. CASE UNCHANGED proc
    BY <1>1, <1>10
<1>11. QED BY <1>1, <1>2, <1>3, <1>4, <1>5, <1>6, <1>7, <1>8, <1>9, <1>10 DEF Next, Host, vars

LEMMA StaffedStep ==
    ASSUME TypeOK, Table, Table', \A p \in Pids : Follows(p), Staffed, [Next]_vars
    PROVE  Staffed'
<1>1. CASE NobodyComes
    <2>1. SUFFICES ASSUME NEW p \in Pids, Live(p)', proc'[p].svc \in Services
                   PROVE  proc'[p].role \in {"outer", "inner", "forwarder"}
        BY DEF Staffed
    <2>2. Live(p) /\ proc[p].svc = proc'[p].svc /\ proc[p].role = proc'[p].role
        BY <1>1, <2>1, ProcessStays
    <2>3. QED BY <2>1, <2>2 DEF Staffed
<1>2. ASSUME NEW c \in Clis, UpSpawn(c)
      PROVE  Staffed'
    <2>1. \E mate : \E p, q \in Pids :
              proc' = [proc EXCEPT ![p] = Fresh(p, "outer", cli[c].svc, None, c),
                                   ![q] = Fresh(q, "inner", cli[c].svc, mate, None)]
        BY <1>2 DEF UpSpawn, Free
    <2>2. \A k \in Pids : proc'[k] = proc[k] \/ proc'[k].role \in {"outer", "inner"}
        BY <2>1 DEF Table, Fresh
    <2>3. QED BY <2>2 DEF Staffed, Live
<1>3. ASSUME NEW c \in Clis, UpForward(c)
      PROVE  Staffed'
    <2>1. PICK p \in Pids : proc' = [proc EXCEPT ![p] = Fresh(p, "forwarder", cli[c].svc, None, c)]
        BY <1>3 DEF UpForward, Free
    <2>2. \A k \in Pids : proc'[k] = proc[k] \/ proc'[k].role = "forwarder"
        BY <2>1 DEF Table, Fresh
    <2>3. QED BY <2>2 DEF Staffed, Live
<1>4. QED BY <1>1, <1>2, <1>3, NobodyNew

LEMMA SocketedStep ==
    ASSUME TypeOK, Socketed, [Next]_vars
    PROVE  Socketed'
<1>1. CASE UNCHANGED sock \/ \E s : sock' = [sock EXCEPT ![s] = None]
    BY <1>1 DEF Socketed, TypeOK
<1>2. ASSUME NEW p \in Pids, ServiceBinds(p)
      PROVE  Socketed'
    <2>1. UNCHANGED sock \/ (IsSocket(proc[p].svc) /\ sock' = [sock EXCEPT ![proc[p].svc] = Id(p)])
        BY <1>2 DEF ServiceBinds
    <2>2. QED BY <2>1 DEF Socketed, TypeOK
<1>3. ASSUME NEW c \in Clis, Up(c)
      PROVE  UNCHANGED sock \/ sock' = [sock EXCEPT ![cli[c].svc] = None]
    BY <1>3 DEF Up, UpObserve, UpClean, UpBusy, UpUnlink, UpFails, UpSpawn, UpForward, UpRecord, UpReady, UpDied,
                UpSleep, UpTimeout
<1>4. ASSUME NEW c \in Clis, Down(c)
      PROVE  UNCHANGED sock \/ sock' = [sock EXCEPT ![cli[c].svc] = None]
    BY <1>4 DEF Down, DownRead, DownTerm, DownKill, DownProxyTerm, DownProxyKill, DownScan, SendsSignal,
                Aims, Asks, Insists, Finds, DownForget, DownUnlink, AllNext, AllScan, AllDone
<1>5. ASSUME NEW c \in Clis, Request(c) \/ CliDies(c)
      PROVE  UNCHANGED sock
    BY <1>5 DEF Request, Begin, CliDies
<1>6. ASSUME NEW p \in Pids, Die(p) \/ ForwarderBinds(p) \/ StrangerStarts(p)
      PROVE  UNCHANGED sock
    BY <1>6 DEF Die, ForwarderBinds, StrangerStarts
<1>7. QED BY <1>1, <1>2, <1>3, <1>4, <1>5, <1>6 DEF Next, Host, vars

\* What a command has achieved lasts.
LEMMA Lasts ==
    ASSUME Inv, Table', \A p \in Pids : Follows(p), NobodyComes,
           NEW k \in Commands, Lowers(k), Sweeps(k), Names(k.rec, k.svc),
           k.pc \notin Between => k.svc \in Services,
           k.pc = "read" => record'[k.svc] = record[k.svc],
           \A s \in Services : record'[s] \in {record[s], NoRecord}
    PROVE  Lowers(k)' /\ Sweeps(k)'
<1>1. Table
    BY DEF Inv
<1>2. k.pc \in Lowering => k.svc \in Services
    BY DEF Lowering, Between
<1>3. ASSUME NEW s \in Services, NEW p \in Processes(s)'
      PROVE  p \in Processes(s) /\ Id(p)' = Id(p)
    <2>1. p \in Pids /\ Live(p)' /\ proc'[p].svc = s
        BY <1>3 DEF Processes
    <2>2. QED BY <1>1, <2>1, ProcessStays DEF Processes
<1>4. ASSUME k.pc \in Lowering \ {"term", "grace"}, Alive(k.rec.pid)'
      PROVE  k.rec.pid \in Struck(k)
    <2>1. k.rec.pid \in Ids /\ k.rec.pid # None
        BY <1>4, NoneAssumption DEF Lowers, Records
    <2>2. k.rec.pid.ticks <= proc[k.rec.pid.pid].gen
        BY <2>1 DEF Names, KnownTo
    <2>3. Alive(k.rec.pid)
        BY <1>1, <1>4, <2>1, <2>2, DeadStays
    <2>4. QED BY <1>4, <2>3 DEF Lowers
<1>5. ASSUME k.pc \in Lowering, NEW p \in Processes(k.svc)'
      PROVE  p \in Processes(k.svc) /\ Id(p)' = Id(p)
    BY <1>2, <1>3, <1>5
<1>6. /\ k.pc = "asking" => \A p \in Processes(k.svc)' : Id(p)' \in k.found \/ p = k.rec.pid.pid
      /\ k.pc = "stragglers" => \A p \in Processes(k.svc)' : Id(p)' \in k.due \cup Struck(k) \/ p = k.rec.pid.pid
      /\ k.pc \in {"forget", "unlink"} => \A p \in Processes(k.svc)' : Id(p)' \in Struck(k) \/ p = k.rec.pid.pid
    BY <1>5 DEF Lowers, Lowering
<1>7. k.pc = "unlink" => record'[k.svc] = NoRecord
    BY <1>2 DEF Lowers, Lowering
<1>8. Lowers(k)'
    BY <1>4, <1>6, <1>7 DEF Lowers, Struck
<1>9. ASSUME NEW id \in k.known
      PROVE  id.ticks <= proc'[id.pid].gen /\ (Alive(id)' => Due(id, k)')
    <2>1. id \in Ids /\ id.ticks <= proc[id.pid].gen /\ (Alive(id) => Due(id, k))
        BY DEF Commands, Sweeps
    <2>2. id.ticks <= proc'[id.pid].gen /\ (Alive(id)' => Alive(id))
        BY <1>1, <2>1, DeadStays
    <2>3. Due(id, k) => Due(id, k)'
        BY DEF Due, Struck
    <2>4. QED BY <2>1, <2>2, <2>3
<1>10. ASSUME Sweeping(k), NEW s \in Services
       PROVE  \/ record'[s] = NoRecord
              \/ s \in k.todo
              \/ s = k.svc /\ k.pc \in {"read"} \cup (Lowering \ {"unlink"})
    BY <1>10 DEF Sweeps
<1>11. ASSUME NEW s \in Services
       PROVE  /\ k.pc = "sweeping" => \A p \in Processes(s)' : Id(p)' \in k.found \/ Shielded(p, k)
              /\ k.pc = "sweep" => \A p \in Processes(s)' : Id(p)' \in k.due \cup Struck(k) \/ Shielded(p, k)
              /\ k.pc = "swept" => \A p \in Processes(s)' : Id(p)' \in Struck(k) \/ Shielded(p, k)
    BY <1>3 DEF Sweeps
<1>12. k.pc \in {"sweeping", "sweep", "swept"} => k.todo = {}
    BY DEF Sweeps
<1>13. Sweeps(k)'
    BY <1>9, <1>10, <1>11, <1>12 DEF Sweeps, Sweeping, Struck, Shielded
<1>14. QED BY <1>8, <1>13

\* A command that lowers nothing has nothing to achieve, but what it knew stays dead.
LEMMA AtWork ==
    ASSUME Table, Table', \A p \in Pids : Follows(p),
           NEW k \in Commands, Sweeps(k), NEW new,
           new.pc \notin {"read", "all", "sweeping", "sweep", "swept"} \cup Lowering,
           new.known = {} \/ (new.known = k.known /\ new.sig = k.sig /\ k.pc \notin {"read"} \cup Lowering)
    PROVE  Lowers(new)' /\ Sweeps(new)'
<1>1. Lowers(new)'
    BY DEF Lowers, Lowering
<1>2. ASSUME NEW id \in new.known
      PROVE  id.ticks <= proc'[id.pid].gen /\ (Alive(id)' => id \in Struck(new))
    <2>1. id \in Ids /\ id \in k.known /\ k.pc \notin {"read"} \cup Lowering /\ new.sig = k.sig
        BY <1>2 DEF Commands
    <2>2. id.ticks <= proc[id.pid].gen /\ (Alive(id) => id \in Struck(new))
        BY <2>1 DEF Sweeps, Due, Lowering, Struck
    <2>3. QED BY <2>1, <2>2, DeadStays
<1>3. ~ Sweeping(new)
    BY DEF Sweeping
<1>4. Sweeps(new)'
    BY <1>2, <1>3 DEF Sweeps, Sweeping, Due, Struck
<1>5. QED BY <1>1, <1>4

LEMMA IdleWork ==
    ASSUME Table, Table', \A p \in Pids : Follows(p), NEW k \in Commands, Sweeps(k), NEW out
    PROVE  Lowers(Idle(out))' /\ Sweeps(Idle(out))'
<1>1. PICK new : new = Idle(out)
    OBVIOUS
<1>2. new.pc = "idle" /\ new.known = {}
    BY <1>1 DEF Idle
<1>3. Lowers(new)' /\ Sweeps(new)'
    BY <1>2, AtWork DEF Lowering
<1>4. QED BY <1>1, <1>3

\* Where Goto leads, nothing else is different.
LEMMA GotoIs ==
    ASSUME TypeOK, NEW c \in Clis, NEW pc, Goto(c, pc)
    PROVE  /\ cli'[c].pc = pc /\ cli'[c].op = cli[c].op /\ cli'[c].svc = cli[c].svc
           /\ cli'[c].rec = cli[c].rec /\ cli'[c].found = cli[c].found
           /\ cli'[c].known = cli[c].known /\ cli'[c].todo = cli[c].todo /\ cli'[c].sig = cli[c].sig
           /\ cli'[c].due = cli[c].due
<1>1. cli \in [Clis -> Commands] /\ cli[c] \in Commands
    BY DEF TypeOK
<1>2. cli'[c] = [cli[c] EXCEPT !.pc = pc]
    BY <1>1 DEF Goto
<1>3. QED BY <1>1, <1>2 DEF Commands

\* Nobody survives SIGKILL, and a dead process stays as it is.
LEMMA KillEnds ==
    ASSUME Table, NEW p \in Pids, proc' = Buried({p})
    PROVE  ~ Live(p)'
<1>1. proc[p] \in Entries
    BY DEF Table
<1>2. PICK S : S = Casualties({p})
    OBVIOUS
<1>3. IF p \in S THEN proc'[p].state # "live" ELSE proc'[p] = proc[p]
    BY <1>1, <1>2 DEF Buried, Vacant, Entries
<1>4. p \notin S => ~ Live(p)
    BY <1>2 DEF Casualties
<1>5. QED BY <1>3, <1>4 DEF Live

LEMMA NotThere == ASSUME NEW id \in Ids, ~ SameProcess(id) PROVE ~ Alive(id)
BY NoneAssumption DEF SameProcess, Alive, Live

\* The memory of the only command, before and after one of its steps.
Steps(c, k, new) ==
    /\ Inv /\ Table' /\ NobodyComes
    /\ \A p \in Pids : Follows(p)
    /\ c \in Clis /\ k \in Commands /\ new \in Commands
    /\ cli[c] = k /\ cli'[c] = new
    /\ Lowers(k) /\ Sweeps(k) /\ Staffed

LEMMA StepFacts ==
    ASSUME NEW c, NEW k, NEW new, Steps(c, k, new)
    PROVE  /\ Inv /\ TypeOK /\ Table /\ Table' /\ NobodyComes /\ Staffed /\ \A p \in Pids : Follows(p)
           /\ c \in Clis /\ k \in Commands /\ new \in Commands /\ cli[c] = k /\ cli'[c] = new
           /\ cli \in [Clis -> Commands] /\ record \in [Services -> Records \cup {NoRecord}]
           /\ Lowers(k) /\ Sweeps(k)
BY DEF Steps, Inv, TypeOK

\* Between two signals nothing is on its way.
LEMMA NothingStruck == ASSUME NEW k, k.sig = NoSignal PROVE Struck(k) = {}
BY NobodyAimedAt DEF Struck

\* What holds of the command at its old place holds after the step too.
LEMMA StepLasts ==
    ASSUME NEW c, NEW k, NEW new, Steps(c, k, new),
           k.pc = "read" => record'[k.svc] = record[k.svc],
           \A s \in Services : record'[s] \in {record[s], NoRecord}
    PROVE  Lowers(k)' /\ Sweeps(k)' /\ Remembers(c) /\ Names(k.rec, k.svc)
<1>1. /\ Inv /\ Table' /\ NobodyComes
      /\ \A p \in Pids : Follows(p)
      /\ c \in Clis /\ k \in Commands /\ cli[c] = k
      /\ Lowers(k) /\ Sweeps(k)
    BY DEF Steps
<1>2. Remembers(c) /\ Names(k.rec, k.svc) /\ (k.pc \notin Between => k.svc \in Services)
    BY <1>1 DEF Inv, Remembers
<1>3. Lowers(k)' /\ Sweeps(k)'
    BY <1>1, <1>2, Lasts
<1>4. QED BY <1>2, <1>3

LEMMA FinishStep ==
    ASSUME NEW c, NEW k, NEW new, Steps(c, k, new), NEW out, Finish(c, out), UNCHANGED record,
           k.pc \in {"read", "unlink"}, k.pc = "read" => record[k.svc] = NoRecord, k.sig = NoSignal
    PROVE  Lowers(new)' /\ Sweeps(new)'
<1>1. /\ Table /\ Table' /\ cli \in [Clis -> Commands]
      /\ \A p \in Pids : Follows(p)
      /\ c \in Clis /\ k \in Commands /\ cli[c] = k /\ cli'[c] = new /\ Sweeps(k) /\ Lowers(k)
      /\ record \in [Services -> Records \cup {NoRecord}]
    BY StepFacts
<1>2. CASE k.op = "down"
    <2>1. new = Idle(out)
        BY <1>1, <1>2 DEF Finish, Return
    <2>2. QED BY <1>1, <2>1, IdleWork
<1>3. CASE k.op # "down"
    <2>1. Lowers(k)' /\ Sweeps(k)'
        BY StepLasts DEF Steps, Inv, TypeOK
    <2>2. new = [k EXCEPT !.pc = "all", !.svc = None, !.rec = NoRecord, !.found = {}, !.due = {}]
        BY <1>1, <1>3 DEF Finish
    <2>3. new.pc = "all" /\ new.known = k.known /\ new.todo = k.todo
        BY <1>1, <2>2 DEF Commands
    <2>4. Lowers(new)'
        BY <2>3 DEF Lowers, Lowering
    <2>5. ASSUME NEW id \in new.known
          PROVE  id.ticks <= proc'[id.pid].gen /\ ~ Alive(id)'
        <3>1. id \in Ids /\ id \in k.known
            BY <1>1, <2>3 DEF Commands
        <3>2. ~ Due(id, k)'
            <4>1. Struck(k) = {}
                BY NothingStruck
            <4>2. Struck(k)' = Struck(k)
                BY DEF Struck
            <4>3. QED BY <3>1, <4>1, <4>2, NoneAssumption DEF Due, NoRecord
        <3>3. QED BY <2>1, <3>1, <3>2 DEF Sweeps
    <2>6. ASSUME NEW s \in Services
          PROVE  record'[s] = NoRecord \/ s \in new.todo
        <3>1. Sweeping(k)
            BY <1>3 DEF Sweeping, Lowering
        <3>2. \/ record[s] = NoRecord
              \/ s \in k.todo
              \/ s = k.svc /\ k.pc = "read"
            BY <1>1, <3>1 DEF Sweeps, Lowering
        <3>3. QED BY <2>3, <3>2
    <2>7. Sweeps(new)'
        BY <2>3, <2>5, <2>6 DEF Sweeps
    <2>8. QED BY <2>4, <2>7
<1>4. QED BY <1>2, <1>3

\* The check before a signal: who is not there is dead, and who is there is struck if it
\* is a SIGKILL.
LEMMA AimStep ==
    ASSUME NEW c, NEW k, NEW new, Steps(c, k, new), k.sig = NoSignal,
           NEW id \in {k.rec.pid, k.rec.proxy}, id \in Ids \cup {None},
           NEW name \in {"TERM", "KILL"}, NEW pc, Aims(c, id, name, pc)
    PROVE  /\ new.pc = pc /\ new.op = k.op /\ new.svc = k.svc /\ new.rec = k.rec /\ new.found = k.found
           /\ new.known = k.known /\ new.todo = k.todo
           /\ name = "KILL" \/ ~ SameProcess(id) => (id \in Ids /\ Alive(id)' => id \in Struck(new))
           /\ UNCHANGED <<proc, record>>
<1>1. /\ cli \in [Clis -> Commands] /\ c \in Clis /\ k \in Commands /\ cli[c] = k /\ cli'[c] = new /\ Table
    BY StepFacts
<1>2. PICK sig : sig = Signalling(id, name)
    OBVIOUS
<1>3. new = [k EXCEPT !.sig = sig, !.pc = pc] /\ UNCHANGED <<proc, record>>
    BY <1>1, <1>2 DEF Aims
<1>4. /\ new.pc = pc /\ new.op = k.op /\ new.svc = k.svc /\ new.rec = k.rec /\ new.found = k.found
      /\ new.known = k.known /\ new.todo = k.todo /\ new.sig = sig
    BY <1>1, <1>3 DEF Commands
<1>5. ASSUME id \in Ids, Alive(id)'
      PROVE  SameProcess(id)
    <2>1. Alive(id)
        BY <1>3, <1>5 DEF Alive, Live
    <2>2. QED BY <1>5, <2>1, NotThere
<1>6. name = "KILL" /\ SameProcess(id) => id \in Struck(new)
    BY <1>1, <1>2, <1>4, TargetIs DEF Struck
<1>7. QED BY <1>3, <1>4, <1>5, <1>6

\* After the check for SIGTERM to the recorded process, and for SIGKILL if it stayed.
LEMMA LowerStep ==
    ASSUME NEW c, NEW k, NEW new, Steps(c, k, new), k.sig = NoSignal, DownTerm(c) \/ DownKill(c)
    PROVE  Lowers(new)' /\ Sweeps(new)'
<1>1. /\ c \in Clis /\ k \in Commands /\ cli[c] = k /\ Lowers(k)
    BY StepFacts
<1>2. k.pc \in {"term", "grace"}
    BY <1>1 DEF DownTerm, DownKill, At
<1>3. k.rec.pid \in Ids /\ k.rec \in Records
    BY <1>1, <1>2 DEF Lowers, Lowering, Records
<1>4. PICK name \in {"TERM", "KILL"}, pc \in {"grace", "proxy"} :
          /\ Aims(c, k.rec.pid, name, pc)
          /\ pc = "proxy" => name = "KILL" \/ ~ SameProcess(k.rec.pid)
    BY <1>1 DEF DownTerm, DownKill
<1>5. /\ new.pc = pc /\ new.op = k.op /\ new.svc = k.svc /\ new.rec = k.rec /\ new.known = k.known /\ new.todo = k.todo
      /\ UNCHANGED record
      /\ pc = "proxy" => (Alive(k.rec.pid)' => k.rec.pid \in Struck(new))
    <2>1. /\ new.pc = pc /\ new.op = k.op /\ new.svc = k.svc /\ new.rec = k.rec /\ new.known = k.known
          /\ new.todo = k.todo /\ UNCHANGED record
          /\ name = "KILL" \/ ~ SameProcess(k.rec.pid) =>
                (k.rec.pid \in Ids /\ Alive(k.rec.pid)' => k.rec.pid \in Struck(new))
        <3>1. k.rec.pid \in Ids \cup {None} /\ k.rec.pid \in {k.rec.pid, k.rec.proxy}
            BY <1>3
        <3>2. Aims(c, k.rec.pid, name, pc)
            BY <1>4
        <3>3. QED BY <3>1, <3>2, AimStep
    <2>2. QED BY <1>3, <1>4, <2>1
<1>6. Lowers(k)' /\ Sweeps(k)'
    BY <1>2, <1>5, StepLasts
<1>7. Struck(new)' = Struck(new) /\ Struck(k)' = {}
    BY NothingStruck DEF Struck
<1>8. Lowers(new)'
    BY <1>3, <1>4, <1>5, <1>7 DEF Lowers
<1>9. ASSUME NEW id \in new.known
      PROVE  id.ticks <= proc'[id.pid].gen /\ (Alive(id)' => Due(id, new)')
    <2>1. id.ticks <= proc'[id.pid].gen /\ (Alive(id)' => Due(id, k)')
        BY <1>5, <1>6 DEF Sweeps
    <2>2. Due(id, k)' => id \in {k.rec.pid, k.rec.proxy}
        BY <1>2, <1>7 DEF Due
    <2>3. QED BY <1>4, <1>5, <1>7, <2>1, <2>2 DEF Due
<1>10. Sweeping(new) => Sweeping(k)
    BY <1>2, <1>4, <1>5 DEF Sweeping, Lowering
<1>11. Sweeps(new)'
    BY <1>2, <1>4, <1>5, <1>6, <1>9, <1>10 DEF Sweeps, Sweeping, Lowering
<1>12. QED BY <1>8, <1>11

\* The same for the recorded forwarder, when there is one.
LEMMA LowerProxyStep ==
    ASSUME NEW c, NEW k, NEW new, Steps(c, k, new), k.sig = NoSignal, DownProxyTerm(c) \/ DownProxyKill(c)
    PROVE  Lowers(new)' /\ Sweeps(new)'
<1>1. /\ c \in Clis /\ k \in Commands /\ cli[c] = k /\ Lowers(k)
    BY StepFacts
<1>2. k.pc \in {"proxy", "proxyGrace"}
    BY <1>1 DEF DownProxyTerm, DownProxyKill, At
<1>3. k.rec.proxy \in Ids \cup {None} /\ k.rec \in Records
    BY <1>1, <1>2 DEF Lowers, Lowering, Records
<1>4. PICK name \in {"TERM", "KILL"}, pc \in {"proxyGrace", "scan"} :
          /\ Aims(c, k.rec.proxy, name, pc)
          /\ pc = "scan" => name = "KILL" \/ ~ SameProcess(k.rec.proxy)
    BY <1>1 DEF DownProxyTerm, DownProxyKill
<1>5. /\ new.pc = pc /\ new.op = k.op /\ new.svc = k.svc /\ new.rec = k.rec /\ new.known = k.known /\ new.todo = k.todo
      /\ UNCHANGED record
      /\ pc = "scan" => (k.rec.proxy \in Ids /\ Alive(k.rec.proxy)' => k.rec.proxy \in Struck(new))
    BY <1>3, <1>4, AimStep
<1>6. Lowers(k)' /\ Sweeps(k)'
    BY <1>2, <1>5, StepLasts
<1>7. Struck(new)' = Struck(new) /\ Struck(k)' = {}
    BY NothingStruck DEF Struck
<1>8. ~ Alive(new.rec.pid)'
    BY <1>2, <1>5, <1>6, <1>7 DEF Lowers, Lowering
<1>9. Lowers(new)'
    BY <1>3, <1>4, <1>5, <1>8 DEF Lowers
<1>10. ASSUME NEW id \in new.known
      PROVE  id.ticks <= proc'[id.pid].gen /\ (Alive(id)' => Due(id, new)')
    <2>1. id.ticks <= proc'[id.pid].gen /\ (Alive(id)' => Due(id, k)') /\ id \in Ids
        BY <1>1, <1>5, <1>6 DEF Sweeps, Commands
    <2>2. Due(id, k)' => id = k.rec.proxy
        BY <1>2, <1>7 DEF Due
    <2>3. QED BY <1>4, <1>5, <1>7, <2>1, <2>2 DEF Due
<1>11. Sweeping(new) => Sweeping(k)
    BY <1>2, <1>4, <1>5 DEF Sweeping, Lowering
<1>12. Sweeps(new)'
    BY <1>2, <1>4, <1>5, <1>6, <1>10, <1>11 DEF Sweeps, Sweeping, Lowering
<1>13. QED BY <1>9, <1>12

\* What a scan changes.
LEMMA FindStep ==
    ASSUME NEW c, NEW k, NEW new, Steps(c, k, new), NEW P, NEW ask, NEW done, Finds(c, P, ask, done)
    PROVE  /\ new.op = k.op /\ new.svc = k.svc /\ new.rec = k.rec /\ new.known = k.known /\ new.todo = k.todo
           /\ new.sig = k.sig /\ new.found = {Id(p) : p \in P} /\ new.pc = IF P = {} THEN done ELSE ask
           /\ UNCHANGED <<proc, record>>
<1>1. /\ cli \in [Clis -> Commands] /\ c \in Clis /\ k \in Commands /\ cli[c] = k /\ cli'[c] = new
    BY StepFacts
<1>2. PICK found, pc : found = {Id(p) : p \in P} /\ pc = IF P = {} THEN done ELSE ask
    OBVIOUS
<1>3. new = [k EXCEPT !.found = found, !.due = found, !.pc = pc] /\ UNCHANGED <<proc, record>>
    BY <1>1, <1>2 DEF Finds
<1>4. QED BY <1>1, <1>2, <1>3 DEF Commands

\* What a turn of the SIGTERM loop changes: at its end all found ones are due again.
LEMMA AskStep ==
    ASSUME NEW c, NEW k, NEW new, Steps(c, k, new), NEW ask, NEW insist, Asks(c, ask, insist)
    PROVE  /\ new.op = k.op /\ new.svc = k.svc /\ new.rec = k.rec /\ new.known = k.known /\ new.todo = k.todo
           /\ new.found = k.found /\ (new.pc = ask \/ (new.pc = insist /\ new.due = k.found))
           /\ k.pc = ask /\ UNCHANGED <<proc, record>>
           /\ Struck(new) = {}
<1>1. /\ cli \in [Clis -> Commands] /\ c \in Clis /\ k \in Commands /\ cli[c] = k /\ cli'[c] = new /\ Table
    BY StepFacts
<1>2. PICK id \in k.due :
          cli' = [cli EXCEPT ![c].sig = Signalling(id, "TERM"),
                             ![c].due = IF @ = {id} THEN k.found ELSE @ \ {id},
                             ![c].pc = IF k.due = {id} THEN insist ELSE ask]
    BY <1>1 DEF Asks
<1>3. PICK sig, due, pc : /\ sig = Signalling(id, "TERM")
                          /\ due = IF k.due = {id} THEN k.found ELSE k.due \ {id}
                          /\ pc = IF k.due = {id} THEN insist ELSE ask
    OBVIOUS
<1>4. new = [k EXCEPT !.sig = sig, !.due = due, !.pc = pc]
    BY <1>1, <1>2, <1>3
<1>5. /\ new.op = k.op /\ new.svc = k.svc /\ new.rec = k.rec /\ new.known = k.known /\ new.todo = k.todo
      /\ new.found = k.found /\ new.due = due /\ new.sig = sig /\ new.pc = pc
    BY <1>1, <1>4 DEF Commands
<1>6. k.pc = ask /\ UNCHANGED <<proc, record>>
    BY <1>1 DEF Asks, At
<1>7. id \in Ids
    BY <1>1, <1>2 DEF Commands
<1>8. sig.name # "KILL"
    BY <1>1, <1>3, <1>7, TargetIs, NobodyAimedAt
<1>9. Struck(new) = {}
    BY <1>5, <1>8 DEF Struck
<1>10. new.pc = ask \/ (new.pc = insist /\ new.due = k.found)
    BY <1>3, <1>5
<1>11. QED BY <1>5, <1>6, <1>9, <1>10

\* What a turn of the SIGKILL loop changes: the one it looked at is struck, or dead.
LEMMA InsistStep ==
    ASSUME NEW c, NEW k, NEW new, Steps(c, k, new), NEW insist, NEW done, Insists(c, insist, done)
    PROVE  /\ new.op = k.op /\ new.svc = k.svc /\ new.rec = k.rec /\ new.known = k.known /\ new.todo = k.todo
           /\ k.pc = insist /\ UNCHANGED <<proc, record>>
           /\ new.pc = insist \/ (new.pc = done /\ new.due = {})
           /\ \A p \in Pids : Live(p)' /\ Id(p)' \in k.due => Id(p)' \in new.due \cup Struck(new)
<1>1. /\ cli \in [Clis -> Commands] /\ c \in Clis /\ k \in Commands /\ cli[c] = k /\ cli'[c] = new /\ Table
    BY StepFacts
<1>2. PICK id \in k.due :
          cli' = [cli EXCEPT ![c].sig = Signalling(id, "KILL"),
                             ![c].due = @ \ {id},
                             ![c].pc = IF k.due = {id} THEN done ELSE insist]
    BY <1>1 DEF Insists
<1>3. PICK sig, due, pc : /\ sig = Signalling(id, "KILL")
                          /\ due = k.due \ {id}
                          /\ pc = IF k.due = {id} THEN done ELSE insist
    OBVIOUS
<1>4. new = [k EXCEPT !.sig = sig, !.due = due, !.pc = pc]
    BY <1>1, <1>2, <1>3
<1>5. /\ new.op = k.op /\ new.svc = k.svc /\ new.rec = k.rec /\ new.known = k.known /\ new.todo = k.todo
      /\ new.due = due /\ new.sig = sig /\ new.pc = pc
    BY <1>1, <1>4 DEF Commands
<1>6. k.pc = insist /\ UNCHANGED <<proc, record>>
    BY <1>1 DEF Insists, At
<1>7. id \in Ids
    BY <1>1, <1>2 DEF Commands
<1>8. ASSUME NEW p \in Pids, Live(p)', Id(p)' = id
      PROVE  id \in Struck(new)
    <2>1. Live(p) /\ Id(p) = id
        BY <1>6, <1>8 DEF Live, Id
    <2>2. Alive(id)
        BY <2>1 DEF Alive, Id
    <2>3. SameProcess(id)
        BY <1>7, <2>2, NotThere
    <2>4. sig.target = id /\ sig.name = "KILL"
        BY <1>1, <1>3, <1>7, <2>3, TargetIs
    <2>5. QED BY <1>5, <2>4 DEF Struck
<1>9. \A p \in Pids : Live(p)' /\ Id(p)' \in k.due => Id(p)' \in new.due \cup Struck(new)
    BY <1>3, <1>5, <1>8
<1>10. QED BY <1>3, <1>5, <1>6, <1>9

\* The scan finds every process of the service, but for whoever has the recorded number,
\* and what it has found does not survive.
LEMMA StragglersStep ==
    ASSUME NEW c, NEW k, NEW new, Steps(c, k, new), k.sig = NoSignal,
           DownScan(c) \/ Asks(c, "asking", "stragglers") \/ Insists(c, "stragglers", "forget")
    PROVE  Lowers(new)' /\ Sweeps(new)'
<1>1. /\ Table /\ Table' /\ NobodyComes /\ Staffed /\ \A p \in Pids : Follows(p)
      /\ c \in Clis /\ k \in Commands /\ cli[c] = k /\ Lowers(k)
    BY StepFacts
<1>2. k.pc \in {"scan", "asking", "stragglers"}
    BY <1>1 DEF DownScan, Asks, Insists, At
<1>3. UNCHANGED record
    BY DEF DownScan, Finds, Asks, Insists
<1>4. Lowers(k)' /\ Sweeps(k)' /\ Remembers(c) /\ Lowers(k)
    BY <1>1, <1>2, <1>3, StepLasts
<1>5. k.rec \in Records /\ k.svc \in Services
    BY <1>1, <1>2, <1>4 DEF Lowers, Lowering, Remembers, Between
<1>6. Struck(k)' = {} /\ Struck(k) = {} /\ Struck(new)' = Struck(new)
    BY NothingStruck DEF Struck
<1>7. ASSUME NEW p \in Processes(k.svc)'
      PROVE  /\ p \in Processes(k.svc) /\ Id(p)' = Id(p) /\ proc[p].role \in {"outer", "inner", "forwarder"}
             /\ p \in Pids /\ Live(p)'
    <2>1. p \in Pids /\ Live(p)' /\ proc'[p].svc = k.svc
        BY <1>7 DEF Processes
    <2>2. Live(p) /\ proc[p].svc = k.svc /\ Id(p)' = Id(p)
        BY <1>1, <1>5, <2>1, ProcessStays
    <2>3. proc[p].role \in {"outer", "inner", "forwarder"}
        BY <1>1, <1>5, <2>1, <2>2 DEF Staffed
    <2>4. p \in Processes(k.svc)
        BY <2>1, <2>2 DEF Processes
    <2>5. QED BY <2>1, <2>2, <2>3, <2>4
<1>8. ~ Alive(k.rec.pid)'
    BY <1>2, <1>4, <1>6 DEF Lowers, Lowering
<1>9. /\ new.op = k.op /\ new.svc = k.svc /\ new.rec = k.rec /\ new.known = k.known /\ new.todo = k.todo
      /\ new.pc \in {"asking", "stragglers", "forget"}
    <2>1. CASE DownScan(c)
        <3>1. PICK P : Finds(c, P, "asking", "forget")
            BY <2>1 DEF DownScan
        <3>2. QED BY <3>1, FindStep
    <2>2. CASE Asks(c, "asking", "stragglers")
        BY <2>2, AskStep
    <2>3. CASE Insists(c, "stragglers", "forget")
        BY <2>3, InsistStep
    <2>4. QED BY <2>1, <2>2, <2>3
<1>10. ASSUME DownScan(c)
       PROVE  Lowers(new)'
    <2>1. PICK P : /\ P = {q \in Orphans({k.rec.pid.pid}) : BelongsToService(q, k.svc)}
                   /\ Finds(c, P, "asking", "forget")
        BY <1>1, <1>10 DEF DownScan
    <2>2. /\ new.found = {Id(p) : p \in P} /\ new.pc = IF P = {} THEN "forget" ELSE "asking"
        BY <2>1, FindStep
    <2>3. ASSUME NEW p \in Processes(k.svc)', p # k.rec.pid.pid
          PROVE  Id(p)' \in new.found /\ P # {}
        <3>1. p \in Orphans({k.rec.pid.pid}) /\ BelongsToService(p, k.svc)
            BY <1>7, <2>3 DEF Processes, Orphans, BelongsToService
        <3>2. Id(p)' = Id(p)
            BY <1>7, <2>3
        <3>3. QED BY <2>1, <2>2, <3>1, <3>2
    <2>4. \A p \in Processes(new.svc)' : p = new.rec.pid.pid \/ (Id(p)' \in new.found /\ new.pc = "asking")
        BY <1>9, <2>2, <2>3
    <2>5. QED BY <1>5, <1>8, <1>9, <2>2, <2>4 DEF Lowers
<1>11. ASSUME Asks(c, "asking", "stragglers")
       PROVE  Lowers(new)'
    <2>1. /\ new.found = k.found /\ (new.pc = "asking" \/ (new.pc = "stragglers" /\ new.due = k.found))
          /\ k.pc = "asking"
        BY <1>11, AskStep
    <2>2. \A p \in Processes(k.svc)' : Id(p)' \in k.found \/ p = k.rec.pid.pid
        BY <1>4, <2>1 DEF Lowers
    <2>3. QED BY <1>5, <1>8, <1>9, <2>1, <2>2 DEF Lowers
<1>12. ASSUME Insists(c, "stragglers", "forget")
       PROVE  Lowers(new)'
    <2>1. /\ new.pc = "stragglers" \/ (new.pc = "forget" /\ new.due = {})
          /\ k.pc = "stragglers"
          /\ \A p \in Pids : Live(p)' /\ Id(p)' \in k.due => Id(p)' \in new.due \cup Struck(new)
        BY <1>12, InsistStep
    <2>2. \A p \in Processes(k.svc)' : Id(p)' \in k.due \/ p = k.rec.pid.pid
        BY <1>4, <1>6, <2>1 DEF Lowers
    <2>3. \A p \in Processes(new.svc)' : Id(p)' \in new.due \cup Struck(new) \/ p = new.rec.pid.pid
        BY <1>7, <1>9, <2>1, <2>2
    <2>4. QED BY <1>5, <1>6, <1>8, <1>9, <2>1, <2>3 DEF Lowers
<1>13. Lowers(new)'
    BY <1>10, <1>11, <1>12
<1>14. ASSUME NEW id \in new.known
       PROVE  id.ticks <= proc'[id.pid].gen /\ ~ Alive(id)'
    <2>1. ~ Due(id, k)'
        BY <1>2, <1>6 DEF Due
    <2>2. QED BY <1>4, <1>9, <2>1 DEF Sweeps
<1>15. Sweeping(new) => Sweeping(k)
    BY <1>2, <1>9 DEF Sweeping, Lowering
<1>16. Sweeps(new)'
    BY <1>2, <1>4, <1>9, <1>14, <1>15 DEF Sweeps, Sweeping, Lowering
<1>17. QED BY <1>13, <1>16

\* A signal arrives: whom a SIGKILL was on its way to is dead after the second one.
LEMMA SignalStep ==
    ASSUME NEW c, NEW k, NEW new, Steps(c, k, new), SendsSignal(c)
    PROVE  Lowers(new)' /\ Sweeps(new)'
<1>1. /\ Table /\ Table' /\ NobodyComes /\ Staffed /\ \A p \in Pids : Follows(p)
      /\ c \in Clis /\ k \in Commands /\ cli[c] = k /\ cli'[c] = new /\ cli \in [Clis -> Commands]
      /\ UNCHANGED record
    BY StepFacts DEF SendsSignal
<1>2. Lowers(k)' /\ Sweeps(k)'
    BY <1>1, StepLasts
<1>3. k.sig \in Signals
    BY <1>1, Silence DEF SendsSignal
<1>4. PICK sig : sig = IF k.sig.left = 2 THEN [k.sig EXCEPT !.left = 1] ELSE NoSignal
    OBVIOUS
<1>5. new = [k EXCEPT !.sig = sig]
    BY <1>1, <1>4 DEF SendsSignal
<1>6. /\ new.pc = k.pc /\ new.op = k.op /\ new.svc = k.svc /\ new.rec = k.rec /\ new.known = k.known
      /\ new.todo = k.todo /\ new.found = k.found /\ new.due = k.due /\ new.sig = sig
    BY <1>1, <1>5 DEF Commands
<1>7. PICK id : id = k.sig.target /\ id \in Ids
    BY <1>3 DEF Signals
<1>8. CASE Struck(new) = Struck(k)
    <2>1. Lowers(new)'
        BY <1>2, <1>6, <1>8 DEF Lowers, Struck
    <2>2. Sweeps(new)'
        BY <1>2, <1>6, <1>8 DEF Sweeps, Sweeping, Due, Struck, Shielded
    <2>3. QED BY <2>1, <2>2
<1>9. CASE Struck(new) # Struck(k)
    <2>1. k.sig.left # 2 /\ k.sig.name = "KILL" /\ Struck(k) = {id} /\ Struck(new) = {}
        BY <1>3, <1>4, <1>6, <1>7, <1>9, NobodyAimedAt DEF Struck, Signals
    <2>2. proc' = Buried({id.pid}) /\ id.pid \in Pids
        BY <1>1, <1>7, <2>1 DEF SendsSignal, Ids
    <2>3. ~ Live(id.pid)'
        BY <1>1, <2>2, KillEnds
    <2>4. ~ Alive(id)'
        BY <2>3 DEF Alive
    <2>5. \A p \in Pids : Live(p)' => Id(p)' # id
        BY <2>3 DEF Id
    <2>6. Struck(k)' = {id} /\ Struck(new)' = {}
        BY <2>1 DEF Struck
    <2>7. \A s : \A p \in Processes(s)' : Id(p)' \notin Struck(k)
        BY <2>1, <2>5 DEF Processes
    <2>8. Lowers(new)'
        BY <1>2, <1>6, <2>1, <2>4, <2>6, <2>7 DEF Lowers
    <2>9. \A i : Alive(i)' /\ Due(i, k)' => Due(i, new)'
        BY <1>6, <2>4, <2>6 DEF Due
    <2>10. Sweeps(new)'
        BY <1>2, <1>6, <2>1, <2>6, <2>7, <2>9 DEF Sweeps, Sweeping, Shielded
    <2>11. QED BY <2>8, <2>10
<1>10. QED BY <1>8, <1>9

\* The record is removed last, but for the socket.
LEMMA ForgetStep ==
    ASSUME NEW c, NEW k, NEW new, Steps(c, k, new), k.sig = NoSignal, DownForget(c)
    PROVE  Lowers(new)' /\ Sweeps(new)'
<1>1. /\ TypeOK /\ c \in Clis /\ k \in Commands /\ cli[c] = k /\ cli'[c] = new
      /\ record \in [Services -> Records \cup {NoRecord}]
    BY StepFacts
<1>2. k.pc = "forget" /\ record' = [record EXCEPT ![k.svc] = NoRecord]
    BY <1>1 DEF DownForget, At
<1>3. \A s \in Services : record'[s] \in {record[s], NoRecord}
    BY <1>1, <1>2
<1>4. Lowers(k)' /\ Sweeps(k)' /\ Remembers(c)
    BY <1>2, <1>3, StepLasts
<1>5. k.svc \in Services
    BY <1>1, <1>2, <1>4 DEF Remembers, Between
<1>6. /\ new.op = k.op /\ new.svc = k.svc /\ new.rec = k.rec /\ new.known = k.known /\ new.todo = k.todo
      /\ new.pc = "unlink" /\ Struck(new)' = Struck(k)' /\ Struck(k)' = {}
    BY <1>1, GotoIs, NothingStruck DEF DownForget, Struck
<1>7. record'[k.svc] = NoRecord
    BY <1>1, <1>2, <1>5
<1>8. Lowers(new)'
    BY <1>2, <1>4, <1>6, <1>7 DEF Lowers, Lowering
<1>9. ASSUME NEW id \in new.known
      PROVE  id.ticks <= proc'[id.pid].gen /\ ~ Alive(id)'
    BY <1>2, <1>4, <1>6 DEF Sweeps, Due
<1>10. Sweeping(new) => Sweeping(k)
    BY <1>2, <1>6 DEF Sweeping, Lowering
<1>11. Sweeps(new)'
    BY <1>2, <1>4, <1>6, <1>7, <1>9, <1>10 DEF Sweeps, Sweeping, Lowering
<1>12. QED BY <1>8, <1>11

\* A service with a record is lowered by what the record names.
LEMMA ReadStep ==
    ASSUME NEW c, NEW k, NEW new, Steps(c, k, new), k.sig = NoSignal, DownRead(c)
    PROVE  Lowers(new)' /\ Sweeps(new)'
<1>1. /\ c \in Clis /\ k \in Commands /\ cli[c] = k /\ cli'[c] = new /\ cli \in [Clis -> Commands]
      /\ record \in [Services -> Records \cup {NoRecord}] /\ UNCHANGED record /\ k.pc = "read"
    BY StepFacts DEF DownRead, At
<1>2. CASE record[k.svc] = NoRecord
    BY <1>1, <1>2, FinishStep DEF DownRead
<1>3. CASE record[k.svc] # NoRecord
    <2>1. Lowers(k)' /\ Sweeps(k)' /\ Remembers(c)
        BY <1>1, StepLasts
    <2>2. k.svc \in Services
        BY <1>1, <2>1 DEF Remembers, Between
    <2>3. new = [k EXCEPT !.rec = record[k.svc], !.pc = "term"]
        BY <1>1, <1>3 DEF DownRead
    <2>4. /\ new.op = k.op /\ new.svc = k.svc /\ new.known = k.known /\ new.todo = k.todo
          /\ new.pc = "term" /\ new.rec = record[k.svc]
        BY <1>1, <2>3 DEF Commands
    <2>5. Lowers(new)'
        BY <1>1, <1>3, <2>2, <2>4 DEF Lowers
    <2>6. \A id : Due(id, k)' => Due(id, new)'
        <3>1. Struck(k)' = {}
            BY NothingStruck DEF Struck
        <3>2. QED BY <1>1, <2>4, <3>1 DEF Due
    <2>7. Sweeping(new) => Sweeping(k)
        BY <1>1, <2>4 DEF Sweeping
    <2>8. Sweeps(new)'
        BY <1>1, <2>1, <2>4, <2>6, <2>7 DEF Sweeps, Sweeping, Lowering
    <2>9. QED BY <2>5, <2>8
<1>4. QED BY <1>2, <1>3

\* The next service; what its record names is known from here on.
LEMMA NextStep ==
    ASSUME NEW c, NEW k, NEW new, Steps(c, k, new), k.sig = NoSignal, AllNext(c)
    PROVE  Lowers(new)' /\ Sweeps(new)'
<1>1. /\ c \in Clis /\ k \in Commands /\ cli[c] = k /\ cli'[c] = new /\ cli \in [Clis -> Commands]
      /\ record \in [Services -> Records \cup {NoRecord}] /\ UNCHANGED record /\ k.pc = "all"
      /\ Table /\ Table' /\ \A p \in Pids : Follows(p)
      /\ \A s \in Services : Names(record[s], s)
    BY DEF Steps, Inv, TypeOK, AllNext, At
<1>2. Lowers(k)' /\ Sweeps(k)' /\ Remembers(c)
    BY <1>1, StepLasts
<1>3. PICK s \in k.todo : new =
            IF record[s] = NoRecord THEN [k EXCEPT !.todo = k.todo \ {s}]
            ELSE [k EXCEPT !.todo = k.todo \ {s}, !.svc = s, !.pc = "read",
                    !.known = k.known \cup ({record[s].pid, record[s].proxy} \ {None})]
    BY <1>1 DEF AllNext
<1>4. s \in Services /\ k.svc = None /\ None \notin Services
    BY <1>1, <1>2, NoneAssumption DEF Commands, Remembers, At
<1>5. \A t \in Services : record[t] = NoRecord \/ t \in k.todo
    BY <1>1, <1>2, <1>4 DEF Sweeps, Sweeping
<1>6. \A id \in k.known : id.ticks <= proc'[id.pid].gen /\ ~ Alive(id)'
    <2>1. Struck(k)' = {}
        BY NothingStruck DEF Struck
    <2>2. QED BY <1>1, <1>2, <2>1 DEF Sweeps, Due
<1>7. CASE record[s] = NoRecord
    <2>1. new.pc = "all" /\ new.known = k.known /\ new.todo = k.todo \ {s}
        BY <1>1, <1>3, <1>7 DEF Commands
    <2>2. Lowers(new)'
        BY <2>1 DEF Lowers, Lowering
    <2>3. QED BY <1>1, <1>5, <1>6, <1>7, <2>1, <2>2 DEF Sweeps
<1>8. CASE record[s] # NoRecord
    <2>1. /\ new.pc = "read" /\ new.svc = s /\ new.todo = k.todo \ {s}
          /\ new.known = k.known \cup ({record[s].pid, record[s].proxy} \ {None})
        BY <1>1, <1>3, <1>8 DEF Commands
    <2>2. Lowers(new)'
        BY <2>1 DEF Lowers, Lowering
    <2>3. ASSUME NEW id \in {record[s].pid, record[s].proxy} \ {None}
          PROVE  id.ticks <= proc'[id.pid].gen
        <3>1. id \in Ids /\ id.ticks <= proc[id.pid].gen
            BY <1>1, <1>4, <1>8 DEF Records, Names, KnownTo
        <3>2. QED BY <1>1, <3>1, DeadStays
    <2>4. ASSUME NEW id \in new.known
          PROVE  id.ticks <= proc'[id.pid].gen /\ (Alive(id)' => Due(id, new)')
        <3>1. CASE id \in k.known
            BY <1>6, <3>1
        <3>2. CASE id \in {record[s].pid, record[s].proxy} \ {None}
            BY <1>1, <2>1, <2>3, <3>2 DEF Due
        <3>3. QED BY <2>1, <3>1, <3>2
    <2>5. QED BY <1>1, <1>5, <2>1, <2>2, <2>4 DEF Sweeps
<1>9. QED BY <1>7, <1>8

\* The sweep finds every process of every service, but for whoever has a recorded number,
\* and what it has found does not survive.
LEMMA SweepStep ==
    ASSUME NEW c, NEW k, NEW new, Steps(c, k, new), k.sig = NoSignal,
           AllScan(c) \/ Asks(c, "sweeping", "sweep") \/ Insists(c, "sweep", "swept")
    PROVE  Lowers(new)' /\ Sweeps(new)'
<1>1. /\ Table /\ Table' /\ NobodyComes /\ Staffed /\ \A p \in Pids : Follows(p)
      /\ c \in Clis /\ k \in Commands /\ cli[c] = k /\ Sweeps(k)
    BY StepFacts
<1>2. k.pc \in {"all", "sweeping", "sweep"}
    BY <1>1 DEF AllScan, Asks, Insists, At
<1>3. UNCHANGED record
    BY DEF AllScan, Finds, Asks, Insists
<1>4. Lowers(k)' /\ Sweeps(k)'
    BY <1>2, <1>3, StepLasts
<1>5. Struck(k)' = {} /\ Struck(k) = {} /\ Struck(new)' = Struck(new)
    BY NothingStruck DEF Struck
<1>6. \A id \in k.known : id.ticks <= proc'[id.pid].gen /\ ~ Alive(id)'
    BY <1>2, <1>4, <1>5 DEF Sweeps, Due
<1>7. ASSUME NEW s \in Services, NEW p \in Processes(s)'
      PROVE  /\ p \in Processes(s) /\ Id(p)' = Id(p) /\ proc[p].role \in {"outer", "inner", "forwarder"}
             /\ p \in Pids /\ Live(p)'
    <2>1. p \in Pids /\ Live(p)' /\ proc'[p].svc = s
        BY <1>7 DEF Processes
    <2>2. Live(p) /\ proc[p].svc = s /\ Id(p)' = Id(p)
        BY <1>1, <2>1, ProcessStays
    <2>3. proc[p].role \in {"outer", "inner", "forwarder"}
        BY <1>1, <2>1, <2>2 DEF Staffed
    <2>4. p \in Processes(s)
        BY <2>1, <2>2 DEF Processes
    <2>5. QED BY <2>1, <2>2, <2>3, <2>4
<1>8. \A s \in Services : record'[s] = NoRecord \/ s \in k.todo
    BY <1>2, <1>4 DEF Sweeps, Sweeping, Lowering
<1>9. k.todo = {}
    BY <1>1, <1>2 DEF AllScan, Asks, Insists, At, Sweeps
<1>10. CASE AllScan(c)
    <2>1. PICK P : P = Orphans({id.pid : id \in k.known}) /\ Finds(c, P, "sweeping", "swept")
        BY <1>1, <1>10 DEF AllScan
    <2>2. /\ new.known = k.known /\ new.todo = k.todo /\ new.found = {Id(p) : p \in P}
          /\ new.pc = IF P = {} THEN "swept" ELSE "sweeping"
        <3>1. Finds(c, P, "sweeping", "swept")
            BY <2>1
        <3>2. QED BY <3>1, FindStep
    <2>3. ASSUME NEW s \in Services, NEW p \in Processes(s)', ~ Shielded(p, k)
          PROVE  Id(p)' \in new.found /\ P # {}
        <3>1. p \in Orphans({id.pid : id \in k.known})
            BY <1>7, <2>3 DEF Processes, Orphans, Shielded
        <3>2. Id(p)' = Id(p)
            BY <1>7, <2>3
        <3>3. QED BY <2>1, <2>2, <3>1, <3>2
    <2>4. Lowers(new)'
        BY <2>2 DEF Lowers, Lowering
    <2>5. \A s \in Services : \A p \in Processes(s)' :
              Shielded(p, new) \/ (Id(p)' \in new.found /\ new.pc = "sweeping")
        BY <2>2, <2>3 DEF Shielded
    <2>6. Sweeps(new)'
        BY <1>6, <1>8, <1>9, <2>2, <2>5 DEF Sweeps, Shielded
    <2>7. QED BY <2>4, <2>6
<1>11. CASE Asks(c, "sweeping", "sweep")
    <2>1. /\ new.known = k.known /\ new.todo = k.todo /\ new.found = k.found /\ k.pc = "sweeping"
          /\ new.pc = "sweeping" \/ (new.pc = "sweep" /\ new.due = k.found)
        BY <1>11, AskStep
    <2>2. Lowers(new)'
        BY <2>1 DEF Lowers, Lowering
    <2>3. \A s \in Services : \A p \in Processes(s)' : Id(p)' \in k.found \/ Shielded(p, new)
        BY <1>4, <2>1 DEF Sweeps, Shielded
    <2>4. Sweeps(new)'
        BY <1>6, <1>8, <1>9, <2>1, <2>3 DEF Sweeps, Shielded
    <2>5. QED BY <2>2, <2>4
<1>12. CASE Insists(c, "sweep", "swept")
    <2>1. /\ new.known = k.known /\ new.todo = k.todo /\ k.pc = "sweep"
          /\ new.pc = "sweep" \/ (new.pc = "swept" /\ new.due = {})
          /\ \A p \in Pids : Live(p)' /\ Id(p)' \in k.due => Id(p)' \in new.due \cup Struck(new)
        BY <1>12, InsistStep
    <2>2. Lowers(new)'
        BY <2>1 DEF Lowers, Lowering
    <2>3. \A s \in Services : \A p \in Processes(s)' : Id(p)' \in k.due \/ Shielded(p, new)
        BY <1>4, <1>5, <2>1 DEF Sweeps, Shielded
    <2>4. \A s \in Services : \A p \in Processes(s)' : Id(p)' \in new.due \cup Struck(new) \/ Shielded(p, new)
        BY <1>7, <2>1, <2>3
    <2>5. Sweeps(new)'
        BY <1>5, <1>6, <1>8, <1>9, <2>1, <2>4 DEF Sweeps, Shielded
    <2>6. QED BY <2>2, <2>5
<1>13. QED BY <1>10, <1>11, <1>12

LEMMA DownWorks ==
    ASSUME NEW c, NEW k, NEW new, Steps(c, k, new), Down(c)
    PROVE  Lowers(new)' /\ Sweeps(new)'
<1>1. CASE SendsSignal(c)
    BY <1>1, SignalStep
<1>2. CASE ~ SendsSignal(c)
    <2>1. k.sig = NoSignal
        BY <1>2, Silence DEF Down, Steps
    <2>2. CASE DownUnlink(c)
        BY <2>1, <2>2, FinishStep DEF DownUnlink, Steps, At
    <2>3. CASE AllDone(c)
        <3>1. new = Idle("swept")
            BY <2>3 DEF AllDone, Return, Steps, Inv, TypeOK
        <3>2. QED BY <3>1, IdleWork DEF Steps, Inv
    <2>4. QED BY <1>2, <2>1, <2>2, <2>3, LowerStep, LowerProxyStep, StragglersStep, ForgetStep, ReadStep,
                 NextStep, SweepStep DEF Down
<1>3. QED BY <1>1, <1>2

LEMMA UpWorks ==
    ASSUME TypeOK, Table, Table', \A p \in Pids : Follows(p), NEW c \in Clis, Sweeps(cli[c]), Up(c)
    PROVE  \E new : new = cli'[c] /\ Lowers(new)' /\ Sweeps(new)'
<1>1. PICK k \in Commands : k = cli[c]
    BY DEF TypeOK
<1>2. cli \in [Clis -> Commands] /\ Sweeps(k)
    BY <1>1 DEF TypeOK
<1>3. PICK new : new = cli'[c]
    OBVIOUS
<1>4. k.pc \in {"observe", "clean", "port", "spawn", "forward", "record", "ready"}
    BY <1>1 DEF Up, UpObserve, UpClean, UpBusy, UpUnlink, UpFails, UpSpawn, UpForward, UpRecord, UpReady, UpDied,
                UpSleep, UpTimeout, At
<1>5. CASE \E out : Return(c, out)
    <2>1. PICK out : new = Idle(out)
        BY <1>2, <1>3, <1>5 DEF Return
    <2>2. QED BY <1>2, <1>3, <2>1, IdleWork
<1>6. CASE new.known = k.known /\ new.sig = k.sig /\ new.pc \in {"clean", "port", "spawn", "forward", "record", "ready"}
    <2>1. /\ k.pc \notin {"read"} \cup Lowering
          /\ new.pc \notin {"read", "all", "sweeping", "sweep", "swept"} \cup Lowering
        BY <1>4, <1>6 DEF Lowering
    <2>2. QED BY <1>2, <1>3, <1>6, <2>1, AtWork
<1>7. CASE \E pc \in {"clean", "port", "spawn", "ready"} : Goto(c, pc)
    BY <1>1, <1>3, <1>6, <1>7, GotoIs
<1>8. CASE UpClean(c)
    <2>1. new = [k EXCEPT !.pc = "port", !.rec = record[k.svc]]
        BY <1>1, <1>2, <1>3, <1>8 DEF UpClean
    <2>2. new.known = k.known /\ new.sig = k.sig /\ new.pc = "port"
        BY <2>1 DEF Commands
    <2>3. QED BY <1>6, <2>2
<1>9. CASE UpSpawn(c)
    <2>1. PICK r, pc : pc \in {"forward", "record"} /\ cli' = [cli EXCEPT ![c].rec = r, ![c].pc = pc]
        BY <1>9 DEF UpSpawn
    <2>2. new = [k EXCEPT !.rec = r, !.pc = pc]
        BY <1>1, <1>2, <1>3, <2>1
    <2>3. new.known = k.known /\ new.sig = k.sig /\ new.pc = pc
        BY <2>2 DEF Commands
    <2>4. QED BY <1>6, <2>1, <2>3
<1>10. CASE UpForward(c)
    <2>1. PICK r : cli' = [cli EXCEPT ![c].rec.proxy = r, ![c].pc = "record"]
        BY <1>10 DEF UpForward
    <2>2. PICK o : new = [k EXCEPT !.rec = o, !.pc = "record"]
        BY <1>1, <1>2, <1>3, <2>1
    <2>3. new.known = k.known /\ new.sig = k.sig /\ new.pc = "record"
        BY <2>2 DEF Commands
    <2>4. QED BY <1>6, <2>3
<1>11. CASE UpSleep(c)
    <2>1. new = [k EXCEPT !.polls = k.polls + 1]
        BY <1>1, <1>2, <1>3, <1>11 DEF UpSleep
    <2>2. new.known = k.known /\ new.sig = k.sig /\ new.pc = k.pc /\ k.pc = "ready"
        BY <1>1, <1>11, <2>1 DEF Commands, UpSleep, At
    <2>3. QED BY <1>6, <2>2
<1>12. CASE ~ UpClean(c) /\ ~ UpSpawn(c) /\ ~ UpForward(c) /\ ~ UpSleep(c)
    <2>1. (\E out : Return(c, out)) \/ (\E pc \in {"clean", "port", "spawn", "ready"} : Goto(c, pc))
        BY <1>12 DEF Up, UpObserve, UpBusy, UpUnlink, UpFails, UpRecord, UpReady, UpDied, UpTimeout
    <2>2. QED BY <1>5, <1>7, <2>1
<1>13. QED BY <1>8, <1>9, <1>10, <1>11, <1>12

\* The two steps that bring a process of a service move on.
LEMMA SpawnGoesOn ==
    ASSUME TypeOK, NEW c \in Clis, UpSpawn(c) \/ UpForward(c)
    PROVE  cli'[c].pc # cli[c].pc /\ cli'[c].pc # "idle"
<1>1. cli \in [Clis -> Commands] /\ cli[c] \in Commands
    BY DEF TypeOK
<1>2. CASE UpSpawn(c)
    <2>1. PICK r, pc : pc \in {"forward", "record"} /\ cli' = [cli EXCEPT ![c].rec = r, ![c].pc = pc]
        BY <1>2 DEF UpSpawn
    <2>2. cli'[c] = [cli[c] EXCEPT !.rec = r, !.pc = pc]
        BY <1>1, <2>1
    <2>3. cli'[c].pc = pc
        BY <1>1, <2>2 DEF Commands
    <2>4. QED BY <1>2, <2>1, <2>3 DEF UpSpawn, At
<1>3. CASE UpForward(c)
    <2>1. PICK r : cli' = [cli EXCEPT ![c].rec.proxy = r, ![c].pc = "record"]
        BY <1>3 DEF UpForward
    <2>2. PICK o : cli'[c] = [cli[c] EXCEPT !.rec = o, !.pc = "record"]
        BY <1>1, <2>1
    <2>3. cli'[c].pc = "record"
        BY <1>1, <2>2 DEF Commands
    <2>4. QED BY <1>3, <2>3 DEF UpForward, At
<1>4. QED BY <1>2, <1>3

LEMMA RequestWorks ==
    ASSUME TypeOK, Table, Table', \A p \in Pids : Follows(p), NEW c \in Clis, Sweeps(cli[c]),
           Request(c) \/ CliDies(c)
    PROVE  \E new : new = cli'[c] /\ Lowers(new)' /\ Sweeps(new)'
<1>1. PICK k \in Commands : k = cli[c]
    BY DEF TypeOK
<1>2. cli \in [Clis -> Commands] /\ Sweeps(k)
    BY <1>1 DEF TypeOK
<1>3. PICK new : new = cli'[c]
    OBVIOUS
<1>4. CASE CliDies(c)
    <2>1. new = Idle("killed")
        BY <1>2, <1>3, <1>4 DEF CliDies, Return
    <2>2. QED BY <1>2, <1>3, <2>1, IdleWork
<1>5. CASE Request(c)
    <2>1. PICK op, s, todo, pc :
            /\ Begin(c, op, s, todo, pc)
            /\ pc = "observe" \/ (pc = "read" /\ op = "down") \/ (pc = "all" /\ todo = Services)
        BY <1>5 DEF Request
    <2>2. new = [Idle("none") EXCEPT !.pc = pc, !.op = op, !.svc = s, !.todo = todo]
        BY <1>2, <1>3, <2>1 DEF Begin
    <2>3. new.pc = pc /\ new.op = op /\ new.todo = todo /\ new.known = {}
        BY <2>2 DEF Idle
    <2>4. pc \in {"observe", "read", "all"}
        BY <2>1
    <2>5. Lowers(new)'
        BY <2>3, <2>4 DEF Lowers, Lowering
    <2>6. Sweeping(new) => new.todo = Services
        BY <2>1, <2>3 DEF Sweeping, Lowering
    <2>7. Sweeps(new)'
        BY <2>3, <2>4, <2>6 DEF Sweeps
    <2>8. QED BY <1>3, <2>5, <2>7
<1>6. QED BY <1>4, <1>5

\* One command at a time, whatever happens to it and around it.
LEMMA LoneInvariance ==
    ASSUME NEW c, Clis = {c}
    PROVE  Spec => []Alone
<1>1. Init /\ Inv => Alone
    <2>1. SUFFICES ASSUME Init, Inv PROVE Alone
        OBVIOUS
    <2>2. PICK new : new = Idle("none")
        OBVIOUS
    <2>3. new.pc = "idle" /\ new.known = {}
        BY <2>2 DEF Idle
    <2>4. Lowers(new) /\ Sweeps(new)
        BY <2>3 DEF Lowers, Sweeps, Sweeping, Lowering
    <2>5. \A d \in Clis : Lowers(cli[d]) /\ Sweeps(cli[d])
        BY <2>1, <2>2, <2>4 DEF Init
    <2>6. Staffed /\ Socketed
        BY <2>1 DEF Init, Staffed, Socketed, Live, Vacant
    <2>7. QED BY <2>5, <2>6 DEF Alone
<1>2. Inv /\ Inv' /\ Alone /\ [Next]_vars => Alone'
    <2>1. SUFFICES ASSUME Inv, Inv', Alone, [Next]_vars PROVE Alone'
        OBVIOUS
    <2>2. Table /\ Table' /\ TypeOK /\ TypeOK' /\ \A p \in Pids : Follows(p)
        BY <2>1, TableStep DEF Inv
    <2>3. Staffed' /\ Socketed' /\ Staffed
        BY <2>1, <2>2, StaffedStep, SocketedStep DEF Alone
    <2>4. PICK k \in Commands, new \in Commands : k = cli[c] /\ new = cli'[c]
        BY <2>2 DEF TypeOK
    <2>5. Lowers(k) /\ Sweeps(k) /\ c \in Clis
        BY <2>1, <2>4 DEF Alone
    <2>6. SUFFICES Lowers(new)' /\ Sweeps(new)'
        BY <2>3, <2>4 DEF Alone
    <2>7. (\A d \in Clis : ~ UpSpawn(d) /\ ~ UpForward(d)) => NobodyComes
        <3>1. TypeOK /\ Table
            BY <2>2
        <3>2. QED BY <2>1, <3>1, NobodyNew
    <2>8. CASE Up(c)
        BY <2>2, <2>4, <2>5, <2>8, UpWorks
    <2>9. CASE Request(c) \/ CliDies(c)
        BY <2>2, <2>4, <2>5, <2>9, RequestWorks
    <2>10. CASE Down(c)
        <3>1. ~ UpSpawn(c) /\ ~ UpForward(c)
            <4>1. CASE SendsSignal(c)
                <5>1. cli'[c].pc = cli[c].pc
                    <6>1. PICK sig : cli' = [cli EXCEPT ![c].sig = sig]
                        BY <4>1 DEF SendsSignal
                    <6>2. new = [k EXCEPT !.sig = sig]
                        BY <2>2, <2>4, <2>5, <6>1 DEF TypeOK
                    <6>3. QED BY <2>4, <6>2 DEF Commands
                <5>2. QED BY <2>2, <2>5, <5>1, SpawnGoesOn
            <4>2. CASE ~ SendsSignal(c)
                <5>1. k.pc \in Lowering \cup {"read", "all", "sweeping", "sweep", "swept"}
                    BY <2>4, <2>10, <4>2 DEF Lowering, Down, DownRead, DownTerm, DownKill, DownProxyTerm,
                        DownProxyKill, DownScan, Asks, Insists, DownForget, DownUnlink, AllNext, AllScan, AllDone, At
                <5>2. k.pc # "spawn" /\ k.pc # "forward"
                    BY <5>1 DEF Lowering
                <5>3. QED BY <2>4, <5>2 DEF UpSpawn, UpForward, At
            <4>3. QED BY <4>1, <4>2
        <3>2. NobodyComes
            BY <2>7, <3>1
        <3>3. Steps(c, k, new)
            BY <2>1, <2>2, <2>3, <2>4, <2>5, <3>2 DEF Steps
        <3>4. QED BY <2>10, <3>3, DownWorks
    <2>11. CASE Host \/ UNCHANGED vars
        <3>1. UNCHANGED <<record, cli>>
            BY <2>11 DEF Host, Die, ServiceBinds, ForwarderBinds, StrangerStarts, vars
        <3>2. NobodyComes
            <4>1. \A d \in Clis : ~ UpSpawn(d) /\ ~ UpForward(d)
                BY <2>2, <3>1, SpawnGoesOn
            <4>2. QED BY <2>7, <4>1
        <3>3. Steps(c, k, new)
            BY <2>1, <2>2, <2>3, <2>4, <2>5, <3>2 DEF Steps
        <3>4. QED BY <2>4, <3>1, <3>3, StepLasts
    <2>12. QED BY <2>1, <2>8, <2>9, <2>10, <2>11 DEF Next
<1>3. QED BY <1>1, <1>2, Invariance, PTL DEF Spec

------------------------------------------------------------------------------
(* The theorems *)

\* Process table, records, sockets and commands keep their types.
THEOREM TypeCorrect == Spec => []TypeOK
<1>1. Inv => TypeOK
    BY DEF Inv
<1>2. QED BY <1>1, Invariance, PTL

\* What down and down --all (sandboxctl/src/service.rs: same_process before each pair of
\* signals, to the recorded processes, the stragglers and the swept ones by start mark)
\* set out to signal is never a stranger nor, while they lower one service, a process of
\* another, from the check to the second `kill`.  It does not say that the `kill` finds it:
\* a number that is reused in between leads elsewhere (NobodyElseIsSignalled, refuted).
THEOREM AimsAreItsOwn == Spec => []AimsOnlyAtItsOwn
<1>1. Inv => AimsOnlyAtItsOwn
    <2>1. SUFFICES ASSUME Inv, NEW c \in Clis, NEW p \in Foreign(c), Live(p), Id(p) = cli[c].sig.target
                   PROVE  FALSE
        BY DEF AimsOnlyAtItsOwn
    <2>2. p \in Pids /\ (proc[p].role = "stranger" \/ cli[c].svc \notin {None, proc[p].svc})
        BY DEF Foreign
    <2>3. Id(p).pid = p /\ Id(p).ticks = proc[p].gen /\ Id(p) \in Ids
        BY <2>1, <2>2 DEF Inv, Table, Live, Id, Ids
    <2>4. Id(p) \in Recalls(cli[c])
        BY <2>1, <2>3, NoneAssumption DEF Recalls
    <2>5. KnownTo(Id(p), cli[c].svc)
        BY <2>1, <2>4 DEF Inv, Remembers
    <2>6. QED BY <2>1, <2>2, <2>3, <2>5 DEF KnownTo, Live
<1>2. QED BY <1>1, Invariance, PTL

\* Only a down that has gone through all of its steps answers "stopped", and only a
\* down --all that has swept answers "swept".
LEMMA OnlyTheEnd ==
    ASSUME TypeOK, NEW c, Clis = {c}, [Next]_vars,
           Returns(c, "stopped") \/ Returns(c, "swept")
    PROVE  /\ Returns(c, "stopped") => DownUnlink(c)
           /\ Returns(c, "swept") => AllDone(c)
           /\ cli[c].sig = NoSignal
<1>1. c \in Clis /\ cli \in [Clis -> Commands] /\ cli[c] \in Commands
    BY DEF TypeOK
<1>2. cli'[c].pc = "idle" /\ cli[c].pc # "idle" /\ cli'[c].out \in {"stopped", "swept"}
    BY DEF Returns, At
<1>3. ASSUME NEW out, Return(c, out)
      PROVE  cli'[c].out = out
    <2>1. cli'[c] = Idle(out)
        BY <1>1, <1>3 DEF Return
    <2>2. QED BY <2>1 DEF Idle
<1>4. ASSUME NEW pc, Goto(c, pc)
      PROVE  cli'[c].pc = pc
    BY <1>1, <1>4, GotoIs
<1>5. ASSUME NEW out, Finish(c, out)
      PROVE  cli'[c].pc = "all" \/ cli'[c].out = out
    <2>1. CASE cli[c].op = "down"
        BY <1>3, <1>5, <2>1 DEF Finish
    <2>2. CASE cli[c].op # "down"
        <3>1. cli'[c] = [cli[c] EXCEPT !.pc = "all", !.svc = None, !.rec = NoRecord, !.found = {}, !.due = {}]
            BY <1>1, <1>5, <2>2 DEF Finish
        <3>2. QED BY <1>1, <3>1 DEF Commands
    <2>3. QED BY <2>1, <2>2
<1>6. ~ Up(c)
    <2>1. ~ UpClean(c)
        <3>1. SUFFICES ASSUME UpClean(c) PROVE cli'[c].pc = "port"
            BY <1>2
        <3>2. PICK r : cli' = [cli EXCEPT ![c].pc = "port", ![c].rec = r]
            BY <3>1 DEF UpClean
        <3>3. cli'[c] = [cli[c] EXCEPT !.pc = "port", !.rec = r]
            BY <1>1, <3>2
        <3>4. QED BY <1>1, <3>3 DEF Commands
    <2>2. ~ UpSpawn(c) /\ ~ UpForward(c)
        BY <1>2, SpawnGoesOn, <1>1
    <2>3. ~ UpSleep(c)
        BY <1>1, <1>2 DEF UpSleep, Commands, At
    <2>4. Up(c) => \/ \E out \in {"running", "busy", "error", "launched", "ok", "died", "timeout"} : Return(c, out)
                   \/ \E pc \in {"clean", "port", "spawn", "ready"} : Goto(c, pc)
        BY <2>1, <2>2, <2>3 DEF Up, UpObserve, UpBusy, UpUnlink, UpFails, UpRecord, UpReady, UpDied, UpTimeout
    <2>5. QED BY <1>2, <1>3, <1>4, <2>4
<1>7. ~ Request(c) /\ ~ CliDies(c)
    BY <1>2, <1>3 DEF Request, Begin, At, CliDies
<1>8. ~ Host /\ ~ UNCHANGED vars
    BY <1>2 DEF Host, Die, ServiceBinds, ForwarderBinds, StrangerStarts, vars
<1>9. Down(c)
    BY <1>6, <1>7, <1>8 DEF Next
<1>10. ~ SendsSignal(c) /\ ~ DownForget(c)
    <2>1. ASSUME SendsSignal(c)
          PROVE  cli'[c].pc = cli[c].pc
        <3>1. PICK sig : cli' = [cli EXCEPT ![c].sig = sig]
            BY <2>1 DEF SendsSignal
        <3>2. cli'[c] = [cli[c] EXCEPT !.sig = sig]
            BY <1>1, <3>1
        <3>3. QED BY <1>1, <3>2 DEF Commands
    <2>2. QED BY <1>2, <1>4, <2>1 DEF DownForget
<1>11. ~ DownRead(c)
    <2>1. ASSUME DownRead(c), ~ Finish(c, "already")
          PROVE  cli'[c].pc = "term"
        <3>1. PICK r : cli' = [cli EXCEPT ![c].rec = r, ![c].pc = "term"]
            BY <2>1 DEF DownRead
        <3>2. cli'[c] = [cli[c] EXCEPT !.rec = r, !.pc = "term"]
            BY <1>1, <3>1
        <3>3. QED BY <1>1, <3>2 DEF Commands
    <2>2. QED BY <1>2, <1>5, <2>1
<1>12. ASSUME NEW sig, NEW found, NEW due, NEW pc \in Places \ {"idle"},
              cli' = [cli EXCEPT ![c] = [cli[c] EXCEPT !.sig = sig, !.found = found, !.due = due, !.pc = pc]]
       PROVE  FALSE
    BY <1>1, <1>2, <1>12 DEF Commands
<1>13. ~ DownTerm(c) /\ ~ DownKill(c) /\ ~ DownProxyTerm(c) /\ ~ DownProxyKill(c)
    <2>1. ASSUME NEW id, NEW name, NEW pc \in Places \ {"idle"}, Aims(c, id, name, pc)
          PROVE  FALSE
        <3>1. PICK sig, found, due : sig = Signalling(id, name) /\ found = cli[c].found /\ due = cli[c].due
            OBVIOUS
        <3>2. cli' = [cli EXCEPT ![c] = [cli[c] EXCEPT !.sig = sig, !.found = found, !.due = due, !.pc = pc]]
            BY <1>1, <2>1, <3>1 DEF Aims, Commands
        <3>3. QED BY <1>12, <3>2
    <2>2. DownTerm(c) \/ DownKill(c) \/ DownProxyTerm(c) \/ DownProxyKill(c) =>
            \E id, name : \E pc \in {"grace", "proxy", "proxyGrace", "scan"} : Aims(c, id, name, pc)
        BY DEF DownTerm, DownKill, DownProxyTerm, DownProxyKill
    <2>3. {"grace", "proxy", "proxyGrace", "scan"} \subseteq Places \ {"idle"}
        BY DEF Places
    <2>4. QED BY <2>1, <2>2, <2>3
<1>14. ASSUME NEW P, NEW ask \in Places \ {"idle"}, NEW done \in Places \ {"idle"}, Finds(c, P, ask, done)
       PROVE  FALSE
    <2>1. PICK sig, found, pc : sig = cli[c].sig /\ found = {Id(p) : p \in P} /\ pc = IF P = {} THEN done ELSE ask
        OBVIOUS
    <2>2. cli' = [cli EXCEPT ![c] = [cli[c] EXCEPT !.sig = sig, !.found = found, !.due = found, !.pc = pc]]
        BY <1>1, <1>14, <2>1 DEF Finds, Commands
    <2>3. pc \in Places \ {"idle"}
        BY <2>1
    <2>4. QED BY <1>12, <2>2, <2>3
<1>15. ~ DownScan(c) /\ ~ AllScan(c)
    <2>1. {"asking", "forget", "sweeping", "swept"} \subseteq Places \ {"idle"}
        BY DEF Places
    <2>2. QED BY <1>14, <2>1 DEF DownScan, AllScan
<1>16. ASSUME NEW at \in Places \ {"idle"}, NEW next \in Places \ {"idle"}, Asks(c, at, next) \/ Insists(c, at, next)
       PROVE  FALSE
    <2>1. \E sig, due : \E pc \in {at, next} : cli' = [cli EXCEPT ![c].sig = sig, ![c].due = due, ![c].pc = pc]
        BY <1>16 DEF Asks, Insists
    <2>2. PICK sig, due, pc : /\ pc \in {at, next}
                              /\ cli' = [cli EXCEPT ![c].sig = sig, ![c].due = due, ![c].pc = pc]
        BY <2>1
    <2>3. cli'[c] = [cli[c] EXCEPT !.sig = sig, !.due = due, !.pc = pc]
        BY <1>1, <2>2
    <2>4. QED BY <1>1, <1>2, <2>2, <2>3 DEF Commands
<1>17. /\ ~ Asks(c, "asking", "stragglers") /\ ~ Insists(c, "stragglers", "forget")
       /\ ~ Asks(c, "sweeping", "sweep") /\ ~ Insists(c, "sweep", "swept")
    <2>1. {"asking", "stragglers", "forget", "sweeping", "sweep", "swept"} \subseteq Places \ {"idle"}
        BY DEF Places
    <2>2. QED BY <1>16, <2>1
<1>18. ~ AllNext(c)
    <2>1. SUFFICES ASSUME AllNext(c) PROVE cli'[c].pc \in {"all", "read"}
        BY <1>2
    <2>2. PICK s : cli'[c] =
                IF record[s] = NoRecord THEN [cli[c] EXCEPT !.todo = cli[c].todo \ {s}]
                ELSE [cli[c] EXCEPT !.todo = cli[c].todo \ {s}, !.svc = s, !.pc = "read",
                        !.known = cli[c].known \cup ({record[s].pid, record[s].proxy} \ {None})]
        BY <1>1, <2>1 DEF AllNext
    <2>3. cli[c].pc = "all"
        BY <2>1 DEF AllNext, At
    <2>4. QED BY <1>1, <2>2, <2>3 DEF Commands
<1>19. (DownUnlink(c) \/ AllDone(c)) /\ cli[c].sig = NoSignal
    <2>1. (DownUnlink(c) \/ AllDone(c)) /\ cli[c].sig.left = 0
        BY <1>9, <1>10, <1>11, <1>18, <1>13, <1>15, <1>17 DEF Down
    <2>2. QED BY <1>1, <2>1, Silence
<1>20. DownUnlink(c) => cli'[c].out = "stopped"
    BY <1>2, <1>5 DEF DownUnlink
<1>21. AllDone(c) => cli'[c].out = "swept"
    BY <1>3 DEF AllDone
<1>22. QED BY <1>19, <1>20, <1>21 DEF Returns

\* `down` (sandboxctl/src/service.rs: lower, stop_stragglers): when no other command is at
\* work, "stopped" is true: no record, no socket, and no process of the service but one
\* that runs on the number of the recorded one.
THEOREM DownLeavesNothing ==
    ASSUME NEW t, Clis = {t}
    PROVE  Spec => DownStops
<1>1. Inv /\ Alone /\ [Next]_vars =>
        [\A c \in Clis : Returns(c, "stopped") =>
            /\ \A p \in Processes(cli[c].svc) : IsHeir(p, {cli[c].rec.pid})
            /\ record'[cli[c].svc] = NoRecord
            /\ sock'[cli[c].svc] = None]_vars
    <2>1. SUFFICES ASSUME Inv, Alone, [Next]_vars, Returns(t, "stopped")
                   PROVE  /\ \A p \in Processes(cli[t].svc) : IsHeir(p, {cli[t].rec.pid})
                          /\ record'[cli[t].svc] = NoRecord
                          /\ sock'[cli[t].svc] = None
        OBVIOUS
    <2>2. DownUnlink(t)
        BY <2>1, OnlyTheEnd DEF Inv
    <2>3. cli[t].pc = "unlink" /\ UNCHANGED record /\ Struck(cli[t]) = {}
        BY <2>1, <2>2, OnlyTheEnd, NothingStruck DEF DownUnlink, At, Inv
    <2>4. Lowers(cli[t]) /\ Remembers(t) /\ Socketed
        BY <2>1 DEF Inv, Alone
    <2>5. cli[t].svc \in Services
        BY <2>3, <2>4 DEF Remembers, Between
    <2>6. record'[cli[t].svc] = NoRecord
        BY <2>3, <2>4 DEF Lowers
    <2>7. sock'[cli[t].svc] = None
        BY <2>1, <2>2, <2>4, <2>5 DEF DownUnlink, Socketed, Inv, TypeOK
    <2>8. ASSUME NEW p \in Processes(cli[t].svc)
          PROVE  IsHeir(p, {cli[t].rec.pid})
        <3>1. p = cli[t].rec.pid.pid /\ ~ Alive(cli[t].rec.pid) /\ Live(p)
            BY <2>3, <2>4, <2>8 DEF Lowers, Lowering, Processes
        <3>2. Id(p) # cli[t].rec.pid
            BY <3>1 DEF Alive, Id
        <3>3. QED BY <3>1, <3>2 DEF IsHeir
    <2>9. QED BY <2>6, <2>7, <2>8
<1>2. Spec => []Alone
    BY LoneInvariance
<1>3. QED BY <1>1, <1>2, Invariance, PTL DEF Spec, DownStops

\* `down --all` (the same file: down_all and its sweep): when no other command is at work,
\* nothing recorded is left, nor any process but one that runs on a recorded number.
THEOREM NothingEscapesTheSweep ==
    ASSUME NEW t, Clis = {t}
    PROVE  Spec => AllSweeps
<1>1. Inv /\ Alone /\ [Next]_vars =>
        [\A c \in Clis : Returns(c, "swept") =>
            \A s \in Services :
                /\ \A p \in Processes(s) : IsHeir(p, cli[c].known)
                /\ record[s] = NoRecord]_vars
    <2>1. SUFFICES ASSUME Inv, Alone, [Next]_vars, Returns(t, "swept"), NEW s \in Services
                   PROVE  /\ \A p \in Processes(s) : IsHeir(p, cli[t].known)
                          /\ record[s] = NoRecord
        OBVIOUS
    <2>2. AllDone(t)
        BY <2>1, OnlyTheEnd DEF Inv
    <2>3. cli[t].pc = "swept" /\ Struck(cli[t]) = {}
        BY <2>1, <2>2, OnlyTheEnd, NothingStruck DEF AllDone, At, Inv
    <2>4. Sweeps(cli[t])
        BY <2>1 DEF Alone
    <2>5. record[s] = NoRecord
        BY <2>3, <2>4 DEF Sweeps, Sweeping, Lowering
    <2>6. ASSUME NEW p \in Processes(s)
          PROVE  IsHeir(p, cli[t].known)
        <3>1. p \in {id.pid : id \in cli[t].known} /\ Live(p)
            BY <2>3, <2>4, <2>6 DEF Sweeps, Processes, Shielded
        <3>2. ASSUME Id(p) \in cli[t].known
              PROVE  FALSE
            <4>1. PICK id : id = Id(p)
                OBVIOUS
            <4>2. id.pid = p /\ id.ticks = proc[p].gen
                BY <4>1 DEF Id
            <4>3. ~ Alive(id)
                BY <2>3, <2>4, <3>2, <4>1 DEF Sweeps, Due
            <4>4. QED BY <3>1, <4>2, <4>3 DEF Alive
        <3>3. QED BY <3>1, <3>2 DEF IsHeir
    <2>7. QED BY <2>5, <2>6
<1>2. Spec => []Alone
    BY LoneInvariance
<1>3. QED BY <1>1, <1>2, Invariance, PTL DEF Spec, AllSweeps
==============================================================================
