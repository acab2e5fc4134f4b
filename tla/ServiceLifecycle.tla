--------------------------- MODULE ServiceLifecycle ---------------------------
(***************************************************************************)
(* `sandboxctl service up | down | down --all`                              *)
(* (crates/sandboxctl/src/service.rs, crates/sandbox-core/src/service.rs).  *)
(*                                                                         *)
(* Every command is a process of its own: nothing but the record files, the *)
(* socket files, the ports and the process table is shared, and there is no *)
(* lock.  A command is a sequence of steps between which anything else may  *)
(* happen: another command, a crash of a service, the death of the command  *)
(* itself (Ctrl-C, or the SIGKILL of the control center), a PID handed to a *)
(* stranger.                                                                *)
(*                                                                         *)
(* A PID may be reused between any two steps of a command, also between a   *)
(* same_process check and the two `kill` processes, group first and then the *)
(* bare number, that it is the only guard of.  Assumption: not during one    *)
(* scan of /proc, nor between the file accesses of one check.               *)
(***************************************************************************)
EXTENDS Naturals, FiniteSets

CONSTANTS Services,     \* the cases with a service.json
          Clis,         \* terminals and control-center requests that run commands
          Pids,         \* PIDs of the host
          MaxGen,       \* bound: how many processes may hold a PID, one after another
          MaxPolls,     \* bound: READY_TIMEOUT in polls of `up`
          Publish,      \* Services -> {"direct", "proxy", "none"}
          Strangers,    \* BOOLEAN: unrelated processes come and go on this host
          Issues,       \* bound: which commands each of Clis issues
          Reaping,      \* commands whose starter ignores SIGCHLD, and so do they
          None

ASSUME ServiceAssumption ==
    /\ Publish \in [Services -> {"direct", "proxy", "none"}]
    /\ MaxGen \in Nat
    /\ MaxPolls \in Nat
    /\ Strangers \in BOOLEAN
    /\ Reaping \subseteq Clis

ASSUME IssuesAssumption == Issues \in [Clis -> SUBSET {"up", "down", "down --all"}]

VARIABLES proc,     \* PID -> the process that holds it, or held it last
          record,   \* service -> the ServiceRecord on disk, or NoRecord
          sock,     \* service -> the process its socket file leads to, or None
          cli       \* command line process -> where it is and what it remembers

vars == <<proc, record, sock, cli>>

IsSocket(s) == Publish[s] # "direct"

NeedsProxy(s) == Publish[s] = "proxy"

IsPublished(s) == Publish[s] # "none"

------------------------------------------------------------------------------
(* The process table.  A service is bubblewrap: an outer process, which is   *)
(* what `up` spawns and records, and the init of the sandbox with a session  *)
(* of its own.  A forwarder publishes the port.                              *)

\* A process is its PID and its start mark, field 22 of /proc/PID/stat: here, which
\* tenancy of that PID it is.
Id(p) == [pid |-> p, ticks |-> proc[p].gen]

Vacant(gen) ==
    [state |-> "free", gen |-> gen, role |-> "none", svc |-> None, mate |-> None,
     parent |-> None, listens |-> None]

Live(p) == proc[p].state = "live"

Free == {p \in Pids : proc[p].state = "free" /\ proc[p].gen < MaxGen}

Fresh(p, role, s, mate, parent) ==
    [state |-> "live", gen |-> proc[p].gen + 1, role |-> role, svc |-> s, mate |-> mate,
     parent |-> parent, listens |-> None]

\* Mutant: a PID alone is taken for the process.
SameProcessByPid(id) == id # None /\ proc[id.pid].state # "free"

\* same_process: /proc/PID exists and carries the expected start mark.  A dead child
\* its parent has not waited for (a zombie) still has its entry, with the same mark.
SameProcess(id) == id # None /\ proc[id.pid].state # "free" /\ proc[id.pid].gen = id.ticks

\* Who dies with the processes in S: the outer process waits for the sandbox's init and
\* ends with it, but not the other way round (die_with_parent is false for services).
Casualties(S) ==
    {p \in Pids : Live(p) /\ (p \in S \/ \E q \in S : Live(q) /\ proc[q].mate = Id(p))}

\* A dead process whose parent command still runs stays as a zombie: no command waits
\* for the children it spawns.  The kernel buries it at once only when SIGCHLD is
\* ignored, a disposition a command can only inherit.
Buried(S) ==
    [p \in Pids |->
        IF p \notin Casualties(S) THEN proc[p]
        ELSE IF proc[p].parent \in Reaping \cup {None} THEN Vacant(proc[p].gen)
        ELSE [proc[p] EXCEPT !.state = "zombie", !.listens = None]]

\* The end of command c: init adopts its children and reaps the dead ones.
Adopted(c) ==
    [p \in Pids |->
        IF proc[p].parent # c THEN proc[p]
        ELSE IF Live(p) THEN [proc[p] EXCEPT !.parent = None]
        ELSE Vacant(proc[p].gen)]

------------------------------------------------------------------------------
(* What a command can observe *)

Listening(s) == {p \in Pids : Live(p) /\ proc[p].listens = s}

PortResponds(s) == Listening(s) # {}

SocketResponds(s) == SameProcess(sock[s]) /\ Live(sock[s].pid)

EndpointResponds(s) ==
    /\ ~ IsSocket(s) \/ NeedsProxy(s) => PortResponds(s)
    /\ IsSocket(s) => SocketResponds(s)

NoRecord == [pid |-> None, proxy |-> None]

Observe(s) ==
    IF record[s] = NoRecord THEN "Stopped"
    ELSE IF ~ SameProcess(record[s].pid) THEN "Crashed"
    ELSE IF EndpointResponds(s) THEN "Running"
    ELSE "Starting"

\* Mutant: a sweep that only looks for sandboxes.
OrphanSandboxes(known) == {p \in Pids \ known : Live(p) /\ proc[p].role \in {"outer", "inner"}}

\* orphans(known): the command lines of bubblewrap and of the forwarder name this
\* repository.  A zombie has no command line.
Orphans(known) ==
    {p \in Pids \ known : Live(p) /\ proc[p].role \in {"outer", "inner", "forwarder"}}

BelongsToService(p, s) == proc[p].svc = s

------------------------------------------------------------------------------
(* Commands *)

NoSignal == [target |-> None, name |-> "none", left |-> 0]

Idle(out) ==
    [pc |-> "idle", op |-> "none", svc |-> None, rec |-> NoRecord, found |-> {}, due |-> {},
     known |-> {}, todo |-> {}, sig |-> NoSignal, polls |-> 0, out |-> out]

Init ==
    /\ proc = [p \in Pids |-> Vacant(0)]
    /\ record = [s \in Services |-> NoRecord]
    /\ sock = [s \in Services |-> None]
    /\ cli = [c \in Clis |-> Idle("none")]

At(c, pc) == cli[c].pc = pc

Goto(c, pc) == cli' = [cli EXCEPT ![c].pc = pc]

\* The command returns and its process ends.
Return(c, out) ==
    /\ cli' = [cli EXCEPT ![c] = Idle(out)]
    /\ proc' = Adopted(c)

Begin(c, op, s, todo, pc) ==
    /\ At(c, "idle")
    /\ cli' = [cli EXCEPT ![c] = [Idle("none") EXCEPT !.pc = pc, !.op = op, !.svc = s, !.todo = todo]]
    /\ UNCHANGED <<proc, record, sock>>

------------------------------------------------------------------------------
(* up *)

UpObserve(c) ==
    /\ At(c, "observe")
    /\ UNCHANGED <<record, sock>>
    /\ CASE Observe(cli[c].svc) = "Running" -> Return(c, "running")
         [] Observe(cli[c].svc) = "Crashed" -> Goto(c, "clean") /\ UNCHANGED proc
         [] OTHER -> Goto(c, "port") /\ UNCHANGED proc

\* The stale record is removed; what it named is remembered here for the properties.
UpClean(c) ==
    /\ At(c, "clean")
    /\ cli' = [cli EXCEPT ![c].pc = "port", ![c].rec = record[cli[c].svc]]
    /\ record' = [record EXCEPT ![cli[c].svc] = NoRecord]
    /\ UNCHANGED <<proc, sock>>

UpBusy(c) ==
    /\ At(c, "port")
    /\ IsPublished(cli[c].svc) /\ PortResponds(cli[c].svc)
    /\ Return(c, "busy")
    /\ UNCHANGED <<record, sock>>

\* The port is free; the socket file of an earlier execution goes.
UpUnlink(c) ==
    /\ At(c, "port")
    /\ ~ (IsPublished(cli[c].svc) /\ PortResponds(cli[c].svc))
    /\ sock' = IF IsSocket(cli[c].svc) THEN [sock EXCEPT ![cli[c].svc] = None] ELSE sock
    /\ Goto(c, "spawn")
    /\ UNCHANGED <<proc, record>>

\* A policy, runtime or disk error, or a failed spawn, at any of the three `?` ahead:
\* before the sandbox, before the forwarder, before the record.
UpFails(c) ==
    /\ cli[c].pc \in {"spawn", "forward", "record"}
    /\ Return(c, "error")
    /\ UNCHANGED <<record, sock>>

UpSpawn(c) ==
    /\ At(c, "spawn")
    /\ \E p, q \in Free : p # q
        /\ LET outer == [pid |-> p, ticks |-> proc[p].gen + 1]
               s == cli[c].svc
           IN  /\ proc' = [proc EXCEPT ![p] = Fresh(p, "outer", s, None, c),
                                       ![q] = Fresh(q, "inner", s, outer, None)]
               /\ cli' = [cli EXCEPT ![c].rec = [pid |-> outer, proxy |-> None],
                                     ![c].pc = IF NeedsProxy(s) THEN "forward" ELSE "record"]
    /\ UNCHANGED <<record, sock>>

UpForward(c) ==
    /\ At(c, "forward")
    /\ \E p \in Free :
        /\ proc' = [proc EXCEPT ![p] = Fresh(p, "forwarder", cli[c].svc, None, c)]
        /\ cli' = [cli EXCEPT ![c].rec.proxy = [pid |-> p, ticks |-> proc[p].gen + 1],
                              ![c].pc = "record"]
    /\ UNCHANGED <<record, sock>>

\* The record is written; without --wait `up` returns at once.
UpRecord(c) ==
    /\ At(c, "record")
    /\ record' = [record EXCEPT ![cli[c].svc] = cli[c].rec]
    /\ \/ Goto(c, "ready") /\ UNCHANGED proc
       \/ Return(c, "launched")
    /\ UNCHANGED sock

\* One turn of the waiting loop.
UpReady(c) ==
    /\ At(c, "ready") /\ cli[c].polls < MaxPolls
    /\ EndpointResponds(cli[c].svc)
    /\ Return(c, "ok")
    /\ UNCHANGED <<record, sock>>

UpDied(c) ==
    /\ At(c, "ready") /\ cli[c].polls < MaxPolls
    /\ ~ EndpointResponds(cli[c].svc)
    /\ ~ SameProcess(cli[c].rec.pid)
    /\ record' = [record EXCEPT ![cli[c].svc] = NoRecord]
    /\ Return(c, "died")
    /\ UNCHANGED sock

UpSleep(c) ==
    /\ At(c, "ready") /\ cli[c].polls < MaxPolls
    /\ ~ EndpointResponds(cli[c].svc)
    /\ SameProcess(cli[c].rec.pid)
    /\ cli' = [cli EXCEPT ![c].polls = @ + 1]
    /\ UNCHANGED <<proc, record, sock>>

UpTimeout(c) ==
    /\ At(c, "ready") /\ cli[c].polls = MaxPolls
    /\ Return(c, "timeout")
    /\ UNCHANGED <<record, sock>>

Up(c) ==
    \/ UpObserve(c) \/ UpClean(c) \/ UpBusy(c) \/ UpUnlink(c) \/ UpFails(c) \/ UpSpawn(c)
    \/ UpForward(c) \/ UpRecord(c) \/ UpReady(c) \/ UpDied(c) \/ UpSleep(c) \/ UpTimeout(c)

------------------------------------------------------------------------------
(* down and down --all *)

\* The end of one service's down: `down` returns, `down --all` goes on.
Finish(c, out) ==
    IF cli[c].op = "down" THEN Return(c, out)
    ELSE /\ cli' = [cli EXCEPT ![c] = [@ EXCEPT !.pc = "all", !.svc = None, !.rec = NoRecord,
                                    !.found = {}, !.due = {}]]
         /\ UNCHANGED proc

DownRead(c) ==
    /\ At(c, "read")
    /\ IF record[cli[c].svc] = NoRecord THEN Finish(c, "already")
       ELSE /\ cli' = [cli EXCEPT ![c].rec = record[cli[c].svc], ![c].pc = "term"]
            /\ UNCHANGED proc
    /\ UNCHANGED <<record, sock>>

\* terminate, kill: same_process is asked once, and two signals follow a yes: one to the
\* group of the number, one to the number.  The target is whoever was there when asked.
Signalling(id, name) ==
    IF SameProcess(id) THEN [target |-> Id(id.pid), name |-> name, left |-> 2] ELSE NoSignal

\* signal_group: each `kill` reaches whoever has the number by then.  All processes of a
\* service lead a group; of a stranger that is not known.  A SIGTERM may be ignored.
SendsSignal(c) ==
    /\ cli[c].sig.left > 0
    /\ LET sig == cli[c].sig
           p == sig.target.pid
       IN  /\ \/ proc' = Buried({p})
              \/ /\ sig.name = "TERM" \/ (sig.left = 2 /\ proc[p].role = "stranger")
                 /\ UNCHANGED proc
           /\ cli' = [cli EXCEPT ![c].sig = IF sig.left = 2 THEN [sig EXCEPT !.left = 1] ELSE NoSignal]
    /\ UNCHANGED <<record, sock>>

\* The check of one recorded process before its signal.
Aims(c, id, name, pc) ==
    /\ cli' = [cli EXCEPT ![c].sig = Signalling(id, name), ![c].pc = pc]
    /\ UNCHANGED <<proc, record, sock>>

DownTerm(c) ==
    /\ At(c, "term")
    /\ Aims(c, cli[c].rec.pid, "TERM", IF SameProcess(cli[c].rec.pid) THEN "grace" ELSE "proxy")

\* Mutants: wait for the process instead of killing it; do not insist on the stragglers.
DownWaits(c) ==
    /\ At(c, "grace")
    /\ ~ SameProcess(cli[c].rec.pid)
    /\ Goto(c, "proxy")
    /\ UNCHANGED <<proc, record, sock>>

InsistsNever(c, insist, done) ==
    /\ At(c, insist)
    /\ cli' = [cli EXCEPT ![c].due = {}, ![c].pc = done]
    /\ UNCHANGED <<proc, record, sock>>

\* After at most five seconds.
DownKill(c) ==
    /\ At(c, "grace")
    /\ Aims(c, cli[c].rec.pid, "KILL", "proxy")

DownProxyTerm(c) ==
    /\ At(c, "proxy")
    /\ Aims(c, cli[c].rec.proxy, "TERM", IF SameProcess(cli[c].rec.proxy) THEN "proxyGrace" ELSE "scan")

DownProxyKill(c) ==
    /\ At(c, "proxyGrace")
    /\ Aims(c, cli[c].rec.proxy, "KILL", "scan")

\* The orphans, each with its start mark.
Finds(c, P, ask, done) ==
    /\ cli' = [cli EXCEPT ![c].found = {Id(p) : p \in P}, ![c].due = {Id(p) : p \in P},
                          ![c].pc = IF P = {} THEN done ELSE ask]
    /\ UNCHANGED <<proc, record, sock>>

\* stop_stragglers, first half: a check and a SIGTERM for one after the other.
Asks(c, ask, insist) ==
    /\ At(c, ask)
    /\ \E id \in cli[c].due :
        cli' = [cli EXCEPT ![c].sig = Signalling(id, "TERM"),
                           ![c].due = IF @ = {id} THEN cli[c].found ELSE @ \ {id},
                           ![c].pc = IF cli[c].due = {id} THEN insist ELSE ask]
    /\ UNCHANGED <<proc, record, sock>>

\* Second half, two seconds later.
Insists(c, insist, done) ==
    /\ At(c, insist)
    /\ \E id \in cli[c].due :
        cli' = [cli EXCEPT ![c].sig = Signalling(id, "KILL"),
                           ![c].due = @ \ {id},
                           ![c].pc = IF cli[c].due = {id} THEN done ELSE insist]
    /\ UNCHANGED <<proc, record, sock>>

DownScan(c) ==
    /\ At(c, "scan")
    /\ Finds(c, {p \in Orphans({cli[c].rec.pid.pid}) : BelongsToService(p, cli[c].svc)}, "asking", "forget")

DownForget(c) ==
    /\ At(c, "forget")
    /\ record' = [record EXCEPT ![cli[c].svc] = NoRecord]
    /\ Goto(c, "unlink")
    /\ UNCHANGED <<proc, sock>>

DownUnlink(c) ==
    /\ At(c, "unlink")
    /\ sock' = IF IsSocket(cli[c].svc) THEN [sock EXCEPT ![cli[c].svc] = None] ELSE sock
    /\ Finish(c, "stopped")
    /\ UNCHANGED record

\* The next service of down --all; the PIDs of its record join the known ones.
AllNext(c) ==
    /\ At(c, "all")
    /\ \E s \in cli[c].todo :
        cli' = [cli EXCEPT ![c] =
            IF record[s] = NoRecord THEN [cli[c] EXCEPT !.todo = cli[c].todo \ {s}]
            ELSE [cli[c] EXCEPT !.todo = cli[c].todo \ {s}, !.svc = s, !.pc = "read",
                    !.known = cli[c].known \cup ({record[s].pid, record[s].proxy} \ {None})]]
    /\ UNCHANGED <<proc, record, sock>>

AllScan(c) ==
    /\ At(c, "all") /\ cli[c].todo = {}
    /\ Finds(c, Orphans({id.pid : id \in cli[c].known}), "sweeping", "swept")

AllDone(c) ==
    /\ At(c, "swept")
    /\ Return(c, "swept")
    /\ UNCHANGED <<record, sock>>

\* A command waits for the `kill` it has started.
Down(c) ==
    \/ SendsSignal(c)
    \/ /\ cli[c].sig.left = 0
       /\ \/ DownRead(c) \/ DownTerm(c) \/ DownKill(c) \/ DownProxyTerm(c) \/ DownProxyKill(c)
          \/ DownScan(c) \/ Asks(c, "asking", "stragglers") \/ Insists(c, "stragglers", "forget")
          \/ DownForget(c) \/ DownUnlink(c)
          \/ AllNext(c) \/ AllScan(c) \/ Asks(c, "sweeping", "sweep") \/ Insists(c, "sweep", "swept")
          \/ AllDone(c)

------------------------------------------------------------------------------
(* What happens around the commands *)

Request(c) ==
    \/ "up" \in Issues[c] /\ \E s \in Services : Begin(c, "up", s, {}, "observe")
    \/ "down" \in Issues[c] /\ \E s \in Services : Begin(c, "down", s, {}, "read")
    \/ "down --all" \in Issues[c] /\ Begin(c, "down --all", None, Services, "all")

CliDies(c) ==
    /\ ~ At(c, "idle")
    /\ Return(c, "killed")
    /\ UNCHANGED <<record, sock>>

Die(p) ==
    /\ Live(p)
    /\ proc' = Buried({p})
    /\ UNCHANGED <<record, sock, cli>>

\* The service binds: its socket path (replacing what is there), or its port.
ServiceBinds(p) ==
    /\ Live(p) /\ proc[p].role = "inner" /\ proc[p].listens = None
    /\ IF IsSocket(proc[p].svc)
       THEN /\ sock' = [sock EXCEPT ![proc[p].svc] = Id(p)]
            /\ proc' = [proc EXCEPT ![p].listens = "socket"]
       ELSE /\ ~ PortResponds(proc[p].svc)
            /\ proc' = [proc EXCEPT ![p].listens = proc[p].svc]
            /\ UNCHANGED sock
    /\ UNCHANGED <<record, cli>>

\* forward::bind; it exits when the port is taken.
ForwarderBinds(p) ==
    /\ Live(p) /\ proc[p].role = "forwarder" /\ proc[p].listens = None
    /\ proc' = IF PortResponds(proc[p].svc) THEN Buried({p})
               ELSE [proc EXCEPT ![p].listens = proc[p].svc]
    /\ UNCHANGED <<record, sock, cli>>

StrangerStarts(p) ==
    /\ Strangers /\ p \in Free
    /\ proc' = [proc EXCEPT ![p] = Fresh(p, "stranger", None, None, None)]
    /\ UNCHANGED <<record, sock, cli>>

Host == \E p \in Pids : Die(p) \/ ServiceBinds(p) \/ ForwarderBinds(p) \/ StrangerStarts(p)

Next ==
    \/ \E c \in Clis : Request(c) \/ Up(c) \/ Down(c) \/ CliDies(c)
    \/ Host

\* A command that is running keeps running; nobody has to issue or to kill one, and no
\* process has to bind, start or die.
Fairness == \A c \in Clis : WF_vars(Up(c) \/ Down(c))

Spec == Init /\ [][Next]_vars /\ Fairness

------------------------------------------------------------------------------
(* Properties *)

Ids == [pid : Pids, ticks : 1 .. MaxGen]

Records == [pid : Ids, proxy : Ids \cup {None}]

\* None is neither a service nor a process.
ASSUME NoneAssumption == None \notin Services \cup Ids

Entries ==
    [state : {"free", "live", "zombie"}, gen : 0 .. MaxGen,
     role : {"none", "outer", "inner", "forwarder", "stranger"},
     svc : Services \cup {None}, mate : Ids \cup {None},
     parent : Clis \cup {None}, listens : Services \cup {None, "socket"}]

Places ==
    {"idle", "observe", "clean", "port", "spawn", "forward", "record", "ready", "read", "term",
     "grace", "proxy", "proxyGrace", "scan", "asking", "stragglers", "forget", "unlink", "all",
     "sweeping", "sweep", "swept"}

Outcomes ==
    {"none", "running", "busy", "error", "launched", "ok", "died", "timeout", "already", "stopped",
     "swept", "killed"}

Signals == [target : Ids, name : {"TERM", "KILL"}, left : {1, 2}]

Commands ==
    [pc : Places, op : {"none", "up", "down", "down --all"}, svc : Services \cup {None},
     rec : Records \cup {NoRecord}, found : SUBSET Ids, due : SUBSET Ids, known : SUBSET Ids,
     todo : SUBSET Services, sig : Signals \cup {NoSignal}, polls : 0 .. MaxPolls, out : Outcomes]

TypeOK ==
    /\ proc \in [Pids -> Entries]
    /\ record \in [Services -> Records \cup {NoRecord}]
    /\ sock \in [Services -> Ids \cup {None}]
    /\ cli \in [Clis -> Commands]

\* The processes that are not those command c was sent to lower.
Foreign(c) ==
    {p \in Pids : proc[p].role = "stranger" \/ cli[c].svc \notin {None, proc[p].svc}}

\* No command ever goes after a process of somebody else: neither the heir of a PID it once
\* recorded or found nor, while it lowers one service, a process of another.  As long as
\* the process that was there at the check holds the number, the signals reach their own.
AimsOnlyAtItsOwn ==
    \A c \in Clis : \A p \in Foreign(c) : Live(p) => Id(p) # cli[c].sig.target

\* "No se señaliza a nadie": no signal takes a process of somebody else down, whatever
\* becomes of the target on the way.
NobodyElseIsSignalled ==
    [][\A c \in Clis : \A p \in Foreign(c) : SendsSignal(c) => UNCHANGED proc[p]]_vars

Returns(c, out) == ~ At(c, "idle") /\ cli'[c].pc = "idle" /\ cli'[c].out = out

Processes(s) == {p \in Pids : Live(p) /\ proc[p].svc = s}

\* p runs on the number of one of ids and is another process.
IsHeir(p, ids) == Id(p) \notin ids /\ p \in {id.pid : id \in ids}

\* When `down` has finished with a service and nobody else is at work, the record and
\* the socket are gone and so is every process of it, with a record or without: one that
\* runs on the number of the recorded process is the only one that can escape.
DownStops ==
    [][\A c \in Clis : Returns(c, "stopped") =>
        /\ \A p \in Processes(cli[c].svc) : IsHeir(p, {cli[c].rec.pid})
        /\ record'[cli[c].svc] = NoRecord
        /\ sock'[cli[c].svc] = None]_vars

\* `down --all` lowers everything, what has a record and what has lost it, again but for
\* the heirs of recorded numbers, which the sweep takes for what it has just lowered.
AllSweeps ==
    [][\A c \in Clis : Returns(c, "swept") =>
        \A s \in Services :
            /\ \A p \in Processes(s) : IsHeir(p, cli[c].known)
            /\ record[s] = NoRecord]_vars

\* Every command ends, whatever dies, ignores SIGTERM or runs at the same time.
EveryCommandEnds == \A c \in Clis : ~ At(c, "idle") ~> At(c, "idle")
==============================================================================
