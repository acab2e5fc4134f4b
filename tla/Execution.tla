------------------------------- MODULE Execution -------------------------------
(***************************************************************************)
(* One `sandboxctl run`: the plan, the adapter, the supervisor that waits   *)
(* for the load with a time-out, reads its output, samples its cgroup and   *)
(* serves its connections (crates/sandbox-runtimes/src, cgroup.rs), and the *)
(* report (evidence.rs).  Bytes of output are counted in units, and stdout  *)
(* and stderr are one output; the proxy is that of EgressProxy, reduced to  *)
(* the numbers of connections made, taken up and recorded.                  *)
(***************************************************************************)
EXTENDS Plan

CONSTANTS Requests,      \* what may be asked: [runtime, policy, workload]
          Hosts,         \* the hosts it may be asked of
          OutputBytes,   \* policy.resources.output_bytes
          MaxOutput,     \* bound: what a load writes
          PipeSize,      \* bound: what a pipe holds
          ProxyLimit,    \* MAX_CONNECTIONS of the proxy
          MaxAttempts    \* bound: connections of a load

\* What the theorems assume of the constants.
ExecutionAssumption ==
    /\ Requests \subseteq [runtime : Runtimes, policy : Policies, workload : Workloads]
    /\ Hosts \subseteq HostStates
    /\ {OutputBytes, MaxOutput, PipeSize, ProxyLimit, MaxAttempts} \subseteq Nat

VARIABLES request, host,
          steady,     \* ghost: the host has not changed since the plan
          plan, arguments, limits,
          pc,         \* where the command is
          child,      \* the process that was spawned: none, alive, or how it ended
          others,     \* other processes of the load: none, attached to its output, or silent
          scoped,     \* systemd has moved the child to its scope
          exposed,    \* ghost: the command ended before bubblewrap had tied itself to it
          watched,    \* the cgroup the sampler reads: none, session or scope
          usage,      \* the sampler's total: has it read anything
          seen,       \* ghost: some reading found something
          written, unread, kept, truncated,
          cut,        \* ghost: a drain has stopped at an error
          proxy,      \* none, open or finished
          attempts,   \* the connections the load has made
          backlog,    \* those of them that wait in the socket's queue
          taken,      \* those a thread was started for
          recorded,   \* those in the log
          report

decided == <<request, host, steady, plan>>
launch == <<arguments, limits>>
processes == <<child, others, scoped, exposed>>
sampling == <<watched, usage, seen>>
output == <<written, unread, kept, truncated, cut>>
connections == <<attempts, backlog, taken, recorded>>
network == <<proxy, attempts, backlog, taken, recorded>>
runVars == <<decided, launch, pc, processes, sampling, output, network, report>>

NoPlan == [effective |-> {}, unsupported |-> {}, executable |-> FALSE]

NoReport == [status |-> "none"]

RunInit ==
    /\ request \in Requests /\ host \in Hosts
    /\ steady = TRUE
    /\ plan = NoPlan /\ arguments = {} /\ limits = {}
    /\ pc = "asked"
    /\ child = "none" /\ others = "none" /\ scoped = FALSE /\ exposed = FALSE
    /\ watched = "none" /\ usage = FALSE /\ seen = FALSE
    /\ written = 0 /\ unread = 0 /\ kept = 0 /\ truncated = FALSE /\ cut = FALSE
    /\ proxy = "none" /\ attempts = 0 /\ backlog = 0 /\ taken = 0 /\ recorded = 0
    /\ report = NoReport

Runtime == request.runtime
Policy == request.policy

Goto(from, to) == pc = from /\ pc' = to

LoadAlive == child = "alive" \/ others # "none"

\* With these two the spawned process is not the load but starts it in namespaces.
Caged == Runtime \in {"bwrap", "unshare"}

\* What the end of the command does to the load: bubblewrap, once it runs, has asked to
\* die with its parent, and takes its PID namespace along.
LeavesLoad ==
    IF "--die-with-parent" \in arguments /\ others # "none"
    THEN child' = "killed" /\ others' = "none" /\ UNCHANGED exposed
    ELSE /\ exposed' = (exposed \/ ("--die-with-parent" \in arguments /\ child = "alive"))
         /\ UNCHANGED <<child, others>>

Lesser(a, b) == IF a < b THEN a ELSE b

------------------------------------------------------------------------------
(* The command *)

\* prepare
Plans ==
    /\ Goto("asked", "planned")
    /\ plan' = ExecutionPlan(Runtime, Policy, request.workload, host)
    /\ UNCHANGED <<request, host, steady, launch, processes, sampling, output, network, report>>

Verdict(status) ==
    IF plan.unsupported # {} THEN "controls-missing"
    ELSE CASE status \in {"planned", "blocked"} -> "not-executed"
           [] status = "completed" -> "contained"
           [] OTHER -> status

Answer(status) ==
    [status |-> status, verdict |-> Verdict(status), kept |-> kept, truncated |-> truncated,
     observed |-> usage, events |-> 0]

\* Evidence::planned
Declines ==
    /\ Goto("planned", "over")
    /\ ~ plan.executable
    /\ report' = Answer(IF Runtime = "dry-run" THEN "planned" ELSE "blocked")
    /\ UNCHANGED <<decided, launch, processes, sampling, output, network>>

\* The adapter's part before process::run: it asks the host again.
Prepares ==
    /\ Goto("planned", "prepared")
    /\ plan.executable
    /\ Runtime = "wasi" => request.workload.wasi
    /\ arguments' = Arguments(Runtime, Policy, host)
    /\ limits' = EffectiveLimits(Runtime, Policy, host)
    /\ proxy' = IF Runtime = "bwrap" /\ NeedsEgressProxy(Policy) THEN "open" ELSE "none"
    /\ UNCHANGED <<decided, processes, sampling, output, connections, report>>

\* An error leaves the command without a report: the adapter's own checks and files, the
\* spawn, wait_timeout.  The proxy is dropped on the way out, and the death of the
\* process takes a bubblewrap cage with it.
Fails ==
    /\ \/ pc = "planned" /\ plan.executable
       \/ pc \in {"prepared", "waiting"}
    /\ pc' = "failed"
    /\ proxy' = IF proxy = "open" THEN "finished" ELSE proxy
    /\ LeavesLoad
    /\ UNCHANGED <<decided, launch, scoped, sampling, output, connections, report>>

Spawns ==
    /\ Goto("prepared", "spawned")
    /\ child' = "alive"
    /\ UNCHANGED <<decided, launch, others, scoped, exposed, sampling, output, network, report>>

\* Sampler::start reads /proc/<pid>/cgroup at once; the drains start after it.
StartsSampler ==
    /\ Goto("spawned", "waiting")
    /\ watched' = IF "MemoryMax" \notin arguments \/ child # "alive" THEN "none"
                  ELSE IF scoped THEN "scope" ELSE "session"
    /\ UNCHANGED <<decided, launch, processes, usage, seen, output, network, report>>

\* What a reading finds: the scope is gone as soon as the load is.
Reading == watched = "session" \/ (watched = "scope" /\ LoadAlive)

Samples ==
    /\ pc = "waiting" /\ watched # "none"
    /\ usage' = (usage \/ Reading)
    /\ seen' = (seen \/ Reading)
    /\ UNCHANGED <<decided, launch, pc, processes, watched, output, network, report>>

\* wait_timeout answers the exit.
Exits ==
    /\ Goto("waiting", "exited")
    /\ child \in {"succeeded", "failed"}
    /\ UNCHANGED <<decided, launch, processes, sampling, output, network, report>>

\* It answers None; the kill reaches the spawned process alone, unless bubblewrap takes
\* its load along.  A child that ended in between is reported as timed out as well.
TimesOut ==
    /\ Goto("waiting", "timeout")
    /\ child' = IF child = "alive" THEN "killed" ELSE child
    /\ others' = IF "--die-with-parent" \in arguments THEN "none" ELSE others
    /\ UNCHANGED <<decided, launch, scoped, exposed, sampling, output, network, report>>

\* A drain reads whatever is there, and keeps what still fits.
Drains ==
    /\ pc \in {"waiting", "exited", "timeout"} /\ ~ cut
    /\ \E count \in 1 .. unread :
        LET take == Lesser(OutputBytes - kept, count)
        IN  /\ unread' = unread - count
            /\ kept' = kept + take
            /\ truncated' = (truncated \/ take < count)
    /\ UNCHANGED <<decided, launch, pc, processes, sampling, written, cut, network, report>>

\* `Ok(0) | Err(_) => break`: an error ends the drain like the end of the output does, and
\* nobody is told.  Its end of the pipe closes.
DrainFails ==
    /\ pc \in {"waiting", "exited", "timeout"} /\ ~ cut
    /\ cut' = TRUE
    /\ UNCHANGED <<decided, launch, pc, processes, sampling, written, unread, kept, truncated, network, report>>

\* The sampler is stopped, after a last reading, and the drains are joined: they end when
\* nobody holds the other end of the pipe any more, or at an error.
Joins ==
    /\ pc \in {"exited", "timeout"}
    /\ cut \/ (others # "attached" /\ unread = 0)
    /\ pc' = IF pc = "exited" THEN "collects" ELSE "gives up"
    /\ usage' = (usage \/ Reading) /\ seen' = (seen \/ Reading)
    /\ UNCHANGED <<decided, launch, processes, watched, output, network, report>>

\* Mutant: finish does not wait for the threads of the proxy.
ReportsAtOnce ==
    /\ pc \in {"collects", "gives up"}
    /\ pc' = "over"
    /\ proxy' = IF proxy = "open" THEN "finished" ELSE proxy
    /\ report' = [Answer(IF pc = "gives up" THEN "timeout"
                         ELSE IF child = "succeeded" THEN "completed" ELSE "failed")
                  EXCEPT !.events = recorded]
    /\ UNCHANGED <<decided, launch, processes, sampling, output, connections>>

\* proxy.finish, which stops accepting, joins the threads and then reads the log;
\* artifacts, clean-up, Evidence::executed and write.
Reports ==
    /\ pc \in {"collects", "gives up"}
    /\ recorded = taken
    /\ pc' = "over"
    /\ proxy' = IF proxy = "open" THEN "finished" ELSE proxy
    /\ report' = [Answer(IF pc = "gives up" THEN "timeout"
                         ELSE IF child = "succeeded" THEN "completed" ELSE "failed")
                  EXCEPT !.events = recorded]
    /\ UNCHANGED <<decided, launch, processes, sampling, output, connections>>

\* The command itself is killed; its threads, the proxy among them, die with it.
CommandDies ==
    /\ pc \notin {"over", "failed", "dead"}
    /\ pc' = "dead"
    /\ proxy' = IF proxy = "open" THEN "finished" ELSE proxy
    /\ LeavesLoad
    /\ UNCHANGED <<decided, launch, scoped, sampling, output, connections, report>>

------------------------------------------------------------------------------
(* The host and the load *)

\* prlimit is installed or removed.  (The probe of systemd-run is cached.)
HostChanges ==
    /\ pc = "planned" /\ steady
    /\ steady' = FALSE
    /\ host' = [host EXCEPT !.prlimit = ~ @]
    /\ UNCHANGED <<request, plan, launch, pc, processes, sampling, output, network, report>>

\* systemd-run has registered the scope and goes on to exec.
EntersScope ==
    /\ child = "alive" /\ "MemoryMax" \in arguments /\ ~ scoped
    /\ scoped' = TRUE
    /\ UNCHANGED <<decided, launch, pc, child, others, exposed, sampling, output, network, report>>

\* The runtime has made its namespaces and starts the load in them.
LoadStarts ==
    /\ child = "alive" /\ Caged /\ others = "none"
    /\ "MemoryMax" \in arguments => scoped
    /\ others' = "attached"
    /\ UNCHANGED <<decided, launch, pc, child, scoped, exposed, sampling, output, network, report>>

Running == IF Caged THEN others = "attached" ELSE child = "alive"

LoadWrites ==
    /\ (Running \/ others = "attached") /\ ~ cut
    /\ written < MaxOutput /\ unread < PipeSize
    /\ written' = written + 1 /\ unread' = unread + 1
    /\ UNCHANGED <<decided, launch, pc, processes, sampling, kept, truncated, cut, network, report>>

\* The connection waits in the queue of the proxy's socket.
LoadConnects ==
    /\ Running /\ proxy = "open" /\ attempts < MaxAttempts
    /\ attempts' = attempts + 1 /\ backlog' = backlog + 1
    /\ UNCHANGED <<decided, launch, pc, processes, sampling, output, proxy, taken, recorded, report>>

\* A native load leaves a process behind, with its output or without.
LoadForks ==
    /\ child = "alive" /\ Runtime = "native" /\ others = "none"
    /\ others' \in {"attached", "silent"}
    /\ UNCHANGED <<decided, launch, pc, child, scoped, exposed, sampling, output, network, report>>

\* The end of a namespace's first process is the end of all in it.  A runtime that
\* cannot start the load fails.
LoadExits ==
    /\ child = "alive"
    /\ child' \in IF Running THEN {"succeeded", "failed"} ELSE {"failed"}
    /\ others' = IF Caged THEN "none" ELSE others
    /\ UNCHANGED <<decided, launch, pc, scoped, exposed, sampling, output, network, report>>

OthersEnd ==
    /\ child # "alive" /\ others # "none"
    /\ others' \in {"silent", "none"} \ {others}
    /\ UNCHANGED <<decided, launch, pc, child, scoped, exposed, sampling, output, network, report>>

------------------------------------------------------------------------------
(* The proxy, as far as the report goes *)

\* The loop looks every 20 ms, and not again once finish has stopped it or accept has
\* failed: what waits in the queue then leaves no record.
ProxyAccepts ==
    /\ proxy = "open" /\ backlog > 0 /\ taken - recorded < ProxyLimit
    /\ backlog' = backlog - 1 /\ taken' = taken + 1
    /\ UNCHANGED <<decided, launch, pc, processes, sampling, output, proxy, attempts, recorded, report>>

\* Over the limit a connection is shut without a record.
ProxyRefuses ==
    /\ proxy = "open" /\ backlog > 0 /\ taken - recorded >= ProxyLimit
    /\ backlog' = backlog - 1
    /\ UNCHANGED <<decided, launch, pc, processes, sampling, output, proxy, attempts, taken, recorded, report>>

\* A thread has served its connection.
ProxyRecords ==
    /\ proxy = "open" /\ recorded < taken
    /\ recorded' = recorded + 1
    /\ UNCHANGED <<decided, launch, pc, processes, sampling, output, proxy, attempts, backlog, taken, report>>

ProxyWorks == ProxyAccepts \/ ProxyRefuses \/ ProxyRecords

------------------------------------------------------------------------------
Supervises ==
    \/ Plans \/ Declines \/ Prepares \/ Spawns \/ StartsSampler \/ Exits \/ TimesOut \/ Drains
    \/ Joins \/ Reports

Load == LoadStarts \/ LoadWrites \/ LoadConnects \/ LoadForks \/ LoadExits \/ OthersEnd

RunNext ==
    \/ Supervises \/ Samples \/ DrainFails \/ Fails \/ CommandDies \/ ProxyWorks
    \/ HostChanges \/ EntersScope \/ Load

\* Once the load is gone what it had open ends: its own side is closed, and destinations are
\* expected to close theirs, as in EgressProxy.
ConnectionsEnd == ~ Running /\ ProxyRecords

\* The supervisor runs and its time-out fires.  Nothing is asked of the load.
RunFairness == WF_runVars(Supervises) /\ WF_runVars(ConnectionsEnd)

RunSpec == RunInit /\ [][RunNext]_runVars /\ RunFairness

------------------------------------------------------------------------------
(* Properties *)

RunTypeOK ==
    /\ request \in Requests
    /\ plan.effective \cup plan.unsupported \subseteq Controls /\ plan.executable \in BOOLEAN
    /\ pc \in {"asked", "planned", "prepared", "spawned", "waiting", "exited", "timeout", "collects",
               "gives up", "over", "failed", "dead"}
    /\ child \in {"none", "alive", "succeeded", "failed", "killed"}
    /\ others \in {"none", "attached", "silent"}
    /\ watched \in {"none", "session", "scope"} /\ proxy \in {"none", "open", "finished"}
    /\ unread \in 0 .. PipeSize /\ kept \in 0 .. OutputBytes
    /\ kept + unread <= written
    /\ recorded <= taken /\ taken + backlog <= attempts

Launched == arguments # {}

\* What a report declares was put around the load by some argument, whatever the host
\* does meanwhile; and as long as the host stays as it was planned for, so was every
\* control the plan calls effective: a strict policy runs nothing that lacks one.
EffectiveMeansEnforced ==
    Launched =>
        /\ limits \subseteq Enforced(arguments)
        /\ steady => plan.effective \subseteq Enforced(arguments)
        /\ steady /\ Policy.strict => Policy.required \subseteq Enforced(arguments)

Ended == pc \in {"over", "failed", "dead"}

\* When the command has ended, in whatever way, nothing of a load in bubblewrap runs on
\* and its proxy is closed; unless the command ends before bubblewrap is in place.
NothingOutlivesTheRun ==
    /\ Ended /\ Runtime = "bwrap" /\ ~ exposed => ~ LoadAlive
    /\ Ended => proxy # "open"

Executed == report.status \in {"completed", "failed", "timeout"}

\* A report tells what was read of the output, up to the limit, and whether there was more,
\* and unless a drain has stopped at an error, which nobody is told, that is all that was
\* written; every connection the proxy took up (those still in its queue when it is
\* stopped, and those over its limit, are in no report); what any sample found; and
\* "contained" only of a load that ended by itself, successfully, with every control in
\* force.
ReportTellsWhatHappened ==
    Executed =>
        /\ report.kept = Lesser(OutputBytes, written - unread)
        /\ report.truncated = (written - unread > OutputBytes)
        /\ ~ cut => unread = 0
        /\ report.events = taken
        /\ report.observed = seen
        /\ report.verdict = "contained" =>
            child = "succeeded" /\ (steady => Policy.required \subseteq Enforced(arguments))

\* process.rs says that the figures of the host's session are worse than none: what is
\* published as the load's consumption comes from the load's own cgroup.
ObservedIsTheLoads == Executed /\ report.observed => watched = "scope"

\* Whatever the load does, a command that has spawned it in a sandbox that dies as a
\* whole ends, unless a destination holds one of its connections.
RunsEnd == pc = "waiting" /\ Runtime \in {"bwrap", "wasi"} ~> Ended
==============================================================================
