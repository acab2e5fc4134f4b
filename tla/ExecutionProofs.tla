---------------------------- MODULE ExecutionProofs ----------------------------
(***************************************************************************)
(* What holds of an execution for every request, every host and every bound.*)
(*                                                                          *)
(* First the plan and the adapters, which are written apart: each thing one *)
(* of them promises has a mechanism among the arguments the other composes  *)
(* (PlanIsEnforced, LimitsAreEnforced).  Then the state machine: what ties  *)
(* its variables together from one step to the next.                        *)
(***************************************************************************)
EXTENDS Execution, TLAPS

\* Which argument is enough for what.
LEMMA EnforcedBy ==
    ASSUME NEW A
    PROVE  /\ "--ro-bind" \in A \/ "--dir" \in A => "filesystem" \in Enforced(A)
           /\ "--unshare-net" \in A \/ "--net" \in A \/ "wasmtime run" \in A => "network" \in Enforced(A)
           /\ "wait_timeout" \in A => "timeout" \in Enforced(A)
           /\ "drain" \in A => "output" \in Enforced(A)
           /\ "env_clear" \in A => "environment" \in Enforced(A)
           /\ "--cap-drop" \in A => "capabilities" \in Enforced(A)
           /\ "--dev" \in A => "devices" \in Enforced(A)
           /\ "--seccomp" \in A => "syscalls" \in Enforced(A)
           /\ "--as" \in A \/ "MemoryMax" \in A => "memory" \in Enforced(A)
           /\ "TasksMax" \in A => "processes" \in Enforced(A)
           /\ "CPUQuota" \in A => "cpu" \in Enforced(A)
           /\ "--uid" \in A => "user" \in Enforced(A)
           /\ "--nofile" \in A => "openFiles" \in Enforced(A)
           /\ "--user" \in A => "namespaces" \in Enforced(A)
<1>1. ASSUME NEW control, NEW argument \in A, <<control, argument>> \in Mechanisms
      PROVE  control \in Enforced(A)
    BY <1>1 DEF Enforced
<1>2. /\ <<"filesystem", "--ro-bind">> \in Mechanisms /\ <<"filesystem", "--dir">> \in Mechanisms
      /\ <<"network", "--unshare-net">> \in Mechanisms /\ <<"network", "--net">> \in Mechanisms
      /\ <<"network", "wasmtime run">> \in Mechanisms /\ <<"timeout", "wait_timeout">> \in Mechanisms
      /\ <<"output", "drain">> \in Mechanisms /\ <<"environment", "env_clear">> \in Mechanisms
      /\ <<"capabilities", "--cap-drop">> \in Mechanisms /\ <<"devices", "--dev">> \in Mechanisms
      /\ <<"syscalls", "--seccomp">> \in Mechanisms /\ <<"memory", "--as">> \in Mechanisms
      /\ <<"memory", "MemoryMax">> \in Mechanisms /\ <<"processes", "TasksMax">> \in Mechanisms
      /\ <<"cpu", "CPUQuota">> \in Mechanisms /\ <<"user", "--uid">> \in Mechanisms
      /\ <<"openFiles", "--nofile">> \in Mechanisms /\ <<"namespaces", "--user">> \in Mechanisms
    BY DEF Mechanisms
<1>3. QED BY <1>1, <1>2

\* What bubblewrap is told, and the supervisor does, for a policy on a host.
LEMMA ArgumentsOfBwrap ==
    ASSUME NEW p \in Policies, NEW h
    PROVE  /\ {"--ro-bind", "--dev", "--cap-drop", "--uid", "--die-with-parent", "env_clear",
               "wait_timeout", "drain"} \subseteq Arguments("bwrap", p, h)
           /\ IsolatesHostNetwork(p) => "--unshare-net" \in Arguments("bwrap", p, h)
           /\ Filtered(p, h) => "--seccomp" \in Arguments("bwrap", p, h)
           /\ h.prlimit => {"--as", "--nofile"} \subseteq Arguments("bwrap", p, h)
           /\ h.scope => {"MemoryMax", "TasksMax", "CPUQuota"} \subseteq Arguments("bwrap", p, h)
<1>1. Arguments("bwrap", p, h) = Supervised \cup (Sandbox(p, h) \cup Rlimits(h) \cup Scope(h))
    BY DEF Arguments
<1>2. QED BY <1>1 DEF Supervised, Sandbox, Rlimits, Scope, When

LEMMA ArgumentsOfUnshare ==
    ASSUME NEW p \in Policies, NEW h
    PROVE  /\ {"--user", "env_clear", "wait_timeout", "drain"} \subseteq Arguments("unshare", p, h)
           /\ IsolatesHostNetwork(p) => "--net" \in Arguments("unshare", p, h)
           /\ h.prlimit => {"--as", "--nofile"} \subseteq Arguments("unshare", p, h)
<1>1. Arguments("unshare", p, h) = Supervised \cup Unshared(p, h)
    BY DEF Arguments
<1>2. QED BY <1>1 DEF Supervised, Unshared, Rlimits, When

LEMMA ArgumentsOfOthers ==
    ASSUME NEW p \in Policies, NEW h
    PROVE  /\ {"wasmtime run", "--dir", "env_clear", "wait_timeout", "drain"} \subseteq Arguments("wasi", p, h)
           /\ \A r \in Runtimes : {"env_clear", "wait_timeout", "drain"} \subseteq Arguments(r, p, h)
BY DEF Arguments, Supervised, Wasmtime

\* Everything an adapter lists under limits.effective is put into effect by one of the
\* arguments it composes for the same policy and host.
THEOREM LimitsAreEnforced ==
    ASSUME NEW r \in Runtimes, NEW p \in Policies, NEW h
    PROVE  EffectiveLimits(r, p, h) \subseteq Enforced(Arguments(r, p, h))
<1>1. CASE r = "bwrap"
    <2>1. BwrapLimits(p, h) \subseteq Enforced(Arguments("bwrap", p, h))
        <3>1. {"timeout", "filesystem", "user", "output"} \subseteq Enforced(Arguments("bwrap", p, h))
            BY ArgumentsOfBwrap, EnforcedBy
        <3>2. NetworkKey(p) \subseteq Enforced(Arguments("bwrap", p, h))
            BY ArgumentsOfBwrap, EnforcedBy DEF NetworkKey, When
        <3>3. RlimitKeys(h) \subseteq Enforced(Arguments("bwrap", p, h))
            BY ArgumentsOfBwrap, EnforcedBy DEF RlimitKeys, When
        <3>4. When(h.scope, ScopeControls) \subseteq Enforced(Arguments("bwrap", p, h))
            BY ArgumentsOfBwrap, EnforcedBy DEF ScopeControls, When
        <3>5. When(Filtered(p, h), {"syscalls"}) \subseteq Enforced(Arguments("bwrap", p, h))
            BY ArgumentsOfBwrap, EnforcedBy DEF When
        <3>6. QED BY <3>1, <3>2, <3>3, <3>4, <3>5 DEF BwrapLimits
    <2>2. QED BY <1>1, <2>1 DEF EffectiveLimits
<1>2. CASE r = "unshare"
    <2>1. {"timeout", "namespaces", "output"} \subseteq Enforced(Arguments("unshare", p, h))
        BY ArgumentsOfUnshare, EnforcedBy
    <2>2. NetworkKey(p) \subseteq Enforced(Arguments("unshare", p, h))
        BY ArgumentsOfUnshare, EnforcedBy DEF NetworkKey, When
    <2>3. RlimitKeys(h) \subseteq Enforced(Arguments("unshare", p, h))
        BY ArgumentsOfUnshare, EnforcedBy DEF RlimitKeys, When
    <2>4. QED BY <1>2, <2>1, <2>2, <2>3 DEF EffectiveLimits, UnshareLimits
<1>3. CASE r = "wasi"
    <2>1. {"timeout", "filesystem", "network"} \subseteq Enforced(Arguments("wasi", p, h))
        BY ArgumentsOfOthers, EnforcedBy
    <2>2. QED BY <1>3, <2>1 DEF EffectiveLimits
<1>4. CASE r \notin {"bwrap", "unshare", "wasi"}
    <2>1. {"timeout", "output"} \subseteq Enforced(Arguments(r, p, h))
        BY ArgumentsOfOthers, EnforcedBy
    <2>2. QED BY <1>4, <2>1 DEF EffectiveLimits
<1>5. QED BY <1>1, <1>2, <1>3, <1>4

\* The runtimes with an adapter that runs something.
Executables == {"native", "bwrap", "unshare", "wasi"}

\* Every control the plan calls effective is put into effect by an argument of the adapter.
THEOREM PlanIsEnforced ==
    ASSUME NEW r \in Executables, NEW p \in Policies, NEW h
    PROVE  SupportedControls(r, p, h) \subseteq Enforced(Arguments(r, p, h))
<1> DEFINE E == Enforced(Arguments(r, p, h))
<1>1. CASE r = "bwrap"
    <2>1. {"filesystem", "timeout", "capabilities", "devices", "environment", "output"} \subseteq E
        BY <1>1, ArgumentsOfBwrap, EnforcedBy
    <2>2. /\ IsolatesHostNetwork(p) => "network" \in E
          /\ h.prlimit => "memory" \in E
          /\ Filtered(p, h) => "syscalls" \in E
        BY <1>1, ArgumentsOfBwrap, EnforcedBy
    <2>3. h.scope => ScopeControls \subseteq E
        BY <1>1, ArgumentsOfBwrap, EnforcedBy DEF ScopeControls
    <2>4. Declared(r) = {"filesystem", "network", "timeout", "capabilities", "devices", "environment",
                         "output"}
        BY <1>1 DEF Declared
    <2>5. ASSUME NEW c \in SupportedControls(r, p, h)
          PROVE  c \in E
        <3>1. c = "network" => IsolatesHostNetwork(p)
            BY <1>1, <2>5 DEF SupportedControls, When
        <3>2. \/ c \in Declared(r) \/ c \in When(h.prlimit, {"memory"})
              \/ c \in When(h.scope, ScopeControls) \/ c \in When(Filtered(p, h), {"syscalls"})
            BY <1>1, <2>5 DEF SupportedControls, When
        <3>3. QED BY <2>1, <2>2, <2>3, <2>4, <3>1, <3>2 DEF When
    <2>6. QED BY <2>5
<1>2. CASE r = "unshare"
    <2>1. {"timeout", "environment", "output"} \subseteq E
        BY <1>2, ArgumentsOfUnshare, EnforcedBy
    <2>2. /\ IsolatesHostNetwork(p) => "network" \in E
          /\ h.prlimit => "memory" \in E
        BY <1>2, ArgumentsOfUnshare, EnforcedBy
    <2>3. Declared(r) = {"network", "timeout", "environment", "output"}
        BY <1>2 DEF Declared
    <2>4. ASSUME NEW c \in SupportedControls(r, p, h)
          PROVE  c \in E
        <3>1. c = "network" => IsolatesHostNetwork(p)
            BY <1>2, <2>4 DEF SupportedControls, When
        <3>2. c \in Declared(r) \/ c \in When(h.prlimit, {"memory"})
            BY <1>2, <2>4 DEF SupportedControls, When
        <3>3. QED BY <2>1, <2>2, <2>3, <3>1, <3>2 DEF When
    <2>5. QED BY <2>4
<1>3. CASE r = "wasi"
    <2>1. {"filesystem", "network", "timeout", "environment", "output"} \subseteq E
        BY <1>3, ArgumentsOfOthers, EnforcedBy
    <2>2. SupportedControls(r, p, h) \subseteq {"filesystem", "network", "timeout", "environment", "output"}
        BY <1>3 DEF SupportedControls, Declared, When
    <2>3. QED BY <2>1, <2>2
<1>4. CASE r = "native"
    <2>1. {"timeout", "environment", "output"} \subseteq E
        BY <1>4, ArgumentsOfOthers, EnforcedBy DEF Runtimes
    <2>2. SupportedControls(r, p, h) \subseteq {"timeout", "environment", "output"}
        BY <1>4 DEF SupportedControls, Declared, When
    <2>3. QED BY <2>1, <2>2
<1>5. QED BY <1>1, <1>2, <1>3, <1>4 DEF Executables

------------------------------------------------------------------------------
(* The invariant, in named parts *)

\* The types of what Planned and Piped do not say more about.
Typed ==
    /\ request \in Requests
    /\ pc \in {"asked", "planned", "prepared", "spawned", "waiting", "exited", "timeout", "collects",
               "gives up", "over", "failed", "dead"}
    /\ child \in {"none", "alive", "succeeded", "failed", "killed"}
    /\ others \in {"none", "attached", "silent"}
    /\ watched \in {"none", "session", "scope"} /\ proxy \in {"none", "open", "finished"}
    /\ written \in Nat /\ unread \in Nat /\ unread <= PipeSize

\* A plan divides what the policy requires, blocks a strict one that lacks something, and
\* counts on what the host it was made for supports.
Planned ==
    /\ plan.executable \in BOOLEAN
    /\ plan.effective \subseteq Controls /\ plan.unsupported \subseteq Controls
    /\ plan.executable =>
        /\ Runtime \in Executables
        /\ plan.unsupported = Policy.required \ plan.effective
        /\ Policy.strict => plan.unsupported = {}
        /\ steady => plan.effective \subseteq SupportedControls(Runtime, Policy, host)

Early == pc \in {"asked", "planned"}

AtWork == pc \in {"prepared", "spawned", "waiting", "exited", "timeout", "collects", "gives up"}

\* What was launched was planned, and its arguments keep what plan and limits say.
Composed ==
    /\ Early => ~ Launched
    /\ AtWork => Launched
    /\ Launched =>
        /\ plan.executable
        /\ Runtime = "bwrap" => "--die-with-parent" \in arguments
        /\ limits \subseteq Enforced(arguments)
        /\ steady => plan.effective \subseteq Enforced(arguments)

Waited == pc \in {"exited", "timeout", "collects", "gives up"}

\* A cage has nobody in it once its first process has ended; whoever was waited for has.
Caging ==
    /\ Early \/ pc = "prepared" => child = "none"
    /\ pc \in {"spawned", "waiting"} => child # "none"
    /\ child # "none" => Launched
    /\ child = "none" => others = "none"
    /\ Runtime = "bwrap" /\ child # "alive" => others = "none"
    /\ Waited => child \in {"succeeded", "failed", "killed"}
    /\ Ended /\ Runtime = "bwrap" /\ ~ exposed => child # "alive"

\* The proxy is open at most while the command is at work.
Proxied ==
    /\ Early => proxy = "none"
    /\ ~ Ended => proxy # "finished"
    /\ Ended => proxy # "open"

\* Every connection is in the queue, taken up or refused, and recorded once at most.
Tallied ==
    /\ attempts \in Nat /\ backlog \in Nat /\ taken \in Nat /\ recorded \in Nat
    /\ recorded <= taken /\ taken + backlog <= attempts

\* What the drains keep is the beginning of what they have read.
Piped ==
    /\ unread <= written
    /\ kept = Lesser(OutputBytes, written - unread)
    /\ truncated = (written - unread > OutputBytes)
    /\ usage = seen
    /\ pc \in {"collects", "gives up"} => cut \/ (unread = 0 /\ others # "attached")

\* A report of an execution is the last thing written, when nobody writes any more.
Told ==
    /\ pc # "over" => report = NoReport
    /\ Executed =>
        /\ cut \/ (unread = 0 /\ others # "attached")
        /\ child \in {"succeeded", "failed", "killed"}
        /\ report.kept = kept /\ report.truncated = truncated
        /\ report.observed = usage /\ report.events = taken
        /\ Launched
        /\ report.verdict = "contained" => child = "succeeded" /\ plan.unsupported = {}

Inv == Typed /\ Planned /\ Composed /\ Caging /\ Proxied /\ Tallied /\ Piped /\ Told

USE DEF decided, launch, processes, sampling, output, connections, network, Goto

\* What a failing drain and the proxy leave alone.
LEMMA Aside ==
    ASSUME DrainFails \/ ProxyWorks
    PROVE  UNCHANGED <<request, host, steady, plan, arguments, limits, pc, child, others, scoped, exposed, watched,
                       usage, seen, written, unread, kept, truncated, proxy, report>>
<1>1. CASE DrainFails
    BY <1>1 DEF DrainFails
<1>2. CASE ProxyWorks
    BY <1>2 DEF ProxyWorks, ProxyAccepts, ProxyRefuses, ProxyRecords
<1>3. QED BY <1>1, <1>2

\* What the assumptions say of a request.
LEMMA OfRequest ==
    ASSUME ExecutionAssumption, request \in Requests
    PROVE  Runtime \in Runtimes /\ Policy \in Policies /\ Policy.required \subseteq Controls
<1>1. request \in [runtime : Runtimes, policy : Policies, workload : Workloads]
    BY DEF ExecutionAssumption
<1>2. Runtime \in Runtimes /\ Policy \in Policies
    BY <1>1 DEF Runtime, Policy
<1>3. QED BY <1>2 DEF Policies

LEMMA InitImpliesInv ==
    ASSUME ExecutionAssumption, RunInit
    PROVE  Inv
<1>1. OutputBytes \in Nat /\ PipeSize \in Nat
    BY DEF ExecutionAssumption
<1>2. Typed
    BY <1>1 DEF RunInit, Typed, NoPlan
<1>3. Planned /\ Composed /\ Caging /\ Proxied /\ Tallied /\ Told
    BY DEF RunInit, Planned, Composed, Caging, Proxied, Tallied, Told, NoPlan, NoReport, Launched, Early, AtWork, Waited,
           Ended, Executed
<1>4. Piped
    <2>1. unread = 0 /\ written = 0 /\ kept = 0
        BY DEF RunInit
    <2>2. (written - unread > OutputBytes) = FALSE
        BY <1>1 DEF RunInit
    <2>3. truncated = FALSE
        BY DEF RunInit
    <2>4. unread <= written /\ kept = Lesser(OutputBytes, written - unread)
        <3>1. Lesser(OutputBytes, 0) = 0
            BY <1>1 DEF Lesser
        <3>2. written - unread = 0
            BY <2>1
        <3>3. QED BY <2>1, <3>1, <3>2
    <2>5. usage = seen /\ pc \notin {"collects", "gives up"}
        BY DEF RunInit
    <2>6. QED BY <2>1, <2>2, <2>3, <2>4, <2>5 DEF Piped
<1>5. QED BY <1>2, <1>3, <1>4 DEF Inv

------------------------------------------------------------------------------
(* Each part is kept by every step *)

\* The plan as it is made.
LEMMA PlanMade ==
    ASSUME ExecutionAssumption, Inv, Plans
    PROVE  /\ plan'.executable \in BOOLEAN
           /\ plan'.effective \subseteq Controls /\ plan'.unsupported \subseteq Controls
           /\ plan'.unsupported = Policy.required \ plan'.effective
           /\ plan'.executable => Runtime \in Executables /\ (Policy.strict => plan'.unsupported = {})
           /\ plan'.effective \subseteq SupportedControls(Runtime, Policy, host)
<1>1. Runtime \in Runtimes /\ Policy.required \subseteq Controls
    BY OfRequest DEF Inv, Typed
<1>2. plan' = ExecutionPlan(Runtime, Policy, request.workload, host)
    BY DEF Plans
<1> DEFINE S == SupportedControls(Runtime, Policy, host)
<1>3. /\ plan'.effective = Policy.required \cap S
      /\ plan'.unsupported = Policy.required \ S
      /\ plan'.executable \in BOOLEAN
      /\ plan'.executable => Runtime # "dry-run" /\ Runtime \notin Manual
                             /\ ~ (Policy.strict /\ Policy.required \ S # {})
    BY <1>2 DEF ExecutionPlan
<1>4. Runtime # "dry-run" /\ Runtime \notin Manual => Runtime \in Executables
    BY <1>1 DEF Runtimes, Manual, Executables
<1>5. QED BY <1>1, <1>3, <1>4

LEMMA KeepsTyped ==
    ASSUME ExecutionAssumption, Inv, [RunNext]_runVars
    PROVE  Typed'
<1>1. PipeSize \in Nat /\ Typed
    BY DEF Inv, ExecutionAssumption
<1>2. CASE Supervises
    <2>1. CASE Plans
        BY <1>1, <2>1, PlanMade DEF Plans, Typed
    <2>2. CASE Declines \/ Spawns \/ Exits \/ Joins \/ StartsSampler
        BY <1>1, <2>2 DEF Declines, Spawns, Exits, Joins, StartsSampler, Typed, Reading
    <2>3. CASE Prepares \/ TimesOut \/ Reports
        BY <1>1, <2>3 DEF Prepares, TimesOut, Reports, Typed
    <2>4. CASE Drains
        <3>1. unread \in Nat /\ unread <= PipeSize /\ PipeSize \in Nat
            BY <1>1 DEF Typed
        <3>2. PICK count \in 1 .. unread : unread' = unread - count
            BY <2>4 DEF Drains
        <3>3. unread' \in Nat /\ unread' <= PipeSize
            BY <3>1, <3>2
        <3>4. UNCHANGED <<request, pc, child, others, watched, proxy, written>>
            BY <2>4 DEF Drains
        <3>5. QED BY <1>1, <3>3, <3>4 DEF Typed
    <2>5. QED BY <1>2, <2>1, <2>2, <2>3, <2>4 DEF Supervises
<1>3. CASE Samples \/ Fails \/ CommandDies \/ EntersScope
    BY <1>1, <1>3 DEF Samples, Fails, CommandDies, EntersScope, LeavesLoad, Typed, Reading
<1>4. CASE HostChanges
    BY <1>1, <1>4 DEF HostChanges, Typed
<1>5. CASE Load
    <2>1. CASE LoadStarts \/ LoadConnects \/ LoadForks \/ LoadExits \/ OthersEnd
        BY <1>1, <2>1 DEF LoadStarts, LoadConnects, LoadForks, LoadExits, OthersEnd, Typed
    <2>2. CASE LoadWrites
        <3>1. written \in Nat /\ unread \in Nat /\ PipeSize \in Nat
            BY <1>1 DEF Typed
        <3>2. written' = written + 1 /\ unread' = unread + 1 /\ unread < PipeSize
            BY <2>2 DEF LoadWrites
        <3>3. written' \in Nat /\ unread' \in Nat /\ unread' <= PipeSize
            BY <3>1, <3>2
        <3>4. UNCHANGED <<request, pc, child, others, watched, proxy>>
            BY <2>2 DEF LoadWrites
        <3>5. QED BY <1>1, <3>3, <3>4 DEF Typed
    <2>3. QED BY <1>5, <2>1, <2>2 DEF Load
<1>6. CASE DrainFails \/ ProxyWorks
    BY <1>1, <1>6, Aside DEF Typed
<1>7. CASE UNCHANGED runVars
    BY <1>1, <1>7 DEF runVars, Typed
<1>8. QED BY <1>2, <1>3, <1>4, <1>5, <1>6, <1>7 DEF RunNext

\* Requests and hosts stay as they are, but for the plan that is made and the one change.
LEMMA Decided ==
    ASSUME [RunNext]_runVars, ~ Plans, ~ HostChanges
    PROVE  UNCHANGED <<request, host, steady, plan>> /\ Runtime' = Runtime /\ Policy' = Policy
<1>1. UNCHANGED <<request, host, steady, plan>>
    <2>1. CASE Supervises
        BY <2>1 DEF Supervises, Declines, Prepares, Spawns, StartsSampler, Exits, TimesOut, Drains, Joins,
                    Reports
    <2>2. CASE Samples \/ Fails \/ CommandDies \/ EntersScope
        BY <2>2 DEF Samples, Fails, CommandDies, EntersScope
    <2>3. CASE Load
        BY <2>3 DEF Load, LoadStarts, LoadWrites, LoadConnects, LoadForks, LoadExits, OthersEnd
    <2>4. CASE DrainFails \/ ProxyWorks
        BY <2>4, Aside
    <2>5. CASE UNCHANGED runVars
        BY <2>5 DEF runVars
    <2>6. QED BY <2>1, <2>2, <2>3, <2>4, <2>5 DEF RunNext
<1>2. QED BY <1>1 DEF Runtime, Policy

LEMMA KeepsPlanned ==
    ASSUME ExecutionAssumption, Inv, [RunNext]_runVars
    PROVE  Planned'
<1>1. Planned
    BY DEF Inv
<1>2. CASE Plans
    <2>1. UNCHANGED <<request, host>>
        BY <1>2 DEF Plans
    <2>2. Runtime' = Runtime /\ Policy' = Policy
        BY <2>1 DEF Runtime, Policy
    <2>3. SupportedControls(Runtime, Policy, host)' = SupportedControls(Runtime, Policy, host)
        BY <2>1 DEF Runtime, Policy, SupportedControls, Declared, Filtered, IsolatesHostNetwork
    <2>4. QED BY <1>2, <2>2, <2>3, PlanMade DEF Planned
<1>3. CASE HostChanges
    <2>1. UNCHANGED <<request, plan>> /\ steady' = FALSE
        BY <1>3 DEF HostChanges
    <2>2. Runtime' = Runtime /\ Policy' = Policy
        BY <2>1 DEF Runtime, Policy
    <2>3. QED BY <1>1, <2>1, <2>2 DEF Planned
<1>4. CASE ~ Plans /\ ~ HostChanges
    <2>1. UNCHANGED <<request, host, steady, plan>> /\ Runtime' = Runtime /\ Policy' = Policy
        BY <1>4, Decided
    <2>2. SupportedControls(Runtime, Policy, host)' = SupportedControls(Runtime, Policy, host)
        BY <2>1 DEF Runtime, Policy, SupportedControls, Declared, Filtered, IsolatesHostNetwork
    <2>3. QED BY <1>1, <2>1, <2>2 DEF Planned
<1>5. QED BY <1>2, <1>3, <1>4

\* The arguments and the limits are composed once.
LEMMA LaunchedOnce ==
    ASSUME [RunNext]_runVars, ~ Prepares
    PROVE  UNCHANGED <<arguments, limits>>
<1>1. CASE Supervises
    BY <1>1 DEF Supervises, Plans, Declines, Spawns, StartsSampler, Exits, TimesOut, Drains, Joins, Reports
<1>2. CASE Samples \/ Fails \/ CommandDies \/ EntersScope \/ HostChanges
    BY <1>2 DEF Samples, Fails, CommandDies, EntersScope, HostChanges
<1>3. CASE Load
    BY <1>3 DEF Load, LoadStarts, LoadWrites, LoadConnects, LoadForks, LoadExits, OthersEnd
<1>4. CASE DrainFails \/ ProxyWorks
    BY <1>4, Aside
<1>5. CASE UNCHANGED runVars
    BY <1>5 DEF runVars
<1>6. QED BY <1>1, <1>2, <1>3, <1>4, <1>5 DEF RunNext

\* How the command goes on.
LEMMA Course ==
    ASSUME [RunNext]_runVars
    PROVE  \/ UNCHANGED pc
           \/ Plans \/ Declines \/ Prepares
           \/ pc = "prepared" /\ pc' = "spawned"
           \/ pc = "spawned" /\ pc' = "waiting"
           \/ pc = "waiting" /\ pc' \in {"exited", "timeout"}
           \/ pc \in {"exited", "timeout"} /\ pc' \in {"collects", "gives up"}
           \/ Reports \/ Fails \/ CommandDies
<1>1. CASE Supervises
    BY <1>1 DEF Supervises, Spawns, StartsSampler, Exits, TimesOut, Drains, Joins
<1>2. CASE Samples \/ EntersScope \/ HostChanges
    BY <1>2 DEF Samples, EntersScope, HostChanges
<1>3. CASE Load
    BY <1>3 DEF Load, LoadStarts, LoadWrites, LoadConnects, LoadForks, LoadExits, OthersEnd
<1>4. CASE DrainFails \/ ProxyWorks
    BY <1>4, Aside
<1>5. CASE UNCHANGED runVars
    BY <1>5 DEF runVars
<1>6. QED BY <1>1, <1>2, <1>3, <1>4, <1>5 DEF RunNext

LEMMA KeepsComposed ==
    ASSUME ExecutionAssumption, Inv, [RunNext]_runVars
    PROVE  Composed'
<1>1. Composed /\ Planned /\ Typed
    BY DEF Inv
<1>2. CASE Prepares
    <2>1. /\ pc' = "prepared" /\ plan.executable
          /\ arguments' = Arguments(Runtime, Policy, host)
          /\ limits' = EffectiveLimits(Runtime, Policy, host)
          /\ UNCHANGED <<request, steady, plan>>
        BY <1>2 DEF Prepares
    <2>2. /\ Runtime \in Executables /\ Policy \in Policies
          /\ steady => plan.effective \subseteq SupportedControls(Runtime, Policy, host)
        BY <1>1, <2>1, OfRequest DEF Planned, Typed
    <2>3. Launched' /\ (Runtime = "bwrap" => "--die-with-parent" \in arguments')
        <3>1. "drain" \in arguments'
            BY <2>1 DEF Arguments, Supervised
        <3>2. QED BY <2>1, <2>2, <3>1, ArgumentsOfBwrap DEF Launched
    <2>4. limits' \subseteq Enforced(arguments')
        BY <2>1, <2>2, LimitsAreEnforced DEF Executables, Runtimes
    <2>5. steady => plan.effective \subseteq Enforced(arguments')
        BY <2>1, <2>2, PlanIsEnforced
    <2>6. Runtime' = Runtime
        BY <2>1 DEF Runtime
    <2>7. QED BY <2>1, <2>3, <2>4, <2>5, <2>6 DEF Composed, Early, AtWork, Enforced
<1>3. CASE Plans
    <2>1. pc = "asked" /\ pc' = "planned" /\ UNCHANGED <<arguments, limits>>
        BY <1>3 DEF Plans
    <2>2. QED BY <1>1, <2>1 DEF Composed, Early, AtWork, Launched
<1>4. CASE HostChanges
    <2>1. UNCHANGED <<request, plan, pc, arguments, limits>> /\ steady' = FALSE
        BY <1>4 DEF HostChanges
    <2>2. QED BY <1>1, <2>1 DEF Composed, Early, AtWork, Launched, Runtime, Enforced
<1>5. CASE ~ Prepares /\ ~ Plans /\ ~ HostChanges
    <2>1. UNCHANGED <<steady, plan, arguments, limits>> /\ Runtime' = Runtime
        BY <1>5, Decided, LaunchedOnce
    <2>2. (Early' => Early) /\ (AtWork' => AtWork)
        BY <1>5, Course DEF Early, AtWork, Declines, Reports, Fails, CommandDies
    <2>3. QED BY <1>1, <2>1, <2>2 DEF Composed, Launched, Enforced
<1>6. QED BY <1>2, <1>3, <1>4, <1>5

LEMMA KeepsCaging ==
    ASSUME ExecutionAssumption, Inv, [RunNext]_runVars
    PROVE  Caging'
<1>1. Caging /\ Composed /\ Typed
    BY DEF Inv
<1>2. CASE Plans \/ Prepares \/ HostChanges
    <2>1. /\ Early /\ (Early' \/ pc' = "prepared")
          /\ UNCHANGED <<request, child, others, exposed>>
        BY <1>2 DEF Plans, Prepares, HostChanges, Early
    <2>2. child = "none" /\ others = "none"
        BY <1>1, <2>1 DEF Caging
    <2>3. QED BY <2>1, <2>2 DEF Caging, Early, Waited, Ended
<1>3. CASE ~ Plans /\ ~ Prepares /\ ~ HostChanges
    <2>1. Launched' = Launched /\ Runtime' = Runtime
        BY <1>3, LaunchedOnce, Decided DEF Launched
    <2>2. CASE Spawns
        BY <1>1, <2>1, <2>2 DEF Spawns, Caging, Composed, Early, AtWork, Waited, Ended
    <2>3. CASE Declines \/ StartsSampler \/ Exits \/ Joins \/ Reports
        BY <1>1, <2>1, <2>3 DEF Declines, StartsSampler, Exits, Joins, Reports, Caging, Early, Waited, Ended
    <2>4. CASE TimesOut
        <3>1. /\ pc = "waiting" /\ pc' = "timeout" /\ UNCHANGED exposed
              /\ child' = IF child = "alive" THEN "killed" ELSE child
              /\ others' = IF "--die-with-parent" \in arguments THEN "none" ELSE others
            BY <2>4 DEF TimesOut
        <3>2. child # "none" /\ Launched /\ child' \in {"succeeded", "failed", "killed"}
            BY <1>1, <3>1 DEF Caging, Typed
        <3>3. Runtime = "bwrap" => others' = "none"
            BY <1>1, <3>1, <3>2 DEF Composed
        <3>4. QED BY <2>1, <3>1, <3>2, <3>3 DEF Caging, Early, Waited, Ended
    <2>5. CASE Fails \/ CommandDies
        <3>1. Ended' /\ LeavesLoad
            BY <2>5 DEF Fails, CommandDies, Ended
        <3>2. ~ Early' /\ pc' \notin {"prepared", "spawned", "waiting"} /\ ~ Waited'
            BY <3>1 DEF Early, Ended, Waited
        <3>3. CASE "--die-with-parent" \in arguments /\ others # "none"
            <4>1. child' = "killed" /\ others' = "none" /\ UNCHANGED exposed
                BY <3>1, <3>3 DEF LeavesLoad
            <4>2. child # "none"
                BY <1>1, <3>3 DEF Caging
            <4>3. QED BY <1>1, <2>1, <3>2, <4>1, <4>2 DEF Caging
        <3>4. CASE ~ ("--die-with-parent" \in arguments /\ others # "none")
            <4>1. /\ exposed' = (exposed \/ ("--die-with-parent" \in arguments /\ child = "alive"))
                  /\ UNCHANGED <<child, others>>
                BY <3>1, <3>4 DEF LeavesLoad
            <4>2. Runtime = "bwrap" /\ child = "alive" => exposed'
                BY <1>1, <4>1 DEF Caging, Composed
            <4>3. QED BY <1>1, <2>1, <3>2, <4>1, <4>2 DEF Caging
        <3>5. QED BY <3>3, <3>4
    <2>6. CASE \/ Drains \/ Samples \/ DrainFails \/ ProxyWorks \/ EntersScope \/ LoadWrites \/ LoadConnects
               \/ UNCHANGED runVars
        <3>1. UNCHANGED <<pc, child, others, exposed>>
            BY <2>6, Aside DEF Drains, Samples, EntersScope, LoadWrites, LoadConnects, runVars
        <3>2. QED BY <1>1, <2>1, <3>1 DEF Caging, Early, Waited, Ended
    <2>7. CASE LoadStarts \/ LoadForks
        BY <1>1, <2>1, <2>7 DEF LoadStarts, LoadForks, Caging, Early, Waited, Ended
    <2>8. CASE LoadExits
        <3>1. /\ child = "alive" /\ child' \in {"succeeded", "failed"} /\ UNCHANGED <<pc, exposed>>
              /\ others' = IF Caged THEN "none" ELSE others
            BY <2>8 DEF LoadExits
        <3>2. Runtime = "bwrap" => Caged
            BY DEF Caged
        <3>3. QED BY <1>1, <2>1, <3>1, <3>2 DEF Caging, Early, Waited, Ended
    <2>9. CASE OthersEnd
        BY <1>1, <2>1, <2>9 DEF OthersEnd, Caging, Early, Waited, Ended
    <2>10. QED BY <1>3, <2>2, <2>3, <2>4, <2>5, <2>6, <2>7, <2>8, <2>9 DEF RunNext, Supervises, Load
<1>4. QED BY <1>2, <1>3

LEMMA KeepsProxied ==
    ASSUME ExecutionAssumption, Inv, [RunNext]_runVars
    PROVE  Proxied'
<1>1. Proxied /\ Typed
    BY DEF Inv
<1>2. CASE Plans \/ HostChanges \/ Declines
    BY <1>1, <1>2 DEF Plans, HostChanges, Declines, Proxied, Early, Ended
<1>3. CASE Prepares
    BY <1>1, <1>3 DEF Prepares, Proxied, Early, Ended
<1>4. CASE Reports \/ Fails \/ CommandDies
    BY <1>1, <1>4 DEF Reports, Fails, CommandDies, Proxied, Typed, Early, Ended
<1>5. CASE Spawns \/ StartsSampler \/ Exits \/ TimesOut \/ Joins
    BY <1>1, <1>5 DEF Spawns, StartsSampler, Exits, TimesOut, Joins, Proxied, Early, Ended
<1>6. CASE LoadConnects
    BY <1>1, <1>6 DEF LoadConnects, Proxied, Early, Ended
<1>7. CASE \/ Drains \/ Samples \/ EntersScope \/ LoadStarts \/ LoadWrites \/ LoadForks \/ LoadExits
           \/ OthersEnd \/ DrainFails \/ ProxyWorks \/ UNCHANGED runVars
    <2>1. UNCHANGED <<pc, proxy>>
        BY <1>7, Aside DEF Drains, Samples, EntersScope, LoadStarts, LoadWrites, LoadForks, LoadExits, OthersEnd, runVars
    <2>2. QED BY <1>1, <2>1 DEF Proxied, Early, Ended
<1>8. QED BY <1>2, <1>3, <1>4, <1>5, <1>6, <1>7 DEF RunNext, Supervises, Load

LEMMA KeepsTallied ==
    ASSUME Inv, [RunNext]_runVars
    PROVE  Tallied'
<1>1. Tallied
    BY DEF Inv
<1>2. CASE LoadConnects
    BY <1>1, <1>2 DEF LoadConnects, Tallied
<1>3. CASE ProxyWorks
    BY <1>1, <1>3 DEF ProxyWorks, ProxyAccepts, ProxyRefuses, ProxyRecords, Tallied
<1>4. CASE ~ LoadConnects /\ ~ ProxyWorks
    <2>1. UNCHANGED <<attempts, backlog, taken, recorded>>
        <3>1. CASE Supervises
            BY <3>1 DEF Supervises, Plans, Declines, Prepares, Spawns, StartsSampler, Exits, TimesOut, Drains, Joins,
                        Reports
        <3>2. CASE Samples \/ DrainFails \/ Fails \/ CommandDies \/ EntersScope \/ HostChanges \/ UNCHANGED runVars
            BY <3>2 DEF Samples, DrainFails, Fails, CommandDies, EntersScope, HostChanges, runVars
        <3>3. CASE Load
            BY <1>4, <3>3 DEF Load, LoadStarts, LoadWrites, LoadForks, LoadExits, OthersEnd
        <3>4. QED BY <1>4, <3>1, <3>2, <3>3 DEF RunNext
    <2>2. QED BY <1>1, <2>1 DEF Tallied
<1>5. QED BY <1>2, <1>3, <1>4

\* A drain that has stopped stays so.
LEMMA CutStays ==
    ASSUME [RunNext]_runVars, cut
    PROVE  cut'
<1>1. CASE Supervises
    BY <1>1 DEF Supervises, Plans, Declines, Prepares, Spawns, StartsSampler, Exits, TimesOut, Drains, Joins, Reports
<1>2. CASE Samples \/ DrainFails \/ Fails \/ CommandDies \/ EntersScope \/ HostChanges \/ UNCHANGED runVars
    BY <1>2 DEF Samples, DrainFails, Fails, CommandDies, EntersScope, HostChanges, runVars
<1>3. CASE ProxyWorks
    BY <1>3 DEF ProxyWorks, ProxyAccepts, ProxyRefuses, ProxyRecords
<1>4. CASE Load
    BY <1>4 DEF Load, LoadStarts, LoadWrites, LoadConnects, LoadForks, LoadExits, OthersEnd
<1>5. QED BY <1>1, <1>2, <1>3, <1>4 DEF RunNext

\* Once the child is gone, and whoever held its output or the end it was read from, nobody
\* writes, starts or forks.
LEMMA Silence ==
    ASSUME Inv, [RunNext]_runVars, cut \/ others # "attached", child \in {"succeeded", "failed", "killed"}
    PROVE  /\ ~ LoadWrites /\ ~ LoadStarts /\ ~ LoadForks /\ ~ LoadExits
           /\ others # "attached" => others' # "attached"
           /\ child' \in {"succeeded", "failed", "killed"} \/ Spawns
<1>1. child # "alive"
    OBVIOUS
<1>2. ~ LoadWrites /\ ~ LoadStarts /\ ~ LoadForks /\ ~ LoadExits
    BY <1>1 DEF LoadWrites, LoadStarts, LoadForks, LoadExits, Running
<1>3. CASE Fails \/ CommandDies
    BY <1>2, <1>3 DEF Fails, CommandDies, LeavesLoad
<1>4. CASE OthersEnd \/ TimesOut
    BY <1>2, <1>4 DEF OthersEnd, TimesOut, Inv, Typed
<1>5. CASE ~ Fails /\ ~ CommandDies /\ ~ OthersEnd /\ ~ TimesOut
    <2>1. UNCHANGED <<child, others>> \/ (Spawns /\ UNCHANGED others)
        <3>1. CASE Supervises
            BY <1>5, <3>1 DEF Supervises, Plans, Declines, Prepares, Spawns, StartsSampler, Exits, Drains, Joins,
                              Reports
        <3>2. CASE Samples \/ EntersScope \/ HostChanges \/ LoadConnects \/ UNCHANGED runVars
            BY <3>2 DEF Samples, EntersScope, HostChanges, LoadConnects, runVars
        <3>3. CASE DrainFails \/ ProxyWorks
            BY <3>3, Aside
        <3>4. QED BY <1>2, <1>5, <3>1, <3>2, <3>3 DEF RunNext, Load
    <2>2. QED BY <1>2, <2>1
<1>6. QED BY <1>2, <1>3, <1>4, <1>5

LEMMA KeepsPiped ==
    ASSUME ExecutionAssumption, Inv, [RunNext]_runVars
    PROVE  Piped'
<1>1. OutputBytes \in Nat
    BY DEF ExecutionAssumption
<1>2. written \in Nat /\ unread \in Nat
    BY DEF Inv, Typed
<1>3. Piped /\ Caging
    BY DEF Inv
<1> DEFINE Settled == pc \in {"collects", "gives up"}
<1>4. CASE Drains
    <2>1. PICK count \in 1 .. unread :
            /\ unread' = unread - count
            /\ kept' = kept + Lesser(OutputBytes - kept, count)
            /\ truncated' = (truncated \/ Lesser(OutputBytes - kept, count) < count)
        BY <1>4 DEF Drains
    <2>2. pc' \notin {"collects", "gives up"} /\ UNCHANGED <<written, usage, seen>>
        BY <1>4 DEF Drains
    <2>3. unread <= written /\ kept = Lesser(OutputBytes, written - unread)
        BY <1>3 DEF Piped
    <2>4. truncated = (written - unread > OutputBytes) /\ usage = seen
        BY <1>3 DEF Piped
    <2> DEFINE read == written - unread
               take == Lesser(OutputBytes - kept, count)
    <2>5. read \in Nat /\ count \in Nat /\ written' - unread' = read + count /\ unread' <= written'
        <3>1. unread' = unread - count /\ written' = written /\ unread <= written
            BY <2>1, <2>2, <2>3
        <3>2. count \in Nat
            BY <1>2
        <3>3. QED BY <1>2, <3>1, <3>2
    <2>6. kept = Lesser(OutputBytes, read) /\ kept' = kept + take
        BY <2>1, <2>3
    <2>7. /\ kept' = Lesser(OutputBytes, written' - unread')
          /\ take < count \/ read > OutputBytes <=> written' - unread' > OutputBytes
        <3>1. take = Lesser(OutputBytes - Lesser(OutputBytes, read), count)
            BY <2>6
        <3> HIDE DEF take, read
        <3>2. /\ Lesser(OutputBytes, read) + take = Lesser(OutputBytes, read + count)
              /\ take < count \/ read > OutputBytes <=> read + count > OutputBytes
            BY <1>1, <2>5, <3>1 DEF Lesser
        <3>3. QED BY <2>5, <2>6, <3>2
    <2>8. truncated' = (written' - unread' > OutputBytes)
        <3>1. truncated' = (truncated \/ take < count) /\ truncated = (read > OutputBytes)
            BY <2>1, <2>4
        <3> HIDE DEF take, read
        <3>2. (take < count \/ read > OutputBytes) = (written' - unread' > OutputBytes)
            BY <2>7, SMT
        <3>3. truncated' = ((read > OutputBytes) \/ take < count)
            BY <3>1
        <3>4. QED BY <3>2, <3>3
    <2>9. QED BY <2>2, <2>4, <2>5, <2>7, <2>8 DEF Piped
<1>5. CASE LoadWrites
    <2>1. written' = written + 1 /\ unread' = unread + 1
        BY <1>5 DEF LoadWrites
    <2>2. UNCHANGED <<pc, kept, truncated, usage, seen>>
        BY <1>5 DEF LoadWrites
    <2>3. ~ Settled
        BY <1>3, <1>5, Silence DEF Piped, Caging, Waited
    <2>4. unread <= written
        BY <1>3 DEF Piped
    <2>5. unread' <= written' /\ written' - unread' = written - unread
        BY <1>2, <2>1, <2>4
    <2>6. QED BY <1>3, <2>2, <2>3, <2>5 DEF Piped
<1>6. CASE ~ Drains /\ ~ LoadWrites
    <2>1. UNCHANGED <<written, unread, kept, truncated>>
        <3>1. CASE Supervises
            BY <1>6, <3>1 DEF Supervises, Plans, Declines, Prepares, Spawns, StartsSampler, Exits, TimesOut,
                              Joins, Reports
        <3>2. CASE Samples \/ Fails \/ CommandDies \/ EntersScope \/ HostChanges \/ UNCHANGED runVars
            BY <3>2 DEF Samples, Fails, CommandDies, EntersScope, HostChanges, runVars
        <3>3. CASE Load
            BY <1>6, <3>3 DEF Load, LoadStarts, LoadConnects, LoadForks, LoadExits, OthersEnd
        <3>4. CASE DrainFails \/ ProxyWorks
            BY <3>4, Aside
        <3>5. QED BY <3>1, <3>2, <3>3, <3>4 DEF RunNext
    <2>2. usage' = seen'
        <3>1. usage = seen
            BY <1>3 DEF Piped
        <3>2. CASE Samples \/ Joins
            <4>1. usage' = (usage \/ Reading) /\ seen' = (seen \/ Reading)
                BY <3>2, Zenon DEF Samples, Joins
            <4>2. QED BY <3>1, <4>1, Zenon
        <3>3. CASE ~ Samples /\ ~ Joins
            <4>1. CASE Supervises
                BY <1>6, <3>1, <3>3, <4>1 DEF Supervises, Plans, Declines, Prepares, Spawns, StartsSampler,
                                              Exits, TimesOut, Reports
            <4>2. CASE Fails \/ CommandDies \/ EntersScope \/ HostChanges \/ UNCHANGED runVars
                BY <3>1, <4>2 DEF Fails, CommandDies, EntersScope, HostChanges, runVars
            <4>3. CASE Load
                BY <1>6, <3>1, <4>3 DEF Load, LoadStarts, LoadConnects, LoadForks, LoadExits, OthersEnd
            <4>4. CASE DrainFails \/ ProxyWorks
                BY <3>1, <4>4, Aside
            <4>5. QED BY <3>3, <4>1, <4>2, <4>3, <4>4 DEF RunNext
        <3>4. QED BY <3>2, <3>3
    <2>3. Settled' => cut' \/ (unread' = 0 /\ others' # "attached")
        <3>1. CASE Joins
            BY <3>1 DEF Joins
        <3>2. CASE ~ Joins
            <4>1. Settled' => Settled
                <5>1. CASE Supervises
                    BY <3>2, <5>1 DEF Supervises, Plans, Declines, Prepares, Spawns, StartsSampler, Exits,
                                      TimesOut, Drains, Reports
                <5>2. CASE Samples \/ Fails \/ CommandDies \/ EntersScope \/ HostChanges \/ UNCHANGED runVars
                    BY <5>2 DEF Samples, Fails, CommandDies, EntersScope, HostChanges, runVars
                <5>3. CASE Load
                    BY <5>3 DEF Load, LoadStarts, LoadWrites, LoadConnects, LoadForks, LoadExits, OthersEnd
                <5>4. CASE DrainFails \/ ProxyWorks
                    BY <5>4, Aside
                <5>5. QED BY <5>1, <5>2, <5>3, <5>4 DEF RunNext
            <4>2. Settled => /\ cut \/ (unread = 0 /\ others # "attached")
                             /\ child \in {"succeeded", "failed", "killed"}
                BY <1>3 DEF Piped, Caging, Waited
            <4>3. Settled /\ others # "attached" => others' # "attached"
                BY <4>2, Silence
            <4>4. cut => cut'
                BY CutStays
            <4>5. QED BY <2>1, <4>1, <4>2, <4>3, <4>4
        <3>3. QED BY <3>1, <3>2
    <2>4. QED BY <1>3, <2>1, <2>2, <2>3 DEF Piped
<1>7. QED BY <1>4, <1>5, <1>6

LEMMA KeepsTold ==
    ASSUME ExecutionAssumption, Inv, [RunNext]_runVars
    PROVE  Told'
<1>1. Told /\ Typed /\ Caging /\ Composed /\ Proxied /\ Piped
    BY DEF Inv
<1>2. CASE Reports
    <2>1. pc \in {"collects", "gives up"} /\ pc' = "over"
          /\ UNCHANGED <<plan, child, others, unread, kept, truncated, cut, usage, taken, arguments>>
        BY <1>2 DEF Reports
    <2>2. /\ cut \/ (unread = 0 /\ others # "attached")
          /\ child \in {"succeeded", "failed", "killed"} /\ Launched
        BY <1>1, <2>1 DEF Piped, Caging, Waited, Composed, AtWork
    <2>3. recorded = taken
        BY <1>2 DEF Reports
    <2> DEFINE answer == IF pc = "gives up" THEN "timeout"
                         ELSE IF child = "succeeded" THEN "completed" ELSE "failed"
    <2>4. report' = [Answer(answer) EXCEPT !.events = recorded]
        BY <1>2 DEF Reports
    <2>5. /\ report'.kept = kept /\ report'.truncated = truncated /\ report'.observed = usage
          /\ report'.events = recorded /\ report'.verdict = Verdict(answer)
        BY <2>4 DEF Answer
    <2>6. Verdict(answer) = "contained" => child = "succeeded" /\ plan.unsupported = {}
        BY DEF Verdict
    <2>7. QED BY <2>1, <2>2, <2>3, <2>5, <2>6 DEF Told, Launched
<1>3. CASE Declines
    <2>1. pc' = "over" /\ report'.status \in {"planned", "blocked"}
        BY <1>3 DEF Declines, Answer
    <2>2. QED BY <2>1 DEF Told, Executed
<1>4. CASE ~ Reports /\ ~ Declines
    <2>1. UNCHANGED report
        <3>1. CASE Supervises
            BY <1>4, <3>1 DEF Supervises, Plans, Prepares, Spawns, StartsSampler, Exits, TimesOut, Drains, Joins
        <3>2. CASE Samples \/ Fails \/ CommandDies \/ EntersScope \/ HostChanges \/ UNCHANGED runVars
            BY <3>2 DEF Samples, Fails, CommandDies, EntersScope, HostChanges, runVars
        <3>3. CASE Load
            BY <3>3 DEF Load, LoadStarts, LoadWrites, LoadConnects, LoadForks, LoadExits, OthersEnd
        <3>4. CASE DrainFails \/ ProxyWorks
            BY <3>4, Aside
        <3>5. QED BY <1>4, <3>1, <3>2, <3>3, <3>4 DEF RunNext
    <2>2. CASE pc # "over"
        <3>1. report' = NoReport
            BY <1>1, <2>1, <2>2 DEF Told
        <3>2. QED BY <3>1 DEF Told, Executed, NoReport
    <2>3. CASE pc = "over" /\ Executed
        <3>1. /\ cut \/ (unread = 0 /\ others # "attached")
              /\ child \in {"succeeded", "failed", "killed"} /\ proxy # "open"
            BY <1>1, <2>3 DEF Told, Proxied, Ended
        <3>2. /\ ~ Supervises /\ ~ Samples /\ ~ DrainFails /\ ~ Fails /\ ~ CommandDies /\ ~ HostChanges
              /\ ~ ProxyWorks /\ ~ LoadConnects
            BY <2>3, <3>1 DEF Supervises, Plans, Declines, Prepares, Spawns, StartsSampler, Exits, TimesOut, Drains,
                        Joins, Reports, Samples, DrainFails, Fails, CommandDies, HostChanges, ProxyWorks,
                        ProxyAccepts, ProxyRefuses, ProxyRecords, LoadConnects
        <3>3. EntersScope \/ OthersEnd \/ UNCHANGED runVars
            BY <3>1, <3>2, Silence DEF RunNext, Load
        <3>4. UNCHANGED <<pc, plan, arguments, child, unread, kept, truncated, cut, usage, taken>>
            BY <3>3 DEF EntersScope, OthersEnd, runVars
        <3>5. others # "attached" => others' # "attached"
            BY <3>1, Silence
        <3>6. QED BY <1>1, <2>1, <2>3, <3>4, <3>5 DEF Told, Executed, Launched
    <2>4. CASE pc = "over" /\ ~ Executed
        <3>1. UNCHANGED pc
            BY <2>4, Course DEF Plans, Declines, Prepares, Reports, Fails, CommandDies
        <3>2. QED BY <2>1, <2>4, <3>1 DEF Told, Executed
    <2>5. QED BY <2>2, <2>3, <2>4
<1>5. QED BY <1>2, <1>3, <1>4

------------------------------------------------------------------------------
(* The theorems *)

LEMMA Keeps ==
    ASSUME ExecutionAssumption
    PROVE  Inv /\ [RunNext]_runVars => Inv'
BY KeepsTyped, KeepsPlanned, KeepsComposed, KeepsCaging, KeepsProxied, KeepsTallied, KeepsPiped,
   KeepsTold DEF Inv

LEMMA Invariance ==
    ASSUME ExecutionAssumption
    PROVE  RunSpec => []Inv
BY InitImpliesInv, Keeps, PTL DEF RunSpec

\* What an execution promises follows: the types,
LEMMA TypesFollow ==
    ASSUME ExecutionAssumption, Inv
    PROVE  RunTypeOK
<1>1. OutputBytes \in Nat /\ PipeSize \in Nat
    BY DEF ExecutionAssumption
<1>2. Typed /\ Planned
    BY DEF Inv
<1>3. written \in Nat /\ unread \in Nat /\ unread <= PipeSize
    BY <1>2 DEF Typed
<1>4. unread <= written /\ kept = Lesser(OutputBytes, written - unread)
    BY DEF Inv, Piped
<1>5. kept \in 0 .. OutputBytes /\ kept + unread <= written /\ unread \in 0 .. PipeSize
    BY <1>1, <1>3, <1>4 DEF Lesser
<1>6. plan.effective \cup plan.unsupported \subseteq Controls /\ plan.executable \in BOOLEAN
    BY <1>2 DEF Planned
<1>7. recorded <= taken /\ taken + backlog <= attempts
    BY DEF Inv, Tallied
<1>8. QED BY <1>2, <1>5, <1>6, <1>7 DEF RunTypeOK, Typed

\* the truth of its report, and what it enforces and leaves behind.
LEMMA ReportsFollow == Inv => ReportTellsWhatHappened
<1>1. ASSUME Inv, Executed
      PROVE  /\ report.kept = Lesser(OutputBytes, written - unread)
             /\ report.truncated = (written - unread > OutputBytes)
             /\ ~ cut => unread = 0
             /\ report.events = taken
             /\ report.observed = seen
             /\ report.verdict = "contained" =>
                    child = "succeeded" /\ (steady => Policy.required \subseteq Enforced(arguments))
    <2>1. Told /\ Piped /\ Composed /\ Planned
        BY <1>1 DEF Inv
    <2>2. report.kept = kept /\ report.truncated = truncated /\ (~ cut => unread = 0)
        BY <1>1, <2>1 DEF Told
    <2>3. kept = Lesser(OutputBytes, written - unread) /\ truncated = (written - unread > OutputBytes) /\ usage = seen
        BY <2>1 DEF Piped
    <2>4. report.observed = seen /\ report.events = taken
        BY <1>1, <2>1, <2>3 DEF Told
    <2>5. report.verdict = "contained" =>
              child = "succeeded" /\ (steady => Policy.required \subseteq Enforced(arguments))
        BY <1>1, <2>1 DEF Told, Composed, Planned
    <2>6. QED BY <2>2, <2>3, <2>4, <2>5
<1>2. QED BY <1>1 DEF ReportTellsWhatHappened

LEMMA PromisesFollow ==
    ASSUME Inv
    PROVE  EffectiveMeansEnforced /\ NothingOutlivesTheRun /\ ReportTellsWhatHappened
<1>1. EffectiveMeansEnforced
    BY DEF Inv, Composed, Planned, EffectiveMeansEnforced
<1>2. NothingOutlivesTheRun
    BY DEF Inv, Caging, Proxied, NothingOutlivesTheRun, LoadAlive
<1>3. QED BY <1>1, <1>2, ReportsFollow

\* Whatever is asked and whatever the host and the load do, the state keeps its types: in
\* particular what is kept of the output fits in the limit and in what was written.
THEOREM TypeCorrect ==
    ASSUME ExecutionAssumption
    PROVE  RunSpec => []RunTypeOK
BY TypesFollow, Invariance, PTL

\* No report declares a control that no argument puts into effect, whatever changes on the
\* host between the plan and the execution; as long as nothing changes the plan tells the
\* truth, and a strict policy runs with everything it requires.
THEOREM DeclaredIsEnforced ==
    ASSUME ExecutionAssumption
    PROVE  RunSpec => []EffectiveMeansEnforced
BY PromisesFollow, Invariance, PTL

\* Whatever fails or dies, when the command has ended nothing of a load in a bubblewrap
\* that was in place runs on, and its proxy is closed.
THEOREM NothingStays ==
    ASSUME ExecutionAssumption
    PROVE  RunSpec => []NothingOutlivesTheRun
BY PromisesFollow, Invariance, PTL

\* A report of an execution tells what was read of the output up to the limit, which is all
\* that was written unless a drain stopped at an error, all the connections the proxy took
\* up, and the truth about the truncation, the figures and the verdict.
THEOREM TrueReports ==
    ASSUME ExecutionAssumption
    PROVE  RunSpec => []ReportTellsWhatHappened
BY PromisesFollow, Invariance, PTL
==============================================================================
