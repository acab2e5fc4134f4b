--------------------------------- MODULE Plan ----------------------------------
(***************************************************************************)
(* What an execution is allowed to promise (crates/sandbox-core/src/        *)
(* policy.rs, runtime.rs, seccomp.rs, cgroup.rs) and what the adapters      *)
(* really put around the load (compiler.rs, crates/sandbox-runtimes): the   *)
(* plan, the arguments of the runtime, the limits a report declares.  The   *)
(* plan and the adapters are written apart; Mechanisms ties them together.  *)
(***************************************************************************)
EXTENDS Naturals

Runtimes == {"dry-run", "native", "bwrap", "unshare", "wasi", "gvisor", "kata", "firecracker"}

Manual == {"gvisor", "kata", "firecracker"}

ScopeControls == {"memory", "processes", "cpu"}

Controls == ScopeControls \cup
    {"filesystem", "network", "timeout", "capabilities", "syscalls", "devices", "environment", "output"}

Networks == {"none", "loopback", "allowlist", "unrestricted"}

\* `deny` is what the denied system calls come to: no name, only names this kernel does
\* not have, or some it has.
Policies == {p \in [required : SUBSET Controls, strict : BOOLEAN, network : Networks, hosts : BOOLEAN,
                    deny : {"nothing", "unknown", "known"}] :
                p.hosts => p.network = "allowlist"}

\* What a workload says of itself, and what the host answers to the probes.
Workloads == [allowNative : BOOLEAN, wasi : BOOLEAN]

HostStates == [installed : SUBSET (Runtimes \ {"dry-run", "native"}), namespaces : BOOLEAN,
               optIn : BOOLEAN, prlimit : BOOLEAN, scope : BOOLEAN, arch : BOOLEAN]

When(condition, set) == IF condition THEN set ELSE {}

------------------------------------------------------------------------------
(* policy.rs, seccomp.rs, runtime.rs *)

IsolatesHostNetwork(p) == p.network \in {"none", "loopback", "allowlist"}

NeedsEgressProxy(p) == p.network = "allowlist" /\ p.hosts

\* seccomp::compile answers a filter; is_supported asks it the same question.
Filtered(p, h) == p.deny = "known" /\ h.arch

Available(r, h) ==
    \/ r = "dry-run"
    \/ r = "native" /\ h.optIn
    \/ r \in h.installed /\ (r \in {"bwrap", "unshare"} => h.namespaces)

Declared(r) ==
    CASE r = "dry-run" -> {"planning", "evidence"}
      [] r = "native" -> {"timeout", "environment", "output"}
      [] r = "bwrap" -> {"filesystem", "network", "timeout", "capabilities", "devices", "environment", "output"}
      [] r = "unshare" -> {"network", "timeout", "environment", "output"}
      [] r = "wasi" -> {"filesystem", "network", "timeout", "environment", "output"}
      [] OTHER -> Controls

\* Mutant: prlimit's RLIMIT_NPROC taken for a limit of processes.
SupportsProcesses(r, p, h) ==
    Declared(r) \cup When(r \in {"bwrap", "unshare"} /\ h.prlimit, {"memory", "processes"})

SupportedControls(r, p, h) ==
    (Declared(r)
        \cup When(r \in {"bwrap", "unshare"} /\ h.prlimit, {"memory"})
        \cup When(r = "bwrap" /\ h.scope, ScopeControls)
        \cup When(r = "bwrap" /\ Filtered(p, h), {"syscalls"}))
    \ When(r \in {"bwrap", "unshare", "wasi"} /\ ~ IsolatesHostNetwork(p), {"network"})

NativeBlock(r, w, h) == r = "native" /\ ~ (w.allowNative /\ h.optIn)

ExecutionPlan(r, p, w, h) ==
    LET unsupported == p.required \ SupportedControls(r, p, h)
        strictBlock == p.strict /\ unsupported # {}
    IN  [effective |-> p.required \cap SupportedControls(r, p, h),
         unsupported |-> unsupported,
         executable |-> /\ r # "dry-run" /\ r \notin Manual
                        /\ Available(r, h)
                        /\ ~ strictBlock
                        /\ ~ NativeBlock(r, w, h)]

------------------------------------------------------------------------------
(* compiler.rs, cgroup.rs, process.rs and the adapters *)

\* Mutant: a cage that does not die with its parent.
ImmortalSandbox(p, h) == {"--unshare-user", "--unshare-pid", "--unshare-net", "--ro-bind", "--clearenv"}

Sandbox(p, h) ==
    {"--unshare-user", "--unshare-pid", "--dev", "--ro-bind", "--die-with-parent", "--clearenv",
     "--cap-drop", "--uid"}
        \cup When(IsolatesHostNetwork(p), {"--unshare-net"})
        \cup When(Filtered(p, h), {"--seccomp"})

Rlimits(h) == When(h.prlimit, {"--as", "--nofile"})

Scope(h) == When(h.scope, {"MemoryMax", "TasksMax", "CPUQuota"})

\* process::run: the environment it empties, its wait and its drains.
Supervised == {"env_clear", "wait_timeout", "drain"}

Unshared(p, h) ==
    {"--user", "--mount-proc", "--fork"} \cup Rlimits(h) \cup When(IsolatesHostNetwork(p), {"--net"})

Wasmtime == {"wasmtime run", "--dir"}

Arguments(r, p, h) ==
    Supervised \cup
    CASE r = "bwrap" -> Sandbox(p, h) \cup Rlimits(h) \cup Scope(h)
      [] r = "unshare" -> Unshared(p, h)
      [] r = "wasi" -> Wasmtime
      [] OTHER -> {}

\* The keys of limits.effective, of each adapter.
RlimitKeys(h) == When(h.prlimit, {"memory", "openFiles"})

NetworkKey(p) == When(IsolatesHostNetwork(p), {"network"})

BwrapLimits(p, h) ==
    {"timeout", "filesystem", "user", "output"} \cup NetworkKey(p) \cup RlimitKeys(h)
        \cup When(h.scope, ScopeControls) \cup When(Filtered(p, h), {"syscalls"})

UnshareLimits(p, h) == {"timeout", "namespaces", "output"} \cup NetworkKey(p) \cup RlimitKeys(h)

EffectiveLimits(r, p, h) ==
    CASE r = "bwrap" -> BwrapLimits(p, h)
      [] r = "unshare" -> UnshareLimits(p, h)
      [] r = "wasi" -> {"timeout", "filesystem", "network"}
      [] OTHER -> {"timeout", "output"}

\* What each argument is there for.
Mechanisms ==
    {<<"filesystem", "--ro-bind">>, <<"filesystem", "--dir">>,
     <<"network", "--unshare-net">>, <<"network", "--net">>, <<"network", "wasmtime run">>,
     <<"timeout", "wait_timeout">>, <<"output", "drain">>,
     <<"environment", "env_clear">>, <<"environment", "--clearenv">>,
     <<"capabilities", "--cap-drop">>, <<"devices", "--dev">>, <<"syscalls", "--seccomp">>,
     <<"memory", "--as">>, <<"memory", "MemoryMax">>, <<"processes", "TasksMax">>, <<"cpu", "CPUQuota">>,
     <<"user", "--uid">>, <<"openFiles", "--nofile">>, <<"namespaces", "--user">>}

Enforced(arguments) == {c[1] : c \in {m \in Mechanisms : m[2] \in arguments}}
==============================================================================
