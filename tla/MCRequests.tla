------------------------------ MODULE MCRequests -------------------------------
(***************************************************************************)
(* Requests and hosts to check Execution with: every runtime, policies of   *)
(* both modes with and without network, filter and proxy, and a host that   *)
(* can do everything, one that can do little, one with everything off.      *)
(***************************************************************************)
EXTENDS Plan

AnyPolicy(required, strict, network, hosts, deny) ==
    [required |-> required, strict |-> strict, network |-> network, hosts |-> hosts, deny |-> deny]

MCPolicies ==
    {AnyPolicy(Controls, FALSE, "none", FALSE, "known"),
     AnyPolicy({"network", "memory", "timeout", "environment"}, TRUE, "allowlist", TRUE, "unknown"),
     AnyPolicy({"network", "output"}, FALSE, "unrestricted", FALSE, "nothing"),
     AnyPolicy({"processes", "cpu", "syscalls"}, TRUE, "loopback", FALSE, "known")}

MCRequests ==
    [runtime : Runtimes, policy : MCPolicies, workload : {[allowNative |-> any, wasi |-> any] : any \in BOOLEAN}]

MCHosts ==
    {[installed |-> Runtimes \ {"dry-run", "native"}, namespaces |-> TRUE, optIn |-> TRUE,
      prlimit |-> any, scope |-> any, arch |-> any] : any \in BOOLEAN}
    \cup {[installed |-> {}, namespaces |-> FALSE, optIn |-> FALSE,
           prlimit |-> FALSE, scope |-> FALSE, arch |-> FALSE]}
==============================================================================
