------------------------------ MODULE MCService -------------------------------
(***************************************************************************)
(* ServiceLifecycle with a published service (socket and forwarder), one    *)
(* that publishes nothing, as in cases/, and one of the older TCP kind.     *)
(***************************************************************************)
EXTENDS ServiceLifecycle, TLC

CONSTANTS web, keys, legacy

MCPublish ==
    [s \in Services |-> IF s = web THEN "proxy" ELSE IF s = keys THEN "none" ELSE "direct"]
MCIssues == [c \in Clis |-> {"up", "down", "down --all"}]
\* Both terminals raise; one lowers the service by name, the other lowers everything.
MCIssuesRace ==
    [c \in Clis |-> {"up"} \cup IF c \in Reaping THEN {"down --all"} ELSE {"down"}]
\* PIDs are interchangeable: no definition orders them or names one.
PidSymmetry == Permutations(Pids)
==============================================================================
