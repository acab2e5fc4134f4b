----------------------------- MODULE MCSupervisor ------------------------------
(***************************************************************************)
(* The parts of the supervisor that share no state: the evidence chain, one *)
(* execution, the job queue of the control center and the connections of a  *)
(* forwarder.  `part` says which of them this behaviour is about.           *)
(***************************************************************************)
EXTENDS EvidenceChain, Execution, JobStore, Forwarder, MCRequests

VARIABLE part

supervisorVars == <<part, chainVars, runVars, jobVars, forwarderVars>>

SupervisorInit ==
    /\ part \in {"chain", "run", "panel", "forwarder"}
    /\ ChainInit
    /\ RunInit
    /\ part # "run" => request = CHOOSE r \in Requests : TRUE
    /\ part # "run" => host = CHOOSE h \in Hosts : TRUE
    /\ JobInit
    /\ ForwarderInit

ChainStep == part = "chain" /\ ChainNext /\ UNCHANGED <<part, runVars, jobVars, forwarderVars>>

AtRun == part = "run" /\ UNCHANGED <<part, chainVars, jobVars, forwarderVars>>

RunStep == AtRun /\ RunNext

AtPanel == part = "panel" /\ UNCHANGED <<part, chainVars, runVars, forwarderVars>>

PanelStep == AtPanel /\ JobNext

ForwarderStep == part = "forwarder" /\ ForwarderNext /\ UNCHANGED <<part, chainVars, runVars, jobVars>>

SupervisorNext == ChainStep \/ RunStep \/ PanelStep \/ ForwarderStep

\* The fairness of Execution and of JobStore, each where it is at work.
SupervisorFairness ==
    /\ WF_supervisorVars(AtRun /\ Supervises)
    /\ WF_supervisorVars(AtRun /\ ConnectionsEnd)
    /\ \A j \in Jobs :
        /\ WF_supervisorVars(AtPanel /\ Proceeds(j))
        /\ WF_supervisorVars(AtPanel /\ WriteEnds(j))
        /\ WF_supervisorVars(AtPanel /\ Watchdog(j))
        /\ WF_supervisorVars(AtPanel /\ ForceKill(j))
        /\ WF_supervisorVars(AtPanel /\ children[j] = "killed" /\ ChildCloses(j))

SupervisorSpec == SupervisorInit /\ [][SupervisorNext]_supervisorVars /\ SupervisorFairness

------------------------------------------------------------------------------
\* The state of each part keeps its types; the requests and hosts are some that may be.
PartsTypeOK ==
    /\ ExecutionAssumption /\ JobAssumption /\ ForwarderAssumption
    /\ ChainTypeOK /\ RunTypeOK /\ JobTypeOK /\ ForwarderTypeOK

\* Commands that have spawned a caged load end, whatever it does (process.rs), and so do
\* jobs (jobs.ts).
EverythingEnds == RunsEnd /\ EveryJobSettles
==============================================================================
