------------------------------- MODULE Forwarder -------------------------------
(***************************************************************************)
(* The connections of the port forwarder (crates/sandboxctl/src/forward.rs):*)
(* one thread accepts, counts and spawns; the thread of a connection opens  *)
(* the sandbox's socket and copies in both directions, an upstream thread   *)
(* and itself, passing the end of each input on.                            *)
(***************************************************************************)
EXTENDS Naturals, FiniteSets

CONSTANTS Clients,
          MaxConnections,
          MaxBytes         \* bound: what each side of a connection writes

\* What the theorems assume of the constants.
ForwarderAssumption == MaxConnections \in Nat /\ MaxBytes \in Nat

VARIABLES stage,    \* of a connection
          accepting,\* the connection the accepting thread has in its hands
          live,     \* the counter
          flow      \* what each direction has carried

forwarderVars == <<stage, accepting, live, flow>>

Directions == {"up", "down"}

Nobody == {}

Still == [sent |-> 0, ended |-> FALSE, copied |-> 0, told |-> FALSE, cut |-> FALSE]

ForwarderInit ==
    /\ stage = [c \in Clients |-> "away"]
    /\ accepting = Nobody
    /\ live = 0
    /\ flow = [c \in Clients |-> [d \in Directions |-> Still]]

\* A client: it may connect, and both ends of a connection may write and close.
Arrives(c) ==
    /\ stage[c] = "away"
    /\ stage' = [stage EXCEPT ![c] = "queued"]
    /\ UNCHANGED <<accepting, live, flow>>

Open(c) == stage[c] \in {"queued", "spawned", "bridged"}

Sends(c, d) ==
    /\ Open(c) /\ (d = "down" => stage[c] = "bridged")
    /\ ~ flow[c][d].ended /\ flow[c][d].sent < MaxBytes
    /\ flow' = [flow EXCEPT ![c][d].sent = @ + 1]
    /\ UNCHANGED <<stage, accepting, live>>

Ends(c, d) ==
    /\ Open(c) /\ (d = "down" => stage[c] = "bridged")
    /\ ~ flow[c][d].ended
    /\ flow' = [flow EXCEPT ![c][d].ended = TRUE]
    /\ UNCHANGED <<stage, accepting, live>>

\* serve: the limit is read first and the counter raised afterwards, by the same thread.
Refuses(c) ==
    /\ stage[c] = "queued" /\ accepting = Nobody
    /\ live >= MaxConnections
    /\ stage' = [stage EXCEPT ![c] = "shut"]
    /\ UNCHANGED <<accepting, live, flow>>

Accepts(c) ==
    /\ stage[c] = "queued" /\ accepting = Nobody
    /\ live < MaxConnections
    /\ accepting' = {c}
    /\ UNCHANGED <<stage, live, flow>>

SpawnsThread(c) ==
    /\ accepting = {c}
    /\ accepting' = Nobody
    /\ live' = live + 1
    /\ stage' = [stage EXCEPT ![c] = "spawned"]
    /\ UNCHANGED flow

\* bridge
Connects(c) ==
    /\ stage[c] = "spawned"
    /\ stage' = [stage EXCEPT ![c] = "bridged"]
    /\ UNCHANGED <<accepting, live, flow>>

\* Mutant: the `?` of a failed connection leaves the thread without its place.
ConnectLeaks(c) ==
    /\ stage[c] = "spawned"
    /\ stage' = [stage EXCEPT ![c] = "shut"]
    /\ UNCHANGED <<accepting, live, flow>>

ConnectFails(c) ==
    /\ stage[c] = "spawned"
    /\ stage' = [stage EXCEPT ![c] = "left"]
    /\ UNCHANGED <<accepting, live, flow>>

Copies(c, d) ==
    /\ stage[c] = "bridged" /\ ~ flow[c][d].told
    /\ flow[c][d].copied < flow[c][d].sent
    /\ flow' = [flow EXCEPT ![c][d].copied = @ + 1]
    /\ UNCHANGED <<stage, accepting, live>>

Tells(c, d) ==
    /\ stage[c] = "bridged" /\ ~ flow[c][d].told
    /\ flow[c][d].ended /\ flow[c][d].copied = flow[c][d].sent
    /\ flow' = [flow EXCEPT ![c][d].told = TRUE]
    /\ UNCHANGED <<stage, accepting, live>>

\* A copy that fails, because either end was reset, is closed like one that ended.
Breaks(c, d) ==
    /\ stage[c] = "bridged" /\ ~ flow[c][d].told
    /\ flow' = [flow EXCEPT ![c][d].told = TRUE, ![c][d].cut = TRUE]
    /\ UNCHANGED <<stage, accepting, live>>

\* The downstream copy has ended and the upstream thread is joined.
BridgeEnds(c) ==
    /\ stage[c] = "bridged"
    /\ \A d \in Directions : flow[c][d].told
    /\ stage' = [stage EXCEPT ![c] = "left"]
    /\ UNCHANGED <<accepting, live, flow>>

Leaves(c) ==
    /\ stage[c] = "left"
    /\ live' = live - 1
    /\ stage' = [stage EXCEPT ![c] = "shut"]
    /\ UNCHANGED <<accepting, flow>>

ForwarderNext ==
    \E c \in Clients :
        \/ Arrives(c) \/ Refuses(c) \/ Accepts(c) \/ SpawnsThread(c)
        \/ Connects(c) \/ ConnectFails(c) \/ BridgeEnds(c) \/ Leaves(c)
        \/ \E d \in Directions : Sends(c, d) \/ Ends(c, d) \/ Copies(c, d) \/ Tells(c, d) \/ Breaks(c, d)

ForwarderSpec == ForwarderInit /\ [][ForwarderNext]_forwarderVars

------------------------------------------------------------------------------
(* Properties *)

Flows ==
    [sent : 0 .. MaxBytes, ended : BOOLEAN, copied : 0 .. MaxBytes, told : BOOLEAN, cut : BOOLEAN]

ForwarderTypeOK ==
    /\ stage \in [Clients -> {"away", "queued", "spawned", "bridged", "left", "shut"}]
    /\ accepting \subseteq Clients
    /\ live \in 0 .. MaxConnections
    /\ flow \in [Clients -> [Directions -> Flows]]

Holding == {c \in Clients : stage[c] \in {"spawned", "bridged", "left"}}

\* The counter is the number of connections that hold a thread, so that however they end
\* their places come back, and it never passes the limit.
SlotsAreCounted == live = Cardinality(Holding) /\ live <= MaxConnections

\* An end is told that the other has finished only when it has everything the other
\* wrote, unless the connection broke.
EndsFollowData ==
    \A c \in Clients, d \in Directions :
        flow[c][d].told /\ ~ flow[c][d].cut =>
            flow[c][d].ended /\ flow[c][d].copied = flow[c][d].sent

\* However connections end, their places come back, and nothing of what was written is
\* dropped before the end of it is told.
ConnectionsAreSound == SlotsAreCounted /\ EndsFollowData
==============================================================================
