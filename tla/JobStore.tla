------------------------------- MODULE JobStore --------------------------------
(***************************************************************************)
(* The job queue of the control center (control-center/src/jobs.ts): one    *)
(* single-threaded process in which the requests to create and to cancel a  *)
(* job and the job's own run interleave at every `await`, while writeFile   *)
(* runs on a thread pool.  A job's record lives in memory and is written    *)
(* whole to its file at some points; init reads the files back.             *)
(***************************************************************************)
EXTENDS Naturals, FiniteSets

CONSTANTS Jobs,
          MaxCancels,    \* bound: cancel requests of one job that find it unfinished
          MaxRestarts    \* bound: deaths of the process

\* What the theorems assume of the bounds.
JobAssumption == MaxCancels \in Nat /\ MaxRestarts \in Nat

VARIABLES status,     \* job.status in memory; "none" when the map has no such job
          at,         \* the await at which create or run is suspended
          children,      \* the process in `children`
          timedOut,   \* collectChild's flag
          writes,     \* writeFile calls in flight
          disk,       \* what the job's file holds
          cancels,    \* cancel requests that took effect
          restarts

jobVars == <<status, at, children, timedOut, writes, disk, cancels, restarts>>

Terminal == {"completed", "failed", "blocked", "cancelled", "planned", "timeout"}

Statuses == Terminal \cup {"none", "queued", "running"}

Places == {"nowhere", "creating", "rejected", "starting", "invoking", "fallback", "collecting",
           "saving", "catching", "done", "restored"}

Authors == {"create", "run", "cancel"}

JobInit ==
    /\ status = [j \in Jobs |-> "none"]
    /\ at = [j \in Jobs |-> "nowhere"]
    /\ children = [j \in Jobs |-> "none"]
    /\ timedOut = [j \in Jobs |-> FALSE]
    /\ writes = [j \in Jobs |-> {}]
    /\ disk = [j \in Jobs |-> "none"]
    /\ cancels = [j \in Jobs |-> 0]
    /\ restarts = 0

------------------------------------------------------------------------------
(* persist *)

\* Two writes of one file that overlap are both `torn`: each truncates it and writes
\* from its start, in any order.  (n tells the writes of several cancels apart.)
Persist(j, by, what, n) ==
    LET torn == writes[j] # {}
    IN  writes' = [writes EXCEPT ![j] =
            {[w EXCEPT !.torn = TRUE] : w \in @} \cup {[by |-> by, n |-> n, what |-> what, torn |-> torn]}]

Awaits(j, by) == \E w \in writes[j] : w.by = by

\* The file afterwards: of two overlapping writes either may prevail, or the tail of
\* the longer text stays behind the shorter one.
WriteEnds(j) ==
    \E w \in writes[j] :
        /\ writes' = [writes EXCEPT ![j] = @ \ {w}]
        /\ \E after \in {w.what} \cup (IF w.torn THEN {"damaged"} ELSE {})
                                 \cup (IF w.torn /\ writes[j] = {w} THEN {disk[j]} ELSE {}) :
            disk' = [disk EXCEPT ![j] = after]
        /\ UNCHANGED <<status, at, children, timedOut, cancels, restarts>>

------------------------------------------------------------------------------
(* create, run *)

Create(j) ==
    /\ status[j] = "none" /\ at[j] = "nowhere"
    /\ status' = [status EXCEPT ![j] = "queued"]
    /\ at' = [at EXCEPT ![j] = "creating"]
    /\ Persist(j, "create", "queued", 0)
    /\ UNCHANGED <<children, timedOut, disk, cancels, restarts>>

\* The microtask queued by create, right after its await.
RunBegins(j) ==
    /\ at[j] = "creating" /\ ~ Awaits(j, "create")
    /\ status' = [status EXCEPT ![j] = "running"]
    /\ at' = [at EXCEPT ![j] = "starting"]
    /\ Persist(j, "run", "running", 0)
    /\ UNCHANGED <<children, timedOut, disk, cancels, restarts>>

LooksForCli(j) ==
    /\ at[j] = "starting" /\ ~ Awaits(j, "run")
    /\ at' = [at EXCEPT ![j] = "invoking"]
    /\ UNCHANGED <<status, children, timedOut, writes, disk, cancels, restarts>>

NoCli(j) ==
    /\ at[j] = "invoking"
    /\ at' = [at EXCEPT ![j] = "fallback"]
    /\ UNCHANGED <<status, children, timedOut, writes, disk, cancels, restarts>>

SpawnsCli(j) ==
    /\ at[j] = "invoking"
    /\ at' = [at EXCEPT ![j] = "collecting"]
    /\ children' = [children EXCEPT ![j] = "alive"]
    /\ UNCHANGED <<status, timedOut, writes, disk, cancels, restarts>>

\* fallbackEvidence: the hashes and the evidence file are awaited before this.
Fallback(j) ==
    /\ at[j] = "fallback"
    /\ \E answer \in {"planned", "blocked"} :
        /\ status' = [status EXCEPT ![j] = answer]
        /\ Persist(j, "run", answer, 0)
    /\ at' = [at EXCEPT ![j] = "saving"]
    /\ UNCHANGED <<children, timedOut, disk, cancels, restarts>>

\* The catch of run.
Caught(j) ==
    /\ children' = [children EXCEPT ![j] = "none"]
    /\ status' = [status EXCEPT ![j] = "failed"]
    /\ Persist(j, "run", "failed", 0)
    /\ at' = [at EXCEPT ![j] = "catching"]
    /\ UNCHANGED <<timedOut, disk, cancels, restarts>>

\* A spawn without executable, an unreadable policy or workload.
RunThrows(j) == at[j] \in {"invoking", "fallback"} /\ Caught(j)

\* Mutant: the watchdog answers at once, without waiting for the child.
WatchdogAnswers(j) ==
    /\ at[j] = "collecting" /\ ~ timedOut[j]
    /\ timedOut' = [timedOut EXCEPT ![j] = TRUE]
    /\ status' = [status EXCEPT ![j] = "timeout"]
    /\ UNCHANGED <<at, children, writes, disk, cancels, restarts>>

\* Mutant: the watchdog only takes note.
WatchdogNotes(j) ==
    /\ at[j] = "collecting" /\ ~ timedOut[j]
    /\ timedOut' = [timedOut EXCEPT ![j] = TRUE]
    /\ UNCHANGED <<status, at, children, writes, disk, cancels, restarts>>

Watchdog(j) ==
    /\ at[j] = "collecting" /\ ~ timedOut[j]
    /\ timedOut' = [timedOut EXCEPT ![j] = TRUE]
    /\ children' = [children EXCEPT ![j] = "killed"]
    /\ UNCHANGED <<status, at, writes, disk, cancels, restarts>>

\* What run makes of a child that has closed: the watchdog's flag, the status in the
\* evidence it printed, or its exit code.
Outcomes(j) ==
    IF timedOut[j] THEN {"timeout"}
    ELSE {"completed", "failed", "timeout", "planned", "blocked"}

\* Mutants: the result is stored whatever happened meanwhile; it is answered but not stored.
ChildClosesAnyway(j) ==
    /\ at[j] = "collecting"
    /\ children' = [children EXCEPT ![j] = "none"]
    /\ \E answer \in Outcomes(j) :
        /\ status' = [status EXCEPT ![j] = answer]
        /\ Persist(j, "run", answer, 0)
    /\ at' = [at EXCEPT ![j] = "saving"]
    /\ UNCHANGED <<timedOut, disk, cancels, restarts>>

ChildClosesUnsaved(j) ==
    /\ at[j] = "collecting"
    /\ children' = [children EXCEPT ![j] = "none"]
    /\ at' = [at EXCEPT ![j] = "done"]
    /\ \E answer \in Outcomes(j) :
        status' = [status EXCEPT ![j] = IF @ = "cancelled" THEN @ ELSE answer]
    /\ UNCHANGED <<timedOut, writes, disk, cancels, restarts>>

ChildCloses(j) ==
    /\ at[j] = "collecting"
    /\ children' = [children EXCEPT ![j] = "none"]
    /\ \/ /\ status[j] = "cancelled"
          /\ at' = [at EXCEPT ![j] = "done"]
          /\ UNCHANGED <<status, writes>>
       \/ /\ status[j] # "cancelled"
          /\ \E answer \in Outcomes(j) :
                /\ status' = [status EXCEPT ![j] = answer]
                /\ Persist(j, "run", answer, 0)
          /\ at' = [at EXCEPT ![j] = "saving"]
    /\ UNCHANGED <<timedOut, disk, cancels, restarts>>

Saved(j) ==
    /\ at[j] \in {"saving", "catching"} /\ ~ Awaits(j, "run")
    /\ at' = [at EXCEPT ![j] = "done"]
    /\ UNCHANGED <<status, children, timedOut, writes, disk, cancels, restarts>>

------------------------------------------------------------------------------
(* cancel *)

Cancel(j) ==
    /\ status[j] \notin Terminal \cup {"none"}
    /\ cancels[j] < MaxCancels
    /\ children' = [children EXCEPT ![j] = IF @ = "alive" THEN "term" ELSE @]
    /\ status' = [status EXCEPT ![j] = "cancelled"]
    /\ cancels' = [cancels EXCEPT ![j] = @ + 1]
    /\ Persist(j, "cancel", "cancelled", cancels[j])
    /\ UNCHANGED <<at, timedOut, disk, restarts>>

\* The timer of cancel, if the same child is still registered.
ForceKill(j) ==
    /\ children[j] = "term"
    /\ children' = [children EXCEPT ![j] = "killed"]
    /\ UNCHANGED <<status, at, timedOut, writes, disk, cancels, restarts>>

------------------------------------------------------------------------------
(* The death of the process, and init *)

\* What a file may hold when the process dies with writes of it in flight.
Left(j) ==
    {disk[j]} \cup {w.what : w \in writes[j]} \cup (IF writes[j] = {} THEN {} ELSE {"damaged"})

\* Mutant: an unfinished job is listed as its file says.
RestoredAsIs(found) == IF found = "damaged" THEN "none" ELSE found

Restored(found) ==
    IF found \in {"queued", "running"} THEN "failed"
    ELSE IF found = "damaged" THEN "none" ELSE found

Restart ==
    /\ restarts < MaxRestarts
    /\ restarts' = restarts + 1
    /\ \E left \in [Jobs -> UNION {Left(j) : j \in Jobs}] :
        /\ \A j \in Jobs : left[j] \in Left(j)
        /\ disk' = left
        /\ status' = [j \in Jobs |-> Restored(left[j])]
        /\ at' = [j \in Jobs |-> IF at[j] = "nowhere" THEN "nowhere" ELSE "restored"]
    /\ children' = [j \in Jobs |-> "none"]
    /\ timedOut' = [j \in Jobs |-> FALSE]
    /\ writes' = [j \in Jobs |-> {}]
    /\ UNCHANGED cancels

\* writeFile rejects (a full disk): create answers an error and never runs the job, cancel answers an
\* error, the two persist calls inside run's try are caught.  The two outside it reject
\* a promise nobody handles, which ends the process: Restart covers that.
WriteFails(j) ==
    /\ \E w \in writes[j] :
        LET in == [writes EXCEPT ![j] = @ \ {w}]
        IN  /\ disk' = [disk EXCEPT ![j] = "damaged"]
            /\ \/ /\ w.by # "run"
                  /\ at' = IF w.by = "create" THEN [at EXCEPT ![j] = "rejected"] ELSE at
                  /\ writes' = in
                  /\ UNCHANGED <<status, children>>
               \/ /\ w.by = "run" /\ at[j] = "saving"
                  /\ at' = [at EXCEPT ![j] = "catching"]
                  /\ status' = [status EXCEPT ![j] = "failed"]
                  /\ children' = [children EXCEPT ![j] = "none"]
                  /\ writes' = [in EXCEPT ![j] = @ \cup
                        {[by |-> "run", n |-> 0, what |-> "failed", torn |-> in[j] # {}]}]
            /\ UNCHANGED <<timedOut, cancels, restarts>>

------------------------------------------------------------------------------
Proceeds(j) ==
    \/ RunBegins(j) \/ LooksForCli(j) \/ NoCli(j) \/ SpawnsCli(j) \/ Fallback(j) \/ RunThrows(j)
    \/ Saved(j)

JobNext ==
    \/ \E j \in Jobs :
        \/ Create(j) \/ Proceeds(j) \/ Watchdog(j) \/ ChildCloses(j)
        \/ Cancel(j) \/ ForceKill(j) \/ WriteEnds(j) \/ WriteFails(j)
    \/ Restart

\* The event loop turns, timers fire, the disk answers, and a child that received a
\* SIGKILL closes.  Any other child may run for ever or ignore a SIGTERM.
JobFairness ==
    \A j \in Jobs :
        /\ WF_jobVars(Proceeds(j)) /\ WF_jobVars(WriteEnds(j))
        /\ WF_jobVars(Watchdog(j)) /\ WF_jobVars(ForceKill(j))
        /\ WF_jobVars(children[j] = "killed" /\ ChildCloses(j))

JobSpec == JobInit /\ [][JobNext]_jobVars /\ JobFairness

------------------------------------------------------------------------------
(* Properties *)

Writes == [by : Authors, n : 0 .. MaxCancels, what : Statuses \ {"none"}, torn : BOOLEAN]

JobTypeOK ==
    /\ status \in [Jobs -> Statuses]
    /\ at \in [Jobs -> Places]
    /\ children \in [Jobs -> {"none", "alive", "term", "killed"}]
    /\ timedOut \in [Jobs -> BOOLEAN]
    /\ writes \in [Jobs -> SUBSET Writes]
    /\ disk \in [Jobs -> Statuses \cup {"damaged"}]
    /\ cancels \in [Jobs -> 0 .. MaxCancels]
    /\ restarts \in 0 .. MaxRestarts

\* A job that is reported finished, other than by a cancel, has no process any more.
FinishedHasNoChild ==
    \A j \in Jobs : status[j] \in Terminal \ {"cancelled"} => children[j] = "none"

\* After a restart no job is left waiting for a run that no longer exists.
NobodyWaitsAfterRestart ==
    \A j \in Jobs : at[j] = "restored" => status[j] \in Terminal \cup {"none"}

\* As long as nobody cancels, what a restart would find is what the panel last showed,
\* whenever no write is under way and create did not fail.
DiskFollowsMemory ==
    \A j \in Jobs :
        writes[j] = {} /\ cancels[j] = 0 /\ at[j] \notin {"restored", "rejected"} => disk[j] = status[j]

\* The result of a run that was cancelled while its process was working never replaces
\* the answer "cancelled", however the process ends.
CancelOfRunningSticks ==
    [][\A j \in Jobs :
        status[j] = "cancelled" /\ children[j] # "none" /\ restarts' = restarts
        => status'[j] = "cancelled"]_jobVars

\* Once a job is shown as finished it stays as it is: cancel relies on it, and the page
\* stops listening to the job.
TerminalIsFinal ==
    [][\A j \in Jobs :
        status[j] \in Terminal /\ restarts' = restarts => status'[j] = status[j]]_jobVars

Pending(j) == status[j] \in {"queued", "running"} /\ at[j] # "rejected"

\* Every job that create accepted ends, whatever its process does and whether the disk
\* takes its record or not.
EveryJobSettles == \A j \in Jobs : Pending(j) ~> ~ Pending(j)
==============================================================================
