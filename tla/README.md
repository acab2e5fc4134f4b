# Sandbox Labs: verification

TLA+ specifications of the parts of `sandbox-labs` where order, failure and concurrency decide
whether the program is right, the TLC configurations that check them on small instances, and
theorems about them that TLAPS checks for every instance. Every definition is translated from
the source; paths below are relative to the repository. `PROJECT.json` maps each definition to
the lines it stands for.

## 1. Inventory

`sandbox-labs` runs programs nobody trusts inside declared boundaries and writes a signed report
of what was really enforced. A command (`sandboxctl`), a local control panel (Node) and a
library of capital-market cases share one repository.

| Component | State | Operations | Hard behaviour |
|---|---|---|---|
| Service supervisor (`sandboxctl/src/service.rs`, `sandbox-core/src/service.rs`) | record files, socket files, ports, the host's process table | `up`, `down`, `down --all`, list, logs, call | every command is a process without locks; services, forwarders and commands die at any moment; PIDs are reused; sandboxes without a record must still be lowered |
| Port forwarder (`sandboxctl/src/forward.rs`) | a listening port, a counter, bridged connections | bind, serve, bridge, pump | the limit is read by one thread and the counter lowered by others; each direction ends by itself; dies when the port is taken; outlives its sandbox |
| Process execution (`sandbox-runtimes/src/process.rs`, `lib.rs`, the adapters, `main.rs::run`) | a child, two output drains, a sampler, the proxy, the scratch directory | plan, spawn, wait, time out, drain, join, report | a drain waits for whoever holds the pipe; time-out against exit; the load forks; the command itself is killed; the host changes between plan and launch |
| Policy, plan and controls (`policy.rs`, `runtime.rs`, `compiler.rs`, `seccomp.rs`, `cgroup.rs`) | none between calls | plan, block or run, compile | what counts as effective and what is really put around the load are two tables kept by hand |
| Evidence chain and signing (`sandbox-core/src/evidence.rs`, `signing.rs`) | `evidence/runs`, `.chain`, the key file | build, write, verify; load_or_create | read-modify-write of `.chain` by concurrent processes; crash between report and chain; errors of `.chain` that are dropped; reports the panel adds; two first runs create the key at once; a key file that cannot be read is replaced |
| Egress proxy (`sandbox-core/src/egress.rs`) | backlog, thread list, shared log, one connection to a destination per connection of the load | start, accept, serve, splice, finish, drop | thread per connection and per direction; limit; time-outs in the handshake; failures at every call; stopping |
| Job store (`control-center/src/jobs.ts`) | map of jobs, their files, their children | create, run, cancel, fallback evidence, init | every `await` is an interleaving point; file writes overlap; watchdog, cancel and the child's end race; restart |
| Double-entry ledger (`sandbox-markets/src/ledger.rs`, `money.rs`) | journal, balance cache, index of keys, index of reversals | post, reverse, replay, is_balanced | retries, reversals by two routes, fixed-width arithmetic that can fail half way |
| Order book (`sandbox-markets/src/orderbook.rs`) | bids, asks, tape, identifiers in use | submit (match, rest), cancel | price-time order after fills and cancels; refusal after matching |
| Custody (`custody.rs`, `scenario.rs`) | positions, movements in transit | record, pending, reconcile | netting between instruments, clients or the house must not hide what is missing |
| Market cases with memory (`cases/clearing.rs`, `tokenization.rs`, `crowdfunding.rs`, `corporate_actions.rs`, `consent.rs`, `wind_down.rs`, `reporting.rs`, `routing.rs`) | one small book each | one state machine per case | rules that must hold over several calls in any order, rounding |
| Market cases without memory, measurements, catalogue, HTTP routing, browser page, site | none that outlives a call | | I/O, formatting, arithmetic of one call |

How they meet: a request to the panel creates a job; the job starts `sandboxctl run`; that
command plans, starts the egress proxy when the policy has an allowlist, executes the sandbox,
ends the proxy, builds the report with the proxy's records and links it into the chain. Requests
for services start `sandboxctl service ...` as a child with a time-out, which is one of the ways
in which such a command dies. Services publish their port through a forwarder. The market cases
run in process, each with its own books.

What makes each component right:

* supervisor: it goes after nobody else's process; after `down` nothing of the service is left;
  after `down --all` nothing at all is left; every command ends;
* forwarder: however a connection ends its place comes back; nothing written is dropped before
  its end is told;
* execution: what a report declares was put around the load; nothing of a load outlives its
  command; a report says what happened; the answer arrives whatever the load does;
* evidence: a link names a report that was written, a gap is reported exactly when one is
  missing as far as nothing disturbed the reports around it, one key signs;
* proxy: the limit holds, the log is complete and true, a destination sees the load's data and
  nothing else, stopping ends;
* job store: every job ends, a finished one has no process, the file says what the panel says, a
  cancel stands, a restart leaves nobody waiting;
* ledger: a payment is charged once and reversed once, every currency adds up to zero, the
  balances are what the journal says;
* order book: nobody jumps the queue, no crossed book, every unit is accounted for;
* market cases: no sequence of calls makes or loses money or units; what is shared out is shared
  whole and in proportion; a verdict says what the books say; a right that is withdrawn stays so.

## 2. Plan

Done, the state nearest to a loss first:

1. `Money`, `Book`, `Ledger`, `LedgerProofs`: the money.
2. `OrderBook`, `OrderBookProofs`: the matching engine.
3. `ServiceLifecycle`, `ServiceProofs`: the component with most actors.
4. `JobStore`: the panel's queue.
5. `EvidenceChain` with the signing key: the reports.
6. `EgressProxy`, `EgressProofs`: the filtered way out.
7. `Plan`, `Execution`, `ExecutionProofs`: one run from plan to report.
8. `Forwarder`: bridged connections and their counter. `SupervisorProofs` has the theorems about
   4, 5 and 8 and about the parts together.
9. The market cases with memory and custody, each a module, together in `Markets`; `MarketProofs`.
10. `Sums`: the laws of sums over finite sets, of running sums and of sorted lists that the
    ledger, the order book and the market cases need.

Left:

11. `Execution` with the whole of `EgressProxy` in place of its summary (attempts and records),
    and the collection of artifacts after the run.

No module about which something is proved, nor any it uses, declares a RECURSIVE operator:
sums are folds over sets, replays and fragmented orders are recursive functions, a sort is the
list that is chosen for being in order.

## 3. Modules and their correspondence with the code

### Money, Ledger, Book (`MCLedger`)

`Money` has the amounts: `MinUnits .. MaxUnits` stands for `i128`, addition is checked, `Negate`
wraps as the release build does. `Ledger` has one action per outcome of `post` and `reverse`:
`Reject` with each error in the order of the checks, `Apply`, and `Tear`, the `?` in the middle
of the walk that leaves earlier balances changed. `ReversePosts` builds the reversal and posts
it; `ReversePanics` is the debug build's overflow in `negate`. `torn` is a ghost. `Book` is the
abstract specification, the promise in the header of `ledger.rs`: one append-only history, each
key once, each reversal once, each transaction balanced. `ImplementsBook` is the refinement
(`History == INSTANCE Book`): caches, indexes and errors implement it by stuttering or appending.

### OrderBook (`MCOrderBook`)

`Submit` is `SubmitInvalid`, `SubmitAccepted` or `SubmitNoLiquidity`; `Cancel` is found or not.
The matching loop is not a loop here: `filled` says what each order of the opposite side gives
(`Depth`: a prefix of the queue, whose members are emptied in turn and the last one perhaps in
part). `sequence`, `seen` and the tape are as in the code. `asked` (the orders as accepted) and
`untaped` (something was executed off the tape) are ghosts.

### ServiceLifecycle (`MCService`)

`proc` is the process table: PID to tenant, with a start mark that tells tenancies apart.
A command is a record `cli[c]` with a program counter; its steps are named after what they do
(`UpObserve`, `UpSpawn`, `UpRecord`, `UpReady`, `DownTerm`, `DownKill`, `DownScan`, `DownForget`,
`AllNext`, `AllScan`, ...). Between two steps anything may happen: another command, `Die`,
`CliDies`, `StrangerStarts` on a freed PID, `ServiceBinds`, `ForwarderBinds`. The kernel's part
(who dies with whom, zombies of a living parent, adoption) is external and stated in
`Casualties`, `Buried`, `Adopted`. Assumed: a PID is not reused during one scan of `/proc` nor
between the file accesses of one `same_process`; it may be across everything else, every sleep,
file access and spawn.

To lower a process is three steps, as in the code. `Aims` (or, for what a scan found, `Asks` and
`Insists`, one process after the other) is the check: when `same_process` says yes, `Signalling`
notes the target, who was there at that moment, and that two `kill` processes are due. Each
`SendsSignal` is one of them, the group first and then the bare number, and reaches whoever has
the number by then; nothing is asked in between. A process of a service leads its group, so both
reach it; of a stranger that is left open. A SIGTERM may be ignored.

### Plan, Execution (`MCRequests`, `MCExecution`)

`Plan` has no state. One half is what an execution may promise (`SupportedControls`,
`ExecutionPlan`: `runtime.rs` and `policy.rs`), the other what the adapters build (`Sandbox`,
`Rlimits`, `Scope`, `Unshared`, `EffectiveLimits`). The two halves are written apart, as in the
code; `Mechanisms` says which argument is there for which control, and `Enforced` what a list of
arguments comes to.

`Execution` is one `sandboxctl run`: `Plans`, `Declines` (the report of a plan that does not
run), `Prepares` (the adapter asks the host again), `Spawns`, `StartsSampler`, `Drains`,
`Samples`, `Exits` or `TimesOut`, `Joins` (drains and sampler), `Reports` (the proxy's finish and
the evidence). `Fails` is every `?` on the way, `CommandDies` a SIGKILL. Around it the load
starts inside its namespaces, writes, connects, forks and ends (`Load`), systemd moves the child
to its scope (`EntersScope`), and prlimit may come or go after the plan (`HostChanges`). A native
load may leave descendants that hold the pipes; the PID namespace of bubblewrap ends with its
first process, and bubblewrap dies with its parent once it runs. Output is counted in units;
`DrainFails` is the read error that ends a drain without anybody being told. The proxy is reduced
to how many connections the load has made, wait in the socket's queue, have been taken up and are
in the log: `ProxyAccepts`, `ProxyRefuses` (over the limit, no record), `ProxyRecords`. It is
never obliged to accept: what is in the queue when `finish` stops it stays without a record, as in
the code, and `Reports` waits for the threads that were started (`recorded = taken`). `steady`,
`exposed` (the command ended before bubblewrap had tied itself to it), `seen` and `cut` (a drain
stopped at an error) are ghosts.

### EvidenceChain

A report is the position of its timestamp, its digest the same number. `Builds`, `ReadsChain`,
`WritesReport`, `WritesChain` are the steps of `Evidence::build` and `write`; `WriterDies` may
come between any two; `FallsBack` is the panel's unlinked report; `Loses` removes one. `Gaps` is
`verify_chain`. `CannotReadChain` is the `unwrap_or_default` that takes a `.chain` it cannot read
for none, `CannotWriteChain` the `let _ =` that drops a failed write, which leaves the old link or
an empty file. Before the report is written its writer obtains the key as `signing.rs` does in
`load_or_create`: `LoadsKey` reads the file; `CreatesKey` is possible whatever the file holds,
because any read error counts as its absence; the key is stored by truncating and then filling
the file, and when that fails the report stays unsigned.

Ghosts: `lost` has the reports that were removed. `disturbed` has the timestamps of the
executions that something kept from linking: another one under way at the same time, the panel's
report next to it, an error of `.chain` or a death before it was written. `astray` has the keys
that were replaced after a read error or made while another was being made. The properties name
them as exceptions, of single reports and single keys: what comes after is held to the promise
again.

### EgressProxy (`MCEgress`)

`worker` is the accepting thread of `Proxy::start` (check the flag, accept, join), `handles` its
list, `serving[c]` the thread of connection `c` (`line`, `headers`, `dialling`, `confirming`,
`splicing`, `recording`, `done`; `shut` is an excess connection, `reset` one that was never
accepted), `far[c]` the destination's end, `log` the shared list, `sup` the owner (`finish` or
`Drop`). A line or a chunk is one token. Outside `src/`: `Connects`, `Writes`, `HalfCloses`,
`Closes` (the load), `FarReplies`, `FarCloses` (destinations). Every call that can fail has its
failure: accept, duplicate, read, dial, confirm, either write. A thread counts as finished in
the list from the moment its record is pushed; `JoinHandle::is_finished` may say so a moment
later, which only refuses a connection more. What the load writes before it is accepted it
writes afterwards in the model: the proxy cannot tell the two apart.

### JobStore

One single-threaded process: each action is the code between two `await`s. `at` says where
`create` or `run` is suspended, `writes` has the `writeFile` calls in flight; two that overlap
are both torn and may leave any of the texts or a damaged one. `WriteFails` is a disk that
refuses; `Watchdog` and `ForceKill` are the two timers; `Restart` reads the files back as `init`
does. Jobs share nothing but the restart, so one job with two cancels shows every interleaving.

### Forwarder

`Accepts` and `SpawnsThread` are the two halves of the accepting loop, between which other
threads may lower the counter `live`; `Refuses` is the limit. `Connects` or `ConnectFails` opens
the sandbox's socket; each direction of a bridge `Copies`, passes an end of input on (`Tells`) or
`Breaks`; `BridgeEnds` is the join, `Leaves` the decrement that runs however the bridge ended.

### Supervisor (`MCSupervisor`)

`EvidenceChain`, `Execution`, `JobStore` and `Forwarder` share no state: each is a process or a
set of files of its own, and what passes between them (a command line, an exit code, a report)
is an input that the receiving module leaves open. `MCSupervisor` extends the four, and
`part` says which one a behaviour is about, so that one run checks the four in turn; their
names are prefixed (`ChainNext`, `RunNext`, `JobNext`, `ForwarderNext`).

### Markets and its cases (`MCMarkets`)

One module per case: `Clearing` (settle in any order, retries, netting), `Tokenization` (issue
against a backing, freeze, transfer), `Crowdfunding` (commit, close by arrival or pro rata),
`CorporateActions` (trade from day to day, split or dividend on the record day), `Consent`
(grant, revoke, query, expiry), `WindDown` (steps of an orderly exit, pro rata distribution),
`Custody` (positions, movements in transit, reconciliation), `Reporting` (versions chained by a
digest of their sections, corrections, alterations of what the digest covers and of what it does
not), `Routing` (best execution over quoted venues). The library
runs one case at a time; `Markets` puts them and the order book together, `desk` says which one a
behaviour is about, and the others keep their state (`Others`). The properties of the run join
those of the cases: nothing from nothing, fair shares, right verdicts, rights that stay
withdrawn. `ReportsHold`, in `MCMarkets`, is evaluated on every run: it applies the models' operators to the scenarios
of each case's own report, with the figures of the source, and expects the same findings.

## 4. Runs

| Run | Question | Bounds | Distinct states |
|---|---|---|---|
| `ledger` | idempotence, single reversal, cache, balance, refinement | 3 keys, 3-bit amounts, 9 entry lists that reach both ends of the width and mix currencies | 32,390 |
| `ledger_torn` | is the book balanced after *any* answer? **No** | same | counterexample |
| `markets` | order book: order, crossing, accounting, queue; the other cases: conservation, fair shares, true verdicts, rights withdrawn | 3 accepted orders, prices 0..3, quantities 0..2, cancels between; each case with the small books of its module | 249,153 |
| `order_book_tape` | is everything traded on the tape? **No** | the order book as above | counterexample |
| `service` | whom a command goes after, `down`, `down --all` | 1 terminal, 2 services (with forwarder; plain TCP), 3 PIDs with 2 tenancies each, strangers | 391,737 |
| `service_race` | does every command end? | 2 terminals on one service, both raising it, one with `down`, one with `down --all` (`Issues`), 2 PIDs, 2 tenancies, 1 poll | 353,445 |
| `service_heir` | does every signal reach the service's own? **No** | 1 terminal, 1 service, 3 PIDs with 2 tenancies, strangers | counterexample |
| `supervisor` | reports, key, what a run declares and leaves behind, the panel's files, a forwarder's connections, ending | 2 writers and 3 reports; each runtime under 4 policies on 3 hosts, 1 unit of output kept of 2 written, 2 connections and room for 1 (`ProxyLimit`); 1 job with 2 cancels, 1 restart and a failing disk; 2 clients for 1 place, 1 byte each way | 783,770 |
| `jobs_final` | is a finished job final? **No** | the job as above | counterexample |
| `observed` | are the figures of a report the load's? **No** | the execution as above | counterexample |
| `egress` | limit, log, payload, records, ending | 2 connections, 1 slot, 1 unread token, 1 reply, 4 requests | 338,029 |
| `egress_headers` | do headers stay in the proxy? **No** | same | counterexample |

Why the bounds are enough for what they show. Three keys are a transaction, its reversal and the
reversal of that, or a retry. Three orders are two in a queue and one that meets them; the
quantities allow exact, partial and multiple fills. Two tenancies of a PID are the recorded
process and its heir; three PIDs are the outer process, the sandbox's init and the forwarder of
one service, so the second service runs on numbers the first has left. Two cancels race each
other and the end of the child. Three reports leave a loss with reports on both sides, and two
writers overlap in every step; a disturbed report, the one that links to it and one after these
are three as well. The policies are strict and best effort, with and without network,
allowlist and system call filter; the hosts have all tools, none, or some. One unit kept of two
written is an output cut short. Two connections
and room for one leave one recorded, refused or forgotten in the queue. Two clients and one place, like two connections and one slot, have
one refused, queued, or served after the other; one unread token makes each read a step of its
own, so that a time-out, a close or a failure can fall between any two tokens. Symmetry
(`PidSymmetry`, `IdSymmetry`) is used in runs without liveness and only on sets whose members are
compared and nothing else.

Deadlock is checked in the ledger, order book, market and service runs. The supervisor's parts and
the proxy end (reports, jobs and connections are bounded; the proxy stops) and say so in their cfg.

### Fairness

* `service_race`: a command that runs keeps running. Nothing is asked of services, forwarders or
  the host; nobody has to issue or kill a command.
* `supervisor`, the execution: the command's own steps (`Supervises`) are taken, its clock among
  them: the time-out comes. Nothing is asked of the load, which may write, fork or sleep for ever.
  Once the load is gone the threads of the proxy end (`ConnectionsEnd`), for the reason given for
  `egress` below; the proxy need not accept anybody.
* `supervisor`, the job: the event loop turns, timers fire, a write is answered (possibly with an
  error), a child that received SIGKILL closes. Any other child may run for ever or ignore SIGTERM.
* `egress`: the accepting thread, each connection's thread and each copying direction run. Once
  the supervisor stops, the load is dead and its ends are closed (its PID namespace is gone).
  A destination that has been told the end of the input closes: this is asked of the outside,
  because `splice` has no time-out (see section 6).

`EverythingEnds` is the two liveness promises of `supervisor`: a command that has spawned a load
under bubblewrap or Wasmtime ends (`RunsEnd`), and every job ends (`EveryJobSettles`).

## 5. Proofs

Each module of proofs gives a named assumption on the constants, an invariant that is inductive,
and the theorems that follow from it. What the invariant adds to the property is the argument.
Every invariant that a passing run checks is stated by a theorem, except those of the last
paragraph.

`Sums` has no state. Induction is stated about sets: a set of naturals with zero that is closed
under successor is `Nat` (`EveryNumber`), and a set of subsets of a finite `S` with `{}` that
takes in one element at a time has `S` (`FiniteInduction`). The provers can use that form where
they cannot instantiate an operator parameter. From it: the sum of a function over a finite set is
what its recursive definition says whatever element is chosen first (`SumStep`, `SumRemove`), and
so unions, images, scaling, comparison and grouping by a key (`SumUnion`, `SumImage`, `SumScale`,
`SumMonotone`, `SumByKey`); running sums (`SumsSoFar`); that a finite set with a total order has
exactly one list in that order (`ListExists`, `ListIsComplete`); and that giving one unit to each
of the first `n` gives out `n` (`FirstOnes`).

`LedgerProofs`, for every width, finite set of accounts, currencies, keys and submitted entry lists
(`WidthAssumption`, `AccountsAssumption`, `LedgerAssumption`). `TypeCorrect`, `Idempotence`,
`SingleReversal` and `ImplementsTheBook` rest on `TypeOK /\ AppliedOnce /\ ReversedOnce`: that a
transaction is reversed once is not inductive alone, because that a target precedes its reversal
needs the key index to have the right position of every key, and the refinement needs both indexes
exact to turn the code's look-ups into the abstract "was it recorded?". `CacheIsReplay`,
`DoubleEntry` and `ReversalsAreExact` are about the arithmetic, with the invariant `BookInv`. A walk over
the entries that meets no error adds to each balance what the transaction says of it, so the cache
follows the journal; what it adds over all accounts of a currency is the sum of its entries of that
currency, which the check for balance made zero. A reversal undoes its target unless the negation
of the smallest amount wrapped, and `NothingWrapped` shows that such a list of entries does not
balance and was refused: a wrapped amount and its negation add up to less than zero, every other
pair to zero, so that both totals cannot be zero.

`OrderBookProofs`, for any identifiers, prices and quantities (`BookAssumption`): no crossed book,
price-time order, trades within both limits, nobody jumps the queue, every unit accounted for.
`Parted` says that the two sides do not meet, and survives because an order rests only when the
matching has left nothing that meets its limit; `Depth` is defined by a least number, whose
existence comes from the library's theorem that the naturals are well founded. `EveryUnit` adds up,
for each order, what rests, what is on the tape as buyer or seller and what was withdrawn: a call
moves units between these sums and changes each of them for one order at a time.

`ServiceProofs`, for any terminals, services, PIDs and tenancies (`ServiceAssumption`,
`IssuesAssumption`, `NoneAssumption`): `TypeCorrect`, `AimsAreItsOwn`, `DownLeavesNothing` and
`NothingEscapesTheSweep`. `KnownTo` says what a remembered pair of PID and start
mark is worth, `Follows` that a tenancy can only end; together a memory that was true of a file or
of a command that sleeps or waits for a `kill` stays true, and what `same_process` lets through is
the service's own. The theorem ends there: that the target still holds the number when the second
`kill` is sent is not true, and `service_heir` shows it.

The last two hold while one terminal is at work, the condition of `DownStops` and `AllSweeps`
(another one's `up` may start what a `down` has just lowered), whatever dies, binds, ignores
SIGTERM or re-uses a number meanwhile. `Lowers` says for each place of `down` what it has done with
the recorded sandbox, the recorded forwarder and what the scan found; `Sweeps` says what
`down --all` still has to lower (`Due`) of all it knows, and that a service it has passed has no
record. Two facts about the process table carry both: an ended tenancy never comes back
(`DeadStays`), and only the spawns of `up` bring a process of a service (`NobodyNew`).

`EgressProofs`, for every limit, allowlist, buffer, set of connections and requests
(`EgressAssumption`): `TypeCorrect`, `NeverBeyondCap`, `NothingUnrecorded`, `ExactPayload`,
`TrueRecords`.

* `TypeInv` adds to the types that a connection is read no further than written and written no
  further than its request goes (`WithinStream`): only then is the next token a token;
* `Waiting` says of the backlog that each connection is in it once, connected and without a
  thread: without it an accept could replace a thread at work;
* `Known` (every thread at work is in the finite list, the list within the limit) and `Logged`
  (the log's connections are the finished ones, as many as records; the accepting thread ends
  with nobody at work) carry the limit and the log;
* `Honest` says of a thread where it stands in the stream (`Placed`: before the first empty line,
  on it, or as many tokens behind it as the destination has) and what its counters are worth
  (`Counts`: of a write that failed at most one token left uncounted).

`ExecutionProofs`, for every request, host and bound (`ExecutionAssumption`). First without a
state: `LimitsAreEnforced` and `PlanIsEnforced` go through the two tables, what a plan promises and
what an adapter builds, for all runtimes, policies and hosts. Then the state machine:
`DeclaredIsEnforced`, `NothingStays`, `TrueReports`, from an invariant that ties the plan to the
arguments (`Planned`, `Composed`), the load to its cage (`Caging`), and drains, sampler and proxy
to what the report will say (`Piped`, `Proxied`, `Tallied`, `Told`).

`SupervisorProofs`, for the constants of all four parts:

* The evidence chain, for any number of writers and reports: `NoDanglingLink` (a number enters
  `.chain` only after its report is in the directory), `SignedByOne` (a key goes out of use only
  through whoever replaces it or makes one at the same time, and these are counted: `KeyAlone`,
  `KeyKept`) and `GapsAreLosses`. The last says that the chain heals: an execution that nothing
  disturbs finds nobody else at work and `.chain` at the last report, unless that one was disturbed
  (`Alone`, `Head`, `Linked`), so that the second one after a disturbance is linked rightly again.
* The jobs, for any jobs, cancels and restarts: `FinishedJobsHaveNoChild`, `RestartSettles`,
  `DiskIsMemory`, `CancelSticks`. The place where `create` or `run` is suspended says what the
  status can be (`Placed`); as long as nobody cancels, at most one write is under way and it
  carries what memory says (`Saving`).
* The forwarder, for any clients and any limit: `SoundConnections`. The limit is read before the
  counter is raised; `Handed` (nobody else raises it in between) and `Counted` (the counter is the
  number of holders) make up for it.
* The parts together: `PartsKeepTheirTypes`, the type invariant of the run, and
  `PartsKeepTheirPromises`: the invariants of the parts hold side by side whichever of them works.

`MarketProofs`, for the constants of the cases: `CasesKeepTheirTypes`, `NothingComesFromNothing`,
`EveryShareIsFair`, `EveryVerdictIsRight`, `RightsStayKept`, `NettingLosesNothing`. The cases share
nothing, so `CasesInv` is the conjunction of one invariant for each, whichever is at work:

* clearing: every balance is the opening one plus what the settled trades come to for that
  participant on each side, so that the order of settlement and the failed attempts do not matter;
* tokenization: what is held adds up to what was issued, and that is within the backing;
* crowdfunding: the outcome is that of `close` on the list as it stands; the accepted list is
  shown to exist and to be in order of arrival, first come is a running sum cut at the ceiling, and
  pro rata each is rounded down by less than one unit, so the rest is smaller than the number of
  those who are short, and each of the first of them gets one;
* corporate actions: once the record day has ended, what counts is what the histories say of it,
  because a trade writes under a later day; a split rounds each position down by less than one;
* consents: what is withdrawn was revoked on an earlier day, and the status of a day says so first;
* wind-down: the shares are rounded down, so that they fit in what there is;
* custody: the reconciliation has a finding for each instrument whose sides differ, so that with no
  finding each of them agrees, those that only one side knows included;
* reporting: a version carries the number and the digest of the one before it as that was then, so
  that a link fails exactly when the sections it covers are others;
* routing: along the venues by cost of a unit, each either gave all it shows or the order was
  complete.

Assumed of the inputs, and checked by nobody in the code (`Markets`, one `ASSUME` a case): units,
cash, prices, fees and commitments that are given are not negative, the identifiers of trades
tell them apart and their parties have an account, the record day comes before the payment, a
routed order asks for at least one unit. The reports of the cases only build such inputs.

`ChainAssumption`, `ExecutionAssumption`, `JobAssumption` and `ForwarderAssumption` are evaluated as
conjuncts of `PartsTypeOK`, the others as `ASSUME`s.

Only model-checked: liveness under fairness (`EveryCommandEnds`, `EverythingEnds`, `FinishEnds`),
which is out of the provers' reach. Every other property of a passing run is a theorem.

## 6. What the checks found

With a run of its own:

* `ledger.rs:146`: the `?` of a checked addition leaves `post` after earlier entries were
  written: an error is answered and the book no longer balances (`ledger_torn`).
* `orderbook.rs:151`: a market order is matched and then refused: executions that are on no tape
  (`order_book_tape`).
* `sandboxctl/src/service.rs:717`: one check guards two `kill` processes; the first may end the
  process and free its number, and the second, to the bare number, takes down whoever was given it
  (`service_heir`). The comments at 655-657 and 706-707 say nobody else is signalled.
* `jobs.ts:96`: a job cancelled while `create` saves it is run all the same (`jobs_final`).
* `process.rs:58`: the sampler looks for the cgroup of the child right after the spawn, when
  `systemd-run` has not moved it to its scope; the figures of the host's session are published,
  which `cgroup.rs:323-325` says must not be (`observed`).
* `egress.rs:266`: a header that is late or unreadable ends the header loop; the rest of the
  CONNECT goes to the destination (`egress_headers`).

Seen while modelling, without a run. Services:

* a second `up` of a service that is still starting spawns a second sandbox and overwrites the
  record of the first, live one (`UpObserve` stops only for Running); `down --all` still finds it;
* a `down` can remove the record while `up` still waits, and `up` then reports a service ready
  that is recorded nowhere;
* `up` removes a dead service's record before it probes the port, and with it the forwarder's
  PID; the forwarder then blocks the new start;
* the sweep of `down --all` spares whoever runs on a recorded PID, an orphan that inherited the
  number included: the exception `IsHeir` in `DownStops` and `AllSweeps`;
* `sandboxctl/src/service.rs:537`: the child of `up` is never waited for, stays a zombie, and
  `same_process` takes it for alive: "murió al arrancar" cannot be said of it, and `up` polls on
  to its time-out. That branch is reachable only when the command inherits an ignored SIGCHLD,
  which is why `service_race` has such a command (`Reaping`).

Executions and evidence:

* a time-out of a native or `unshare` load kills the direct child only: its descendants live on
  and hold the pipes, so that the command goes on waiting, although `docs/POLICY_REFERENCE.md:82`
  counts the time-out among what the supervisor applies to every load that ends and
  `docs/EVIDENCE_FORMAT.md:75` calls the verdict "la cortó por tiempo". `RunsEnd` and
  `NothingOutlivesTheRun` are stated where the load ends as a whole (bubblewrap; Wasmtime too for
  the first);
* a command killed between the spawn and bubblewrap's `prctl` leaves the load running (ghost
  `exposed`);
* an error of spawn or wait leaves no report at all;
* the workload is hashed before the run, and its directory can still change until the sandbox has
  started (`main.rs`);
* two first runs race on the key and one signs with a key that is in no file, and any error in
  reading the key file (`signing.rs:44`) has a new key written over it, after which the reports
  signed before carry a key nobody has (ghost `astray`); a key file torn by a death leaves every
  later report unsigned;
* a gap with nothing missing: two executions that end together link to the same report; one that
  dies between report and `.chain`, a `.chain` that cannot be read (`evidence.rs:310`) or written
  (`:314`), errors that are dropped and leave the execution successful, and a fallback report of
  the panel break the chain, although `evidence.rs:303-307` presents a gap as what a removal
  leaves. `VerifyIsRight` excepts the report this happened to and the one after it (ghost
  `disturbed`);
* the newest report can disappear unnoticed: nothing comes after it that could point at it;
* a drain that meets a read error (`process.rs:105`) ends as at the end of the output, and the
  report does not say so (ghost `cut`);
* connections beyond the limit, and those in the backlog at the end, leave no record, while the
  header of `egress.rs` says every attempt does; `LogIsComplete` and `ReportTellsWhatHappened` are
  about accepted ones;
* `finish` waits for destinations that stay open; only the fairness above excludes it.

Control panel:

* a job whose first save fails stays listed as queued and never runs (`rejected`); later saves
  that fail are unhandled rejections;
* a cancel and the end of the run can write the job's file at the same time and damage it;
* children survive the death of the panel: after the restart their jobs are failed and their
  sandboxes still run.

Market cases:

* tokenization: `issue` never looks at `restricted_to_qualified`, and `reconcile_with_legal` only
  at owners the digital record knows;
* clearing balances participants over all instruments, not each instrument;
* wind-down: a pro-rata distribution loses the rest of the division, and `complete` is true of a
  plan without steps;
* corporate actions: the tolerance of `total_value_changed` is smaller than the rounding of a split;
* `cases/reporting.rs:49`: the digest covers identifier, version and sections. Other alterations of
  an issued version, of its operations for one (`AlterOperations`), leave no trace, although lines
  6-8, 36-37 and 114-116 say that any does. `SectionAlterationsShow`, a part of `VerdictsAreRight`,
  is what holds;
* reporting: a `correction_of` that inserts a section which is there already would unbalance the
  total;
* custody: `client_value` drops a position whose value overflows, and a pending movement cannot be
  removed;
* routing splits an order larger than all venues together and neither the slices nor the
  explanation name the part that is left;
* `margin.rs:8` says a fallen price brings more margin calls; `run_day` gives fewer.

## 7. Not modelled, and why

The content of reports, signatures and hashes (one number each: a collision or a forged signature
is not represented). The text of bubblewrap arguments, BPF programs and cgroup values: an argument
is there or not. Reading commands (`list`, `logs`, `call`). A record file truncated by a death
during its write: its effect, a sandbox without record, is reached by a death before the write.
Likewise a report or a `.chain` of which a part was written: a report is there or not, `.chain` old,
new or empty. Panics of `thread::spawn` when the host has no thread to give: the one in
`forward.rs:110` would skip the decrement of line 91 and keep a connection's place for ever; the
one in the proxy's loop (`egress.rs:192`) would end the accepting thread. The unchecked `+=` of
`is_balanced` (`ledger.rs:192`): the model adds exactly.
Backpressure: a write to a destination returns or fails, it does not block for ever. The
collection of artifacts. Market cases that keep nothing between calls (margin, surveillance,
intermediation, resilience, market data, credit): a verdict of one call, which their unit tests
reach; credit's scaled integers exceed TLC's 32 bits. Measurements, catalogue, HTTP routing, the
browser page and the site keep no state between calls.

## 8. Running

    tlc -workers 2 -config MCEgress.cfg MCEgress
    tlapm EgressProofs.tla

The module of each configuration is in `PROJECT.json` under `runs`; `markets`, `supervisor`
and `service_race` are the slowest, at two to three minutes. Under `mutants` each property has a plausible mistake in
a mapped definition (the operators marked "Mutant" in the modules) that makes TLC refute it. The
proofs take from a few seconds to three minutes a module, `MarketProofs` about a quarter of an hour.
