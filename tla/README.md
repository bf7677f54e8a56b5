# Verification of security-central

Security Central runs *audits* (lists of SQL queries with an expected value each) and *policies*
(lists of audits) against a Postgres inventory. Operators start a run over HTTP, a worker process
executes it asynchronously, and they poll for the outcome; a scheduler starts runs by itself.
This directory holds TLA+ models of that machinery, the TLC configurations that check them on small
instances, and theorems about them that TLAPS proves for every instance. Paths below are relative to
the repository.

## 1. The system

| Component | State | Operations | Modelled by |
|---|---|---|---|
| Audit runs, API side: `RunAudit` (`internal/service/service.go:115`), `worker.Client`, table `audit_runs` | the request's position, its context, the row | read the audit, insert a `running` row, gRPC dispatch with a 5 s timeout, record a failed dispatch | `AuditRun` |
| Audit runs, worker side: `worker.Server`, `ExecuteAuditRun` (`service.go:146`), table `issues` | a detached goroutine per accepted call, its 2 min context | refuse or accept, load, run queries in order, insert an issue per deviation, write the outcome | `AuditRun` |
| Policy runs: `RunPolicy`, `GetPolicyRunStatus` (`service.go:237`, `285`) | the loop, the row of `policy_runs`, one snapshot per poll | start one child per audit, insert the row that lists them, settle the status while answering a poll | `PolicyRun` over `RunRecord` |
| Scheduler: `CreateSchedule`, `StartScheduler`, `processPendingSchedules` (`service.go:365`–`413`) | table `schedules`, per replica a ticker and a list of due rows | create, tick, read due rows, start target, write `next_run_at` | `Scheduler` |
| Issue listing: `ListIssues` (`service.go:195`, `repository.go:147`), `decodeListIssuesRequest` | none of its own | pages by offset, newest first | `IssuePaging` |
| Startup: both `main`s, `Schema.Create`, `EnsureDefaultUsers` (`service.go:416`) | the tables' existence, table `users`, each process's position | migrate, then check and insert each default user, then listen | `Startup` |
| Login and authorization: `Login`, `authAndRBACMiddleware` | none on the server: a signed claim the client holds | read a row and sign; test the claim and the method | `Api` |
| HTTP and endpoint layers (`internal/transport`, `internal/endpoint`) | none | decode, call one service method, encode | `Api`, `IssuePaging` |
| Creation and reading of audits and policies | tables `audits`, `policies` | validate, check a policy's audits, one insert each, never updated | `Api`; a query rule's validation in `Evaluation` |
| Validation and comparison: `CreateAudit` (`service.go:87`), `validateSQLQuery`, `validateExpectedType`, `valuesEqualByType`, `RunScalarQuery` | a rule on its way to an outcome | pure functions, and the validators of two tables | `Evaluation` |
| Repository: `EntRepository` (`internal/repository/repository.go`) | the seven tables | one create, update or query per method, whose node becomes a record of `internal/model` | `Repository` over `Entities`; promises in `Store` |
| Builders and mutations of `ent/`, as generated for seven entities | a mutation: what was set, added and cleared, and the old values; a flag for done | set, add, append, clear, reset, ask for an old value, save, delete, query | `EntBuilder` over `Ent` and `Entities`, in part; the check of a create builder in `Schema` |
| `vminventory` in `ent/`, `proto/`, `internal/db` | none of their own | — | not modelled: no code calls it, or generated marshalling, or pure I/O |

**Interactions.** The API and the worker share no memory: they meet in Postgres and in one gRPC
message, `ExecuteAudit(audit_id, run_id)`, whose ids are `int32` while the service's are `int`. The worker
answers before the work starts. No call runs in a transaction that spans two statements, and
`UpdateAuditRunResult` (`repository.go:93`) replaces the row's outcome without looking at it.
`k8s/api.yaml` runs two API replicas, each with its own scheduler; `k8s/worker.yaml` one worker.

**What is hard here.** Two processes write the outcome of the same run. A timeout of the dispatch says
nothing about the worker. The error of an operation is recorded under the context whose death caused it.
Jobs live in memory only. A policy's status is settled by whoever happens to poll, on reads taken two calls
apart. Two schedulers read the same rows. `PROJECT.json` lists these hazards with the lines at which they bite.

**What makes each part correct.**
- Audit runs: verdict and issues agree; one issue per deviating query; the columns of a row tell one story
  whoever wrote last; what the caller was answered stays true; a terminal status is final (when nothing is
  lost) and is reached (when the system is healthy).
- Policy runs: no verdict while a child runs; the verdict is the aggregate of the children; every audit has
  its child (if the inserts succeed), and the list leaves out no child that anyone works on; polling settles the run.
- Scheduler: starts are an interval apart; nothing due is forgotten.
- Issue listing: whoever reads to the end has seen what there was when it began.
- Startup: processes that migrate at once all end up serving; a replica that serves has seen to every user, and no user has two rows.
- HTTP interface: a default user can log in and its token works at every replica; only an admin writes; what is answered 200 is a row,
  what is answered 400 deserved it; a policy lists audits that exist.
- Builders: what is saved is what was asked last, whatever was asked before; the node that is returned is the row; old values belong together.
- Repository: each method does to the tables what its name says, or nothing; a run is found under its own audit only; a second result leaves what it does not give.
- Comparison: printing and parsing lose nothing; a rule that is accepted yields issues that can be stored.

## 2. Modules

`RunRecord` — the abstract specification: what a reader of `audit_runs` may rely on. Its state is, per run,
the `status`, the queries with an issue (`evidence`) and the parties (`dispatcher`, `executor`) that may still
write (`owed`). Each party writes at most once; the executor's word agrees with its evidence.

`AuditRun` — the detailed specification. One action per database call and per message, so that everything
that can happen between two lines of the code can happen between two actions:

| Code | Actions | State |
|---|---|---|
| `RunAudit` | `GetAudit`, `CreateAuditRun`, `Dispatch`, `RpcAnswer`, `RpcFailure`, `RecordDispatchError` | `pc`, `audit`, `run` |
| the request's context | `Cancel` | `cancelled` |
| gRPC | `ExecuteAudit` (the server's handler), `LoseCall` | `call` |
| `ExecuteAuditRun` | `Load`, `RunScalarQuery`, `CreateIssue`, `RecordQueryError`, `Finish` | `job`, `jobAudit`, `jobRun`, `pos`, `deviated` |
| the goroutine's context | `Deadline` | `expired` |
| processes | `ApiCrash`, `WorkerCrash` | all of it |
| Postgres | the writes of the actions above, through `WriteResults` | `runs`, `issues` |

A database write is done, refused, or done although its caller sees an error (`"unacked"`); a read is done or
refused; both are refused under a dead context. A job is identified with the request that caused it, for a
call is delivered at most once (`worker.Client` does not retry). A query ends in one of four ways (`Outcomes`):
its value matches, differs, differs and prints as the empty string, or it fails. The third is a class of its own
because `actual_value` is `NotEmpty` in `ent/schema/issue.go:23`: ent refuses the insert. Restarted processes
have no memory, so a restart is no action: the next request finds a process that runs. The branch of `RunAudit`
for a missing executor is left out, since neither `main` reaches it. What happens in the instants of a call
that changes nothing (decoding, logging, formatting) is left out.

`PolicyRun` — one policy run: `RunPolicy`'s loop, `CreatePolicyRun`, and pollers. The children are `RunRecord`'s:
inserting a child is its `Create`, a recorded dispatch error its `Blame`, an execution `AddEvidence` and
`Report`. That `AuditRun` implements `RunRecord` (checked and proved) is what makes this composition legitimate.
The `RunPolicy` handler's own loop has the same steps as `RunAudit` but drops more errors. It refers
to the same children's statuses as the pollers read; reads of several rows
(`GetAuditRunsByIDs`) are one statement and so one action.

`Scheduler` — the table, the replicas' loops and the clock. Time is relative (`wait`: what is left to `next_run_at`;
`since`: what has passed since the last start), which keeps the state space finite without bounding the length of a
behaviour, so that liveness can be checked. `CreateSchedule` takes any
interval, a default replaces what is not positive, and `Ahead` is what `time.Duration(interval) * time.Second` makes of it in a `Duration` of bounded
width: an interval of more than 292 years wraps and may lie in the past. A started target takes any time at all. `since`, `noted` and `failures` are
history: they constrain nothing but the number of failures.

`IssuePaging` — one action inserts an issue, the other answers a request for a page: the decoder fills in what is absent,
the service corrects page and size (`service.go:195`), `Offset` and `Limit` cut the page (`repository.go:147`) — in integers of bounded width, since
nothing bounds the page asked for: where `(page-1)*pageSize` wraps, the offset is negative and Postgres refuses it, or it is positive and small and
another page is shown. Issues are named by `created_at`, which the worker
takes before the insert, so a row may appear anywhere in the list. A reader is a client of the API: it begins at any page and goes on until one is
empty or refused. `begun`, `seen` and `shown` are what it remembers. Left out: two issues with the same `created_at` (their order is whatever Postgres
returns).

`Evaluation` — the life of one query rule: `CreateAudit` accepts it or not, `RunScalarQuery` reads any column and
prints it, `Compare` decides between `match`, `deviate` and `blank` (an issue ent refuses). Its outcomes are the `Outcomes` of `AuditRun`.
What ent asks of an issue is in `Schema`. A text is a body with or without blanks around it. What `strconv` reads in a body and what `fmt.Sprint` makes of a
driver's value are relations over samples chosen where the two meet badly: leading zeros, exponents from a million on, integers that a `float64`
cannot tell apart, `numeric` columns (which lib/pq hands over as `[]byte`, printed in brackets), NULL.

`Schema` — what a create builder of ent asks of a row before it sends the insert: the required fields, those that have defaults, the texts that must not be
empty, for each of the seven entities in use, and the rows the repository builds. `Startup`, `Api`, `Evaluation` and `Repository` store rows through it.

`Ent`, `Entities` — the code that ent generates is the same program seven times over, with different fields. `Ent` is that program: what a setter, a clear or a
reset does to a mutation, the defaults and checks of a save, the row that an insert or update makes, the node that a row becomes. `Entities` is what differs, one
record per entity, in one definition per generated piece: the struct of the mutation (`XFields`), what its methods can do to each field (`XMethods`), the setters of its
builders (`XSetters`, `XUpdater`), the defaults, the columns that are inserted (`XSpec`), the assignments and checks of an update (`XUpdate`), the pointers of the node, the
columns of a query, and the table of the migration. A column that one piece forgets, or takes for another's kind, parts the row from what was asked or told. `sqlgraph` and Postgres
are not in the repository, and are modelled from how the generated code uses them: `Fits` (NOT NULL, foreign keys, UNIQUE), `Unreferenced` (a referenced row is not deleted),
`AssignsOnce` (an UPDATE that assigns a column twice is refused, as after `ClearX` and then `SetX`), `Stored` (a time stamp loses Go's nanoseconds: one of two ticks).

`EntBuilder` — one builder at work on one entity. `Set`, `SetNillable`, `Add`, `Append2`, `Clear`, `ClearToOne` are the builder's methods, `Reset`, `ResetToOne` and `Old` those of the
mutation behind it, `Where` the condition of an update or delete; `Create`, `Update` and `Delete` are `Save` and `Exec`. A refused save leaves the builder as it is, defaults
included, and it may be saved again. `Interfere` is another process that updates row 1 meanwhile with a builder of its own: it sets any columns to any values and the update defaults
with them, so that `updated_at` moves with every update, and nothing limits how often (TLC's bound is `MaxWrites`). `asked`, `told` and `past` are history: what the calls amount to, the old values that
were told, and what row 1 was before the save.

`Repository` — `EntRepository`, one action per method, over the tables `db`: `Save`, `UpdateOneID`, `Only` and `All` are the ends of the builder chains. A statement fails, or is done and its
answer lost, or is done and answered; `call` is the last method with its arguments and answer. The handlers of the other modules interleave such calls;
here the calls come one after the other, since each of them is a single statement.

`Store` — the abstract specification of the repository: tables of records of `internal/model`, no builder, no column, no NULL, and per method what its answer promises. `Repository`
implements it (`ImplementsStore`), by reading each row as the repository would.

`Startup` — API replicas and workers from their start to `serving`: `Start`, `InspectTables` and `CreateTables` are `Schema.Create` (which asks what exists, and then creates
in one transaction what does not), `GetUserByUsername` and `CreateUser` are `EnsureDefaultUsers`; `Crash`, after which the process begins again. Any error of the question
counts as absence and any error of the insert is dropped, as in the code; `username` is unique. A process that collides with another in the migration exits.
`refused` is history: it excuses a user whose insert Postgres failed. The stage `serving` is a `main` that listens.

`Api` — extends `Startup` with a client of the HTTP interface, which has one request under way:

| Code | Actions |
|---|---|
| a client, the Service's load balancing | `Send`, `Expire` (of the client's token) |
| `authAndRBACMiddleware`, the decoders, `encodeError` | `Admit` |
| `LoginEndpoint`, `Login` | `Login` |
| `CreateAudit`, `CreatePolicy`, `CreateSchedule` of service and repository | `CreateAudit`, `CheckPolicyAudit` (the read of one listed audit) and `CreatePolicy`, `CreateSchedule` |
| `GetAudit`, `GetPolicy` | `Get` |
| a replica's end, which takes its requests with it | `Process`, around `Startup`'s steps |

Each call of the database is one step; between two of them a handler looks at nothing but its own variables. The ids of audits are 1 .. `audits`, since
no row is ever deleted. The routes that run audits and policies are `AuditRun` and `PolicyRun`, and that of issues is `IssuePaging`; `GetIssue` and
`GetRunStatus` differ from `GetAudit` in the table they read and are not repeated. An insert whose answer is lost (`"unacked"`) also stands for a process
that dies right after the commit.

`AuditRunProofs`, `PolicyRunProofs`, `SchedulerProofs`, `IssuePagingProofs`, `ApiProofs` (of `Startup` and `Api`), `EvaluationProofs`, `EntBuilderProofs`, `RepositoryProofs` — the theorems. `MCAuditRun`, `MCPolicyRun`, `MCScheduler`,
`MCIssuePaging`, `MCApi` — values of constants for TLC. `MCData` puts `Evaluation`, `EntBuilder` and `Repository` side by side: `part` says which of
them a behaviour is of, and the others rest.

Definitions that begin with "Mutant of" in their comment are deliberate mistakes in a definition of the model (a forgotten
column, an ignored error, an off-by-one). Nothing uses them; put in place of the definition they vary they make the property they
are paired with in `PROJECT.json` fail, which shows that the property can.

## 3. Runs

| Run | Instance | Question and answer |
|---|---|---|
| `run_safety` | 2 requests, audits of 2 and 1 queries, run ids 1, 2, 5; faults rpc, db, workerCrash | Do verdict, issues, row and answer agree, and do handlers and jobs implement `RunRecord`? Yes. |
| `run_final` | 2 requests, one audit; faults db, cancel, deadline, apiCrash | Is a terminal status final if no message and no worker is lost? Yes. |
| `run_settles` | 2 requests, an audit id that does not exist, ids beyond int32; fault rpc; fairness | Does every run end and every request get its answer when messages are lost at will? Yes. |
| `run_late_reply` | 1 request; fault rpc | Is a terminal status final when an answer is late? No (finding). |
| `run_blank_value` | 1 request, no fault, a blank value; fairness | Does every run end? No (finding). |
| `policy_safety` | 3 audits, 2 pollers; faults job, db, cancel, crash | Is a settled policy run the aggregate of its children, for the row and for whoever was told, and does it list whatever anyone works on? Yes. |
| `policy_settles` | 3 audits, 2 pollers; faults rpc, job, crash; fairness | Is nothing settled early, is every child listed, does polling settle? Yes. |
| `schedule_alone` | 1 replica, 2 schedules, intervals asked for −1 (default 3), 1 and 4 (which overflows a `Duration` of 16 values), 2 failures; fairness | Are starts an interval apart, and do they never cease? Yes. |
| `schedule_replicas` | 2 replicas, no failures | Are starts an interval apart? No (finding). |
| `paging` | up to 6 issues, 1 reader, first pages absent, −1, 1, 2, 23 and sizes absent, −1, 1, 2, 9 with default 2 and maximum 3, an `int` of 64 values | Does a reader of all pages miss an issue, and what is it shown twice? It misses none; an insertion repeats a row at most once. |
| `data`, part `evaluation` | 17 texts with and without blanks, 5 forms of statement, 5 types, 12 printed values | Does a comparison say what the values say, and can a deviation be stored? Yes for columns of the type's own kind; yes but for the empty text. |
| `data`, part `builder` | 7 entities, 6 kinds of builder, up to 2 calls with 1 or 2 values per kind of column, saves at any time, 2 rows and one that is missing | Is what is saved what was asked last, or nothing; is the returned node the row? Yes. |
| `data`, part `rivals` | 7 entities, builders that update row 1: up to 2 questions for old values and setters, saves at any time, 2 updates by other processes | Are old values told at different times of one version of the row, from before the save? Yes. |
| `data`, part `repository` | 5 sets of tables that are used together, with up to 2 rows each; names empty or not, clock from 2 to 3 | Are the tables sound, and does each method do what `Store` promises? Yes. |
| `api` | 2 API replicas, 1 worker, 1 database fault or crash; up to 2 audits, 1 policy, 1 schedule; fairness of the processes | Starting at once on an empty database and serving a client that sends everything the routes take: do tables, users, tokens, rows and answers agree, and do all processes end up serving? Yes. |

**Bounds, and why they suffice.**
- *Two requests* are what it takes for two writers of different rows to be confused, and for two runs of one audit; a
  third adds no kind of interaction because requests share only the ids they draw. Symmetry between requests is sound:
  `Init` lets each of them name any audit.
- *Two queries* give a deviation before and after a match, an error after an issue, and a second issue after the first.
- *Ids*: the model's `int32` is modulo 8, so that id 5 reads −3 and is refused while 1 and 2 are not; there are as many ids as
  requests, and one more in `run_safety`.
- *Three audits* give a policy a first, a middle and a last child, and a majority that is not a unanimity.
- *Two pollers* are needed for one to overwrite with a stale view what another one decided.
- `Scheduler`: a period of two units, intervals of one and three; `MaxFailures` bounds database errors and crashes together,
  two of them let an error follow a crash. `Longest` is where `since` stops counting.
- `IssuePaging`: six issues are two pages of the largest size, or six of the smallest; the sizes asked for lie below, in and above what is allowed.
  One reader is enough, for readers change nothing.
  The pages asked for are before the first, the first, the second, and one whose offset overflows an `int` of 64 values with the larger sizes and not with the smallest.
- `Api`: two replicas and a worker race for the tables and two replicas for the users; with one failure every call in turn is the one that fails, whatever
  came before. Two audits make lists of an existing and a missing audit, and of twice the same; one policy and one schedule, since nothing reads two of them together.
- `EntBuilder`: two calls are what it takes for one to undo or contradict another, and a refused save in between makes them three steps of one mutation; the two
  rows are one with every column and one with the required columns only, and every reference leads to row 1, so that row 2 may be deleted and row 1 may not. A third call (`MaxCalls = 3`, without updates by other processes)
  shows nothing new. In part `rivals` other processes update the row
  twice (`MaxWrites`), each time a column and the update defaults (`MaxColumns = 1`): two columns that are read before and after fit no version of the row, because `updated_at` changes with every update, or,
  in tables without it, because the two updates set different columns. In each of the seven tables a mutation that read the row at every question would be found out before any save.
- `Repository`: no method touches more than one table and what that refers to; two rows make a query that finds the wrong one, or two, and one of them may be written last. Time 2 is stored as it is and
  3 is rounded.
- Deadlock is not checked for `AuditRun`, `PolicyRun`, `IssuePaging`, `Api` and `MCData` (`CHECK_DEADLOCK FALSE`): their requests, issues, rules, calls and
  rows are finitely many and end, and nobody has to send a request. `Scheduler` never stops, and there it is checked.

**Fairness, and why the code justifies it.** A handler or goroutine that can take its next step does: Go schedules it, and
every call it waits for returns (database calls do, or fail; `worker.Client` gives up after 5 s, `client.go:25`). gRPC delivers a call
that is not lost. No fault is forced, and no fault is excluded by fairness: where a liveness property needs a fault
away, the run's `Faults` says so. `policy_settles` assumes that somebody polls again and again, as the `README` of the
repository tells callers to; without a poll nothing settles a policy run. In `Scheduler` time passes and Kubernetes
restarts what died; in `Startup` a `main` goes on, and one that exited or died is started again. The client of `Api` need not send anything, and no handler is
assumed to end: `Api` states no liveness of requests.

## 4. Findings

- **A terminal status is not final** (`run_late_reply`). When the worker's answer is late or lost `RunAudit` writes `error`
  although the job may be running; the job then replaces it by a verdict, or the other way round. A policy run
  that was settled in between keeps the wrong aggregate.
- **A run may stay `running` for ever** (`run_blank_value`). A query whose value prints as the empty string: the issue
  is refused and `ExecuteAuditRun` returns at `service.go:172` without an update.
- **Two replicas start a due target twice** (`schedule_replicas`): nothing marks a row as taken.

The models show more of the first two kinds and of policy runs, which no run repeats; each is seen by adding a fault to a run:

- `"deadline"` in `run_settles`: the job's two minutes expire, and the update at `service.go:161` is issued under the expired context.
- `"cancel"` in `run_settles`: the same mistake at `service.go:133`, under the request's context.
- `"workerCrash"` in `run_settles`: a worker that dies loses its jobs; nothing takes them up again.
- `"rpc"` in `policy_safety`: a policy run settled before a late answer keeps the wrong aggregate (`VerdictIsAggregate`).
- `"db"` in `policy_settles`: `RunPolicy` goes on after a failed insert of a child and answers `accepted` (`OneChildPerAudit`), although
  the repository's `README.md:192` promises one child per audit; with no child left the policy run stays `running` (`PolicySettles`). What the
  row may not leave out, under any fault, is a child that anyone works on (`ChildrenAreListed`, run `policy_safety`).

What the models show of smaller matters, which no document contradicts:

- An `interval_seconds` beyond 292 years wraps: the target is started at every tick (`schedule_alone`; `StartsAreSpaced` is stated for intervals that fit).
- A page whose offset overflows is answered 400, or shows an earlier page (`paging`).
- A schedule's target need not exist (`CreateSchedule` of `Api`); a failed login is answered with status 200 and an error in the body.
- An insert whose answer is lost is answered 400 though the row exists; a client that tries again has two (`CreationsAreAnswered` admits just that).

## 5. Proofs

All theorems hold for every value of the constants (requests, audits, queries, ids, processes, rows, texts, times, calls, sets of faults), from the assumptions
named in the modules: ids are positive and stay below the wire's modulus (`IdsAssumption`; a table of less than 2^32
rows — the *sign* is not assumed away), an audit has a query at least (`QueriesAssumption`, enforced by `CreateAudit`), an int holds
two pages of the largest size (`IntsAssumption`); the texts include the empty one (`TextsAssumption`); times and numbers of calls are natural numbers
(`BuilderAssumption`, `RepositoryAssumption`), and a scope is a set of the migration's tables.

**`AuditRunProofs`.** `TypeCorrect`, `VerdictIsRight`, `IssuesAreExact`, `RowsAreCoherent` and `AnswersStayTrue` follow from one
inductive invariant, `IInv`. None of them is inductive alone: that a verdict matches the issues depends on what the job has
recorded so far, which depends on which run it works on, which depends on what was in the message. The conjuncts say so in turn:

1. `Distinct`: no two requests own the same row.
2. `Owned`: an owned row exists, and its audit does.
3. `Phases`: how far request, call and job can be apart; the job's decoded ids are the request's (here the
   int32 conversion matters: a positive decoded id is the id that was sent, lemma `Int32OfSmall`).
4. `Recorded`: the issues are exactly those of the deviations so far.
5. `Written`: who has not written yet has left no trace in the row.
6. `RowInv`: what a row says on its own.

There is a lemma per group of actions, and in it a step per conjunct the action can disturb. `OutcomeIsFinal` proves
the action property `TerminalIsFinal` under `Lossless` (no fault `rpc`, no `workerCrash`), with a second invariant on top:
if the dispatcher may still write an error, there is no job and there will be none (`OneWriter`).

**The refinement of `RunRecord`** (in `AuditRunProofs`). `Refinement`: `Spec => ImplementsRecord`. A step that writes neither row nor issue at most takes parties
out of `owed` (`QuietStep`); the five that write are, each, the one action of `RunRecord` they stand for; `IInv` supplies the
guards (the row a handler creates is absent, the executor's word agrees with the issues).

**`SchedulerProofs`.** With one replica, `StartsKeepDistance`: for every number of schedules, intervals and failures,
two starts are an interval apart unless the row could not be written in between. The invariant is that the time since the last
start and the time left to the next add up to the interval at least (`Distance`), and that a row waiting in a round is still due (`Round`),
which is what a second replica breaks.

**`PolicyRunProofs`.** `TypeCorrect` and `NothingTooEarly` from `IInv`: `Loop` (which children exist, position by position, while `RunPolicy` is at work), `RowListed`
(the row lists what the loop collected) and `Polls` — what a poller holds is a snapshot whose terminal statuses are final (`Settled`), so that a decision taken on a stale
view is still right. `VerdictIsRight` adds `OneWriter` and `Agreed` under `Punctual` (no lost dispatch; otherwise a child's status may be overwritten after it was read), `OneChildEach`
adds `Counted` under `EveryInsertHeard` (no failing database). `NothingUnlisted` needs no such condition: a child that is not in
the list is one whose insert `RunPolicy` took for failed, and was never dispatched (`Listed`). The children are `RunRecord`'s, so the theorems hold for anything that implements it.

**`ApiProofs`, the start.** `OneRowPerUser` and `ServersAreSeeded`: for every number of processes and every fault, no user has two rows and a
replica that serves has seen to every user. The invariant (`Progress`) says that a process past the migration finds the tables and that a replica has seen to every user before its place in
`Seeds`; it survives the other replicas because a user that has been seen to remains so: rows are never removed.

**`ApiProofs`, the interface.** `ApiTypeCorrect`, `PoliciesStayWhole`, `TokensStayGood`, `WritersAreAdmins`, `UsersCanLogIn`, `RowsAreAnswered` and `RefusalsAreRight`: the properties of run `api` for every
number of replicas, failures and rows. `ApiInv` is `Startup`'s invariant, the types, and `Underway`: the request that was admitted was sent with a token that has
only grown older since, and the audits of a policy found so far still exist. That `Passes` holds of whatever the service lets through is a lemma about each entity of `Schema`.

**`IssuePagingProofs`.** `NothingIsMissed`, `RepeatsAreExplained` and `PagingTypeCorrect`, for every list, page size, number of readers and width of an int that holds two
pages. The invariant speaks of ranks, how many rows come before one: what a reader is due and has not seen has a rank from its next offset on (`Ahead`), since insertions only raise ranks; the rows it has
seen that lie beyond that offset, with those shown twice already, are no more than the insertions (`Repeats`), since one insertion moves at most one row across an offset; and the last page was not empty and
offsets grow from page to page (`Asked`), so that the pages end before the issues do and, for a reader that begins within an int, no offset wraps (`NoWrap`). An empty page
is the end because there is a row at every rank below the last (`RankTaken`).

**`EvaluationProofs`.** `EvaluationTypes`, `NativeColumnsAreCompared` and `DeviationsBecomeIssues`, for every set of texts and statements. The invariant follows the rule: what runs is valid,
what is compared is the printed column, and the last phase is what `Compare` found (`Followed`). The lemmas are about the printed forms: each value has one, and what is printed of a column of the type's own
kind is a form that `strconv` reads back as that value, of no other.

**`EntBuilderProofs`.** Four theorems, for every entity, value and number of calls. What the proofs know of an entity is `WellFormed`: nothing is set, defaulted or cleared that the update does not write, no default
is for a column that can be cleared or added to, a column of an edge must not be NULL and is no time. That each of the seven entities is well formed is a lemma (`EntitiesFit`), and the only place where the data of
`Entities` is looked at.
- `OldValuesBelongTogether`: the old values a mutation tells are all of one version of its row, from before the save, however many updates of other processes come between two
questions, and whatever they set. A mutation loads its row at the first question and keeps it (`Told`); what it loads is the row of that moment, which counts as past because
nobody saved in between (`Current`), and once a save succeeded nothing is loaded any more (`Ended`) — without that the row would be the one the mutation itself has written.
- `BuilderTypes`, `NodesTellRows` and `LastWordIsKept` from `BuilderInv`. For the last word, the mutation must hold, column by column, what was asked last (`Holds`): a set beats an earlier sum, a sum after a clear leaves both (Postgres refuses that UPDATE, `AssignsOnce`), a reset
leaves nothing — and nothing that was not asked (`Unasked`). A refused save fills the defaults into the mutation, which is why `Holds` allows a default where nothing was asked.

**`RepositoryProofs`.** `RowsAreSound`: whatever statements fail or go unacknowledged, every row is one that its table and its entity's check let through, references lead to rows, and no two users have one
name. The invariant (`RepInv`) adds that ids are given in order, that columns that must not be NULL are there and that times are times; without the first an insert could overwrite a row, without the second a
foreign key would say nothing. A method is proved by what it gives `Save` or `UpdateOneID`, of which `SaveKeeps` and `UpdateKeeps` are proved once.


`ImplementsTheStore`: `Repository` implements `Store`, under the mapping `Records` of the rows of a table to records of `internal/model`. The proof has one lemma per method (`CreateAuditStores`, ...)
and four ways to get there. An *insert* is answered with a node built from the fields that were given, while the table holds a row with stamps as Postgres keeps them: `Made` says how the two differ (the fields that were given are in
both, and stamps are near each other, `StoredNear`), `Grown` that one record more is there, under an id that was free; what `Store` asks besides (a name that is not empty or not taken, an audit that is there) comes
from the check and the constraints (`Admitted`). An *update* changes the columns that are given or have an update default and leaves the rest (`Remade`), so one record turns into another (`Turned`); that a result without
a value keeps the value that was there is `ResultMade`. A *query* answers with records as they are now (`Found`, `Answers`): that `Where` finds just what is asked needs columns that are never NULL, so the invariant is
used here as well (`ColumnIsRead`, `HavingIs`). A *page* of `ListIssues` is a slice of all issues in an order in which the latest come first (`PageIs`); that nothing later is missing before it is a counting
argument: the order enumerates every issue once, so whatever is later than the k-th is among the k - 1 before it (`LaterComeBefore`). `Tick` and what changes nothing are stutters.

**Only model-checked.** Liveness (`RunSettles`, `RequestIsAnswered`, `PolicySettles`, `ScheduleRecurs`, `EveryoneServes`): fairness and ENABLED are beyond the
prover used here. Every other property of a run that passes is a theorem.

## 6. Not modelled, and the plan

In the order in which it is to be done:

1. `RunRecord` by itself: that a reader who waits for all that is `owed` sees the last status; then `PolicyRun` under lost dispatches.
2. A composition of `Scheduler` with `PolicyRun`, whose started target takes part in the next round's time, if it turns out to ask a question the parts do not.

Left out for good:

- Of ent: the edges from an audit or a run to many rows, bulk creation, upserts, group-by, selections, eager loading, `Clone`, hooks, interceptors and transactions, none of which the program uses; the access to
  fields by name (`SetField`, `OldField`, ...), which repeats the typed methods; `Where` on a builder of one row; a sum or an append after a set of the same field, where what happens depends on the library
  alone; ids that failed inserts use up. `vminventory`, which only SQL of audits reads.
- The marshalling of protoc; process wiring; contents of SQL; the encodings of passwords and tokens; more than 2^32 runs (an assumption).
