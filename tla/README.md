# Amplify in TLA+

Amplify runs a configured graph of steps for every content identifier (CID) it
is given. A request is a CID; for each request the server builds a graph of
nodes in its persistence, executes the root nodes from a queue, and every node
that ends triggers those of its children whose parents have all ended. The work
of a node is a container job that goes through a second queue to Bacalhau.

These modules model that program as it is in `src/`: who calls whom, which
persistence calls and channel operations there are, in which order, and which
of them may fail. TLC checks the modules on small instances; TLAPS proves every
safety property that the passing runs check for every value of the constants.
`PROJECT.json` gives, for each definition, the lines of code it stands for.

Contents: 1 the system, 2 modules and code, 3 runs, 4 fairness and deadlock,
5 proofs, 6 where code and documentation disagree, 7 not modelled, 8 plan.

## 1. The system

### Components, their state and their operations

| Component | Code | State | Operations |
|---|---|---|---|
| node executor | `pkg/dag/node.go` | rows of each node: status (queued, started, finished), inputs, outputs, results; edges | `Execute`, which calls `updateNodeStartTime`, the node's work, `updateNodeEndTime`, and spawns children |
| graph reports | `pkg/dag/dag.go`, `pkg/dag/util.go`, parts of `pkg/api/api.go` | none: they read the rows | `AllNodesFinished`, `GetDagStartTime`, `GetEndTimeIfDagComplete`, share of finished nodes, `GetLeafOutputs` |
| work queue | `pkg/queue/inMemQueue.go` | a buffered channel, a context, a wait group, the worker goroutines | `Enqueue`, `IsFull`, `Start`, `Stop` |
| item repository | `pkg/item/queue_repository.go`, `item_store.go` | queue items; two work queues, for users and for the trigger | `Create`, and the closures it enqueues; `List`, `Get`, `Count` |
| task factory | `pkg/task/factory.go` | the configuration; the node queue | `CreateTask` builds a graph; `buildJob` gives a node its work, which waits for a job on the node queue |
| serve command | `cmd/serve.go`, `cmd/root.go` | goroutines, the command's context | set-up, ctrl+c, HTTP shutdown, deferred stops of three queues |
| trigger | `pkg/triggers/triggers.go` | a period, an unbuffered channel of CIDs | `Start`: search, send |
| run command | `cmd/run/run.go` | verdict of its poll | executes the roots in turn, polls, prints |
| in-memory persistence | `pkg/db/in_mem.go` | maps and slices under one mutex, but for one slice without | the queries of the generated interface |
| Postgres persistence | `pkg/db/postgres.go`, `query.sql.go` | tables | the same, with orders and pages |
| HTTP API | `pkg/api/` | none | handlers: put and get an item, pages of items, graph, analytics |
| analytics | `pkg/analytics/` | metadata of results | parse and store the lines of a result, top queries |
| Bacalhau executor | `pkg/executor/` | none | render a job, submit it, poll it until its timeout |
| configuration, helpers, UI, job containers | `pkg/config`, `pkg/cli`, `pkg/util`, `ui`, `containers` | files | read flags, YAML and environment; serve assets |

### How they interact

```
 HTTP handler (priority) ──┐                     ┌── workflow queue, 2 of them ──> worker: closure
 trigger -> consumer ──────┴─> repository.Create ┘   (bounded channel)               │ Execute(root)
   (unbuffered channel)          │                                                   │ poll each second
                                 └─> item row, CreateTask ──> rows <─────────────────┤
                                                               ^                     v
 run command, API: reports ───────────────────────────────────┘      go Execute(child), ...
                                                                          │ work of a node
                                       node queue <── enqueue a job ──────┤
                                         │ worker runs the job            │ waits on resChan
                                         └── result on resultChan, then on resChan ─┘
```

Goroutines share the rows through separate persistence calls (no transaction
spans two of them), closures through captured variables, and channels: the
three queues, `resultChan` (buffered) and `resChan` (unbuffered) of each piece
of work, and the trigger's channel. One context is cancelled by ctrl+c and
reaches all of them.

### What is hard

* **Check, then act.** `Execute` reads a node's start time and writes it in two
  calls; the queue tests its length and sends in two steps; `Create` asks twice
  whether the queue is full, with rows written in between.
* **Who triggers a join?** Each parent's goroutine, after ending, looks at all
  parents of its children. That somebody finds them all ended depends on the
  end being written before the look. That only one does is not assured.
* **Order of calls.** Outputs are copied to the children before the end time is
  written, and inputs are read after the start time: only so does a child see
  all its inputs.
* **Partial failure.** Any call may fail in the middle of `Execute` or
  `CreateTask`, and nothing is rolled back.
* **Workers as throttle.** A worker stays in a poll until its graph is done,
  which bounds the graphs in progress, and lets a graph that never ends hold it.
* **Shutdown.** Workers quit with jobs still queued, while others wait for the
  results of those jobs without looking at the context.
* **Pages and reports of moving data**: a page of items, their count, and the times
  and share of each item are separate reads, while items are put and nodes execute.
* **What a job has come to** is decided by a last look after the wait, which may end
  because the job has, because its timeout is over, or because the command stops.
* **Metadata of results** is stored entry by entry: in memory in a slice without a
  lock, in Postgres with an insert of its type that other nodes make too.
* **Recursive reports**, and sentinel values: the zero time
  stands for "not started", for "not ended" and for "no end found".

`hazards` in `PROJECT.json` lists 40 of these at their lines, with the
properties that cover each, or why none does: where the premise of a property leaves out
the bad case, the hazard names no property.

### What makes each component correct

* executor: a node that waits starts after its parents ended; its work is handed
  each parent's output exactly once; every node that can run ends up finished;
  failures only keep nodes from running, and never wedge a goroutine;
* queue: what was accepted runs, once, overtaken by few; `Stop` returns and is final;
* repository: one graph per identifier; what is rejected leaves nothing behind;
  a bounded number of graphs in progress; users do not wait for the trigger;
* factory: the persisted graph is the configured one, acyclic, and all of it is
  below the returned roots; `CreateTask` returns;
* serve: a piece of work gets its result exactly once and before its channels
  are closed; nobody waits for ever; ctrl+c stops the command;
* reports: they agree with a direct definition over all nodes, in every state;
* run command: it ends, and with the outputs of the leaves of its last root;
* jobs: they are given only results that were published; a skip spreads to all that
  depends on nothing else; a job that has completed counts; every work returns;
* persistence and API: a client that reads page after page misses no item; what is
  shown as ended is complete; an answer fails only for items that are not whole;
* analytics: what a finished node printed is stored exactly; counts fit their page.

## 2. Modules and code

| Module | Models | Composition |
|---|---|---|
| `DagSchedule` | abstract: which node may begin when, and that it completes | refined by `DagExecution` |
| `DagExecution` | `nodeExecutor.Execute` in any number of goroutines, one step per persistence call | `INSTANCE DagSchedule` |
| `DagExecutionProofs` | proofs: order and refinement, outputs, single starts | |
| `WorkQueue`, `WorkQueueProofs` | the queue in itself, proofs | |
| `QueueRepository`, `QueueRepositoryProofs` | `Create`, the two workflow queues, their closures and poll, proofs | trees of nodes abstracted to what `DagExecution` shows of them |
| `Serve`, `ServeProofs` | work of a node, node queue, trigger, ctrl+c and the stops, proofs | workflow workers abstracted to whether they are inside a piece of work |
| `JobExecution`, `JobExecutionProofs` | what the work of a node is given, whether it is skipped, its job in Bacalhau, proofs | the channels of `Serve` abstracted to "waits for its job"; decides what is a free choice there |
| `TaskFactory` | `CreateTask`, from any configuration | its rows are the graph `DagExecution` starts from |
| `DagReport` | the reports, as operators on timestamps | steps of `DagSchedule` with a clock |
| `RunCommand` | the run command around an executing graph, or a server's workers | extends `DagReport` |
| `GraphProofs` | proofs about `TaskFactory`, `DagReport` and `RunCommand`: how the graph is made, what is reported of it | extends `TaskFactory` and `RunCommand` |
| `Persistence` | the tables and queries of both stores, for items and their graphs | |
| `ItemListing`, `ItemListingProofs` | PUT call by call; pages and items read while nodes execute; proofs | extends `Persistence` |
| `ResultMetadata`, `ResultMetadataProofs` | metadata of results in both stores, and the analytics endpoints; proofs | |
| `MC...` | the values of the constants for TLC | |

Correspondence, module by module:

**DagExecution.** `status`, `starts`, `ends`, `results`, `outputs` and
`delivered` are the rows: the latest status row decides what a read returns
(`GetNodeByID`), the counters how many rows of each kind there are. A goroutine
is named by the chain of spawns that leads to it and has a frame: `pc` is the
call it is about to make, `node` the node, `seen` the inputs read for its work,
`todo`, `child` and `check` the loops over children and their parents.
`GetNode` .. `Finish` follow `Execute` line by line; `Fail` is the error return
of whichever call is next. Timestamps are abstracted to "queued, started,
finished"; the text of results is left out.

**DagSchedule.** A node given the root input may begin at once, any other when
all its parents have completed. `DagExecution` maps `begun` to the nodes with a
started row and `completed` to those with a finished row.

**WorkQueue.** `Enqueue` is `TestFull` then `Send`; a worker's select is `Take`
or `Quit`, both enabled when a job waits and the context is done. `Take` is the receive
only: the worker has the job (`taken`) until it calls it (`BeginJob`), and another worker
may receive and begin the next one meanwhile. `accepted`, `runs` and `made` are history.

**QueueRepository.** A closure in a queue is just its request, because all
closures of a request share the loop variable `loop` (Go 1.20). `CallExecute`
reads it when `Execute` is called and `Poll` when the poll looks at the root.
A tree is a root with all below it: queued, started, ended (the root has ended),
complete. `Stuck` are requests whose graph may stay incomplete, as
`DagExecution` shows after a failed call, or whose root cannot be started. `left`
remembers trees whose worker gave up after a failed read. A node with several parents may
be executed twice: `StartAgain` takes a tree back that had perhaps finished, as often as
`Again` says, and `PollTooEarly` is a poll that read such a node before it was taken back.

**Serve.** `at` follows the closure `buildJob` returns, `jobAt` the job it
enqueues. `Held` are the workflow workers, for which `Stop` waits; goroutines of
children are not waited for. `main` walks through the HTTP shutdown and the
deferred stops. `Start` also stands for the poll of a workflow worker finding
its next closure. What decides whether a node is skipped is a free choice here
and the subject of `JobExecution`.

**TaskFactory.** `steps` are the positions of the current pass, `dags` the map
from step to node, `nodes`, `edges` and `rooted` the rows. `FailHere` leaves the
node of the step at hand with any part of its inputs, or nothing. Repeated
identifiers behave as in the code: a later one replaces the map's entry.

**DagReport, RunCommand.** Reports are translated as the recursive functions
they are, with time 0 for Go's zero time. A list of nodes is a set of them with an
order: children come sorted by identifier, and of the roots every order is
evaluated in which a Go map may return them (`Orders`, `First`). `main = "server"`
stands for the server's workers, so the reports are checked in both uses. A node below
others may begin once for each finished execution of a parent (`MayBegin`). In the server
the i-th closure of a request executes the i-th root or a later one, and several may begin
the same (`MayCall`); the run command begins each root once.

**JobExecution.** `at` is where the work of a step is: not begun, waiting in the node
queue, at a worker, in the wait of `BacalhauExecutor`, before its last look, done.
`Work` matches the configured inputs with what the parents have put out, and
skips; `RunJob` is a worker that takes the job, `Submit`, `EndWait` and `Look` are the
calls of the executor, each of which may fail. `remote` is the job as the network
has it, which moves on by itself (`Remote`) or not at all. A job that fails may
have published something: it is handed on like the result of any other.

**Persistence, ItemListing.** One action per insert and one operator per query, with
the answer of the store chosen by `store`: in memory there are no pages and no
orders. A PUT (a POST is the same) makes the calls of `NewItem` and `CreateTask` one
by one and may fail at each; the nodes of accepted items execute (`Execute`). The
client's answer is put together from a read of a page (`List`) or an item (`GetItem`),
the reads of each item's nodes (`ReadNodes`, and `ReadNode` for each node on the
paths of the recursions for start, end and share, with `frames` as their stack), and
for a page the `Count`. The graphs are trees: joins are the subject of `DagReport`.
Reading one item by its identifier also reads its outputs, which changes nothing and
cannot make the item itself look different, and is left out.

**ResultMetadata.** `SetResults` parses what a node printed, line by line and up to the
first object that is none. What is left of it, `todo`, is a set of entries with their
places, line and object; `Take` takes one of the first place, since the code ranges over
an object as a Go map, in any order. In memory an entry is appended in three steps: the read of
the slice's length (`Take`), the write of the row (`Fill`), and of the new length
(`Publish`). In Postgres `Take` begins the statement, `InsertType` is its insert of a
type it does not see, which waits for another's, and `Commit` its end. `ReadTop` and
`CountTop` are two queries, `ReadRecent` and `ReadOverTime` one each.

Definitions marked "A slip" in the modules are variants of the operation that
follows, with a plausible bug. They take part in no specification; each property
is seen to fail when its slip replaces the operation, so none holds vacuously.

## 3. Runs and what they show

Each run finishes in at most two to three minutes on two workers. `pass` runs:

| Run | Instance | Shows |
|---|---|---|
| `dag_shortcut` | 4 nodes: 1->2, 1->3, 2->3, 3->4; 1 worker; a node may be skipped or cancelled; no failures; 60k states | `ParentsEndFirst`, `WorkSeesOutputs`, `OnePathStartsOnce`, `ImplementsFairSchedule` |
| `dag_failures` | 3 nodes, 2 workers, the second entry waits for the first; any call may fail; 101k states | `ImplementsSchedule` |
| `queue` | 2 callers of 3 jobs, 2 places, 2 workers, cancel or stop at any time; 67k states | `RunsOnce`, `NothingLost`, `FewOvertaken`, `Overcommit`, `QuietAfterStop`, `AcceptedRuns`, `StopReturns` |
| `repo_requests` | 2 user requests with one identifier, 2 of the trigger whose graphs may stay incomplete, one worker and one place each; a user's and a trigger's graph have a node that may execute twice; failures and shutdown at any time; 315k states | `OneTaskPerItem`, `TriggerRejectedClean`, `Throttled`, `PriorityServed` |
| `serve` | a workflow worker, a spawned goroutine, 2 node workers, 1 place, at most 2 CIDs per search; 20k states | `ResultsBeforeReturn`, `WorkReturns`, `StopsOnceOutOfJobs`, `CidsTaken` |
| `job` | a root job, two Bacalhau jobs below it, one with a predicate, and a step that takes both; 5 configurations of kinds; 2 workers; a stop at any time; 84k states | `InputsAreReal`, `SkipSpreads`, `CompletedCounts`, `EveryWorkReturns` |
| `report` | 5 nodes: roots 1, 2 join in 3, and 1->4->5; either order of roots, in the server one root perhaps begun twice; clock to 3; 36k states | `TimesExact`, `ShareExact`, `PrintsLastRoot`, `CommandEnds` |
| `task` | all 4096 configurations of 3 steps over any inputs, some with unknown or repeated identifiers; any call may fail; 30k states | `EdgesGrow`, `GraphAsConfigured`, `RootsReachAll`, `AcyclicReturns` |
| `listing` | up to 2 items from before, one perhaps half made, and 1 that is put; graphs of 3 nodes, a fork; pages of 2 in both orders; both stores; times to 2; 1.4M states | `WalkMissesNothing`, `EndedShownComplete`, `FailsOnlyForUnfinished`, `RefusedOnlyWhenEmpty` |
| `metadata` | 2 nodes, 3 keys of which two spell one; outputs with junk and a line that is too long; 8 requests; both stores, one node at a time or two; 191k states | `FinishedStoresAll`, `GivesUpOnlyToAnother`, `TopAnswersFit`, `AllReturn` |

`violation` runs (section 6): `repo_two_roots`, `serve_hangs`. The type invariants
of the modules are in no cfg: those of `DagExecution`, `WorkQueue`, `TaskFactory`,
`JobExecution`, `QueueRepository`, `ItemListing` and `ResultMetadata` are proved, and
each can be added to the cfg of its module.

**Bounds, and why they are enough.** The graph of `dag_shortcut` has a join
whose one parent is an ancestor of the other, so that both parents' goroutines
may look at the same time or one long before the other, and a node behind the
join that inherits a double execution. A chain of spawns visits no node twice,
so `Goroutines`, all chains that start at a worker, is complete. Two callers and
two places allow one to fill the queue between the other's test and send; three
calls reach a full queue again after a job was taken. One place and one worker
per class make the queue of the repository full with the second request. With two
workers, a job received may be overtaken by the next ones of its caller. One second
execution of a node takes a graph back that has finished. Two
node workers let jobs overtake each other, one place makes the send wait. Three
steps give every cycle of length one to three, and two passes that postpone.
The clock's bound of 3 gives the nodes times that differ and times that are
equal. In `job` the last step has one parent that may be skipped and one that may
not, and both workers may be held by jobs that never end. In `listing` a page of 2
leaves a second page when there are three items, times of 1 and 2 let the item that
is put sort before, between or after the others, and a fork is the smallest tree in
which the reports have a node to skip. In `metadata` both nodes print the same keys,
so that each finds the other's type committed, uncommitted or absent, and pages of one
row have a next one.

## 4. Fairness and deadlock

* **Weak fairness of a goroutine's steps** everywhere: the Go scheduler runs
  every goroutine that can run. A job or container returns (`Work`,
  `EndJob`, `ExecuteJob`): the executor has a timeout. Nothing makes a request,
  a search, a failure or ctrl+c happen.
* **Calls of callers** in `WorkQueue`: only a `Send` that has begun is fair.
* **Strong fairness in `Serve`**: of `Send`, since Go serves blocked senders of a
  channel in their order; of `QuitWorkflow` and `QuitNode`, since a select with
  two ready cases picks one at random and does not avoid the context for ever.
  `AcceptedRuns` and `StopReturns` of `WorkQueue` need none: a cancelled queue is
  excluded from the first, and for the second a bounded number of jobs runs out.
* **`QueueRepository`**: the rest of a tree completes unless its request is
  `Stuck`. Nothing makes a node execute twice or a poll end too early.
* **`DagExecution`**: its liveness is `ImplementsFairSchedule`, without failures.
* **`JobExecution`**: weak fairness of the work and of the executor's calls, strong
  fairness of `RunJob`, since a worker that is free again and again takes the jobs of
  the queue in their order. Nothing makes a job in the network end: timeouts do.
* **`ResultMetadata`**: weak fairness of each node's steps. Nothing makes a call fail or
  a client ask.
* **`ItemListing`** has safety properties only, and no fairness.
* **Deadlock** is checked except in `repo_*`, `serve*`, `job`, `listing` and `metadata`. A repository without
  further requests stops, a request may wait in its send for ever once the
  workers have gone (its HTTP handler then dies with the process), and a worker
  polls a stuck tree for good. The serve command may hang after ctrl+c
  (section 6). In the last three everything may have been done: all works, all requests
  up to the bound of the times, all nodes. Elsewhere an explicit step with a condition (`Rest`,
  `Returned`) says when the system has come to rest, and any other end is
  reported.

## 5. Proofs

| Module | Theorems | For every |
|---|---|---|
| `DagExecutionProofs` | `TypeCorrect`, `AlwaysReady`, `ParentsAlwaysEndFirst`, `ExecuteImplementsSchedule`, `WorkAlwaysSeesOutputs`, `StartedOnceRunsOnce`, `OnePathAlwaysStartsOnce` | graph whose edges grow, workers, entries, spawned goroutines, outcomes, failing calls |
| `GraphProofs`, of `TaskFactory` | `RowsFit`, `EdgesAlwaysGrow`, `PersistedGraphExecutable`, `ReturnsConfiguredGraph`, `RootsAlwaysReachAll` | configuration, failing calls |
| `WorkQueueProofs` | `TypeCorrect`, `JobsRunOnce`, `NothingIsLost`, `OvertakingBounded`, `OvercommitBounded`, `StopIsQuiet` | finite sets of callers and workers, calls, capacity |
| `QueueRepositoryProofs` | `RepositoryTyped`, `OneTaskPerIdentifier`, `ClosuresHaveNodes`, `AlwaysThrottled`, `TriggerAlwaysRejectedClean` | requests, identifiers, roots, workers, capacity, failing calls, second executions |
| `ServeProofs` | `WorkGetsItsResult`, `JobsInOnePlace` | executors of work, node workers, capacity, with or without trigger and interrupt |
| `GraphProofs`, of `RunCommand` | `CommandTyped`, `TimesAlwaysExact`, `ShareAlwaysExact`, `AlwaysPrintsLastRoot` | graph whose edges grow and whose roots have no parents, order of the roots, bound of the clock |
| `JobExecutionProofs` | `TypeCorrect`, `InputsAreAlwaysReal`, `SkippingSpreads`, `CompletedAlwaysCount` | graph whose edges grow, inputs, predicates, kinds of jobs, workers |
| `ItemListingProofs` | `ListingTyped`, `AnswersFailOnlyForUnfinished`, `PromisedPagesAnswered`, `WalkNeverMisses`, `EndedAlwaysShownComplete` | items, trees of nodes, times, orders and sizes of pages, both stores |
| `ResultMetadataProofs` | `MetadataTyped`, `GiveUpsAreToAnother`, `CountAlwaysCoversPage`, `FinishedAlwaysStoresAll`, `TopAnswersAlwaysFit` | nodes, outputs, keys and spellings, requests, both stores |

**Assumptions** are the named ASSUMEs of the components: `GraphAssumption` (a
child's identifier is above its parents'; `PersistedGraphExecutable` proves it
of what `CreateTask` persists), `CallAssumption`, `ConfigAssumption`,
`QueueAssumption`, `RequestAssumption`,
`ServeAssumption`, `JobAssumption`, `PureRoots`, `ReportAssumption` (every node is below a root, which is
`RootsAlwaysReachAll` of the task factory), `TableAssumption`, `ListingAssumption` (among it
that the configured graph has a step: a task without root nodes is an error,
`factory.go:147`) and `MetadataAssumption` (an output is a sequence of lines, a line one
of objects and junk). Finite are only sets that the program has in memory: workers,
callers, items, nodes. The instances of TLC satisfy them.

**Executor.** `ParentsEndFirst` is not inductive: a goroutine about to write the
start time says nothing of why it may. `ReadyInv` adds that (a) a goroutine
executes an entry node or one whose parents have all ended, (b) in the readiness
loop the parents it has passed have ended, and at the spawn all of them, (c) a
row that says finished was written by an end, and an end follows a start. (b)
turns into (a) when the child's goroutine is spawned, and (a) into the property
when it writes the start time. Ends are never taken back: `ends` only grows,
even where a second execution of a node makes its status "started" again, which
is why the property speaks of `ends` and not of `status`. The same invariant
shows that each step maps to `Begin`, `Complete` or a stutter of `DagSchedule`.

**Outputs.** `WorkSeesOutputs` rests on `OnceInv`, which says of a node with no start row
that nothing has been written for it, and of one with a single start row that one
goroutine at most executes it, that its rows are what that goroutine's place in
`Execute` says (nothing yet; output stored and some children served; all served), and
that once it has an end row every child has its output. The parents of a node whose
inputs are read have ended, by `ReadyInv`; so what is read is what they put out, and
nobody changes it while the work runs. A node that is executed twice may deliver twice:
hence the premise of a single start.

**Single starts.** `OnePathStartsOnce` is about nodes above which there is no join:
`OnePath` says so by a set of nodes, each an entry node of one worker or with its one
parent in the set. For each node of the set the started row is written, or one goroutine
is about to write it, or one is still to be triggered, and never two of these
(`TriggeredOnce`): a spawn turns the third into the second, a start the second into the first.
That nobody else can spawn it comes from `OnceInv` of its parent, which one goroutine
executes.

**Task factory.** The type invariant says that the node of a step exists and
bears its name. A new node's number is one more than all others, and its edges
come from nodes that exist: so edges grow. For `GraphAsConfigured`, `Fits` adds that
each node is the one of its step and has exactly the step's inputs as parents, that the
steps of a pass have no node yet, and that no step is without one after the last pass;
steps and nodes then correspond one to one, so there are as many of both. For
`RootsReachAll` the inductive fact is of the graph at any time, and not only when it is
complete: any set of nodes that has the roots and all children of its members has all
nodes (`ReachesAll`). A new node has an input that is in the set already, or is a root.

**Queue.** `RunsOnce` and `FewOvertaken` rest on `OrderInv`: of each caller the jobs
received come before those in the channel, those are in order, and they come before the
one it is about to send. With several workers that order ends at the receive: a job
received may begin after later ones. A job that waits although a later one of its
caller was begun is behind none in the channel, so by `NothingLost` a worker has it
(`taken`), and each such job another worker. `OvertakeInv` says that one worker has none of
them: the one that began the later job, for what it receives next comes later still. So they
are fewer than the workers, and none with a single one. That no job is begun twice is
`TakenInv`: none is with two workers, and one with a worker was not begun. For
`Overcommit` it is enough that a caller that passes the test finds a free place and that a
send moves one from the senders to the channel. `StopIsQuiet` uses that the wait group is the number of workers that
have not returned, and that only these run jobs.

**Repository.** A request owns its identifier from the `NewItem` that stored it on, first
because it is in `CreateTask`, then because it has nodes, which are never taken back.
Two owners of one identifier would have stored it twice. Workers only touch nodes of
requests that have some (`QueuedMade`), so they make no owner. `Throttled` maps each
tree in progress to the worker that runs or polls it (`Attended`); no worker has two, so
there are no more trees than workers. A tree a node of which was begun a second time is
not counted: its worker may have found it finished before. It is for requests with one root, since the
closures of several share their loop variable and a worker may poll another tree than it
runs. `TriggerRejectedClean` needs that one goroutine adds to the trigger's queue
(`OneCaller`): the place that the first test found is still free at the second
(`RoomKept`), so a request is turned away only before it has stored anything.

**Serve.** The job of a work that waits is once in the node queue or with one worker
(`OnePlace`), works that do not wait have none, and the job has sent its result exactly
when it is about to meet the work (`JobsOfWaiting`). So the work that is met has one
result, and afterwards no job.

**Jobs.** What a step puts out is nothing, what its own job has published, or what it took
from a parent: by induction along the steps of the specification, always the root
input or a published result, since a published result is never withdrawn.

**Answers about items.** The rows of a request are stored from the first step to the
last, each node with its status before the next (`PutOK`), so a node without a status is
of a request in progress or failed: `FailsOnlyForUnfinished`. Items are never deleted and
a client keeps its page size, so the number of pages only grows: `RefusedOnlyWhenEmpty`.
For `WalkMissesNothing` let an item that was due not be shown yet: then as many items as
all pages so far have places are before it (`Ahead`, `NotShownYet`), and as items are
only added, that stays true; on the last page there is no room for it to be missed.

`EndedShownComplete` rests on two readings. Nothing of a graph executes before all of it
is linked (`GraphInv`), and a node ends after its parents. In the reading for the end, the
nodes that are left to read are those of one parent at a time, where only leaves have
siblings, and the levels above have ended (`Descends`); so an end is answered only when
all have. In the reading of the share, later, a node that is not known is left to read or
below one that is not known (`Reaches`); when nothing is left, the unknown node of the
least step would be neither, so all are known, and finished, as ends are not taken back in
a tree. The property as first stated left out that all root nodes were stored when they
were read, and was false: the roots could be read between the
inserts of two of them, and the end and the share were then those of the first. The proof did not go through, TLC showed why, and the premise now says it.

**Metadata.** Where a store cannot tear rows (`InTurn`: Postgres, or one worker) they are
only appended. `WitnessInv`: a type that is committed but that a statement does not see
is that of a row of another node. For the count, the values of a key are only added
between the two queries. `FinishedStoresAll` is an account (`Account`) of rows and printed
entries: every row has its entry, no two the same, and every entry is still to be stored,
or in the hand of its node, or has its row; what is parsed is by definition, line by line,
what there is before anything else (`ParsedIsPrinted`, with the least number of a set of
naturals). A finished node has nothing in hand, so rows and entries are in bijection, and
the counts of `TopAnswersFit` are those of the entries. To make this provable, `todo` became
a set of entries with places instead of a sequence of objects that recursive operators take
apart; the states that TLC finds are as many as before.

**Reports.** The functions that recurse over lists of nodes are shown to have a
solution: a list of children has fewer nodes from its first identifier on than one with
their parent, and the rest of a list is shorter (`Measure`, `RecursionExists`); so their
equations hold. By induction on that measure the statuses collected are those of a set
that holds the roots and with a new node its children (`StatusesCollected`), which is the
whole graph; and the end reported is the end of a node with no later one below the roots
(`EndsReported`). Induction is over the set of the lists for which this is so; a theorem
of the library that takes a property would be out of reach of the provers. The earliest start
is that of a root since no node begins before its parents have ended (`StartsAtRoots`, an
invariant), as long as no root is begun twice (`RootsOnce`), which the run command never
does; otherwise a root has a start all the same when any node has, and the start reported
is one of them. `PrintsLastRoot`: when the last root's children
were found finished, a set that holds the root and all below it has put out (`Command`),
and later steps take back times but no outputs.

**Only model-checked**: all liveness, and with it `ImplementsFairSchedule`, which is beyond
the prover. Every other property of the passing runs is stated by a theorem.

## 6. Where code and documentation disagree

With a run that shows it:

* **A root is never executed** (`repo_two_roots`, `EveryRootRuns`). The closures
  capture the loop variable (`queue_repository.go:71-75`); `go.mod` says Go 1.20.
* **ctrl+c may hang** (`serve_hangs`, `InterruptStops`). The node workers quit with
  a job in the queue; the work that waits for it never looks at the context
  (`factory.go:260`), and the deferred `Stop` waits for the worker it runs in.

Seen while modelling, and described by the modules, which state what holds all the
same:

* Two parents that end together both spawn the child, and both goroutines pass the
  check of `node.go:109` before either writes the start time: the child is executed
  twice. `OnePathStartsOnce` says where that cannot happen, `WorkSeesOutputs` has a
  premise for it. The second row takes back that the child has ended (`node.go:199-207`),
  perhaps after the poll found the graph finished and its worker left: the graph is then in
  progress without a worker, and `Throttled` does not count it.
* Closures of a request with several roots may begin the same root, also twice. Its second
  start replaces the first, after a child has begun: the start reported of the graph
  (`util.go:12-30`) is then later than that child's, hence the premise of `TimesExact`.
* A worker calls its job after it has received it (`inMemQueue.go:59-61`): with several
  workers jobs need not begin in the order of the channel. `FewOvertaken` bounds by how many.
* A worker that cannot read how far a graph is takes its next closure while the graph goes
  on (`queue_repository.go:83`), and `Throttled` does not count that one either.
* A request that finds the queue full at the second test leaves an item and nodes that never
  run (`queue_repository.go:71-95`). `TriggerRejectedClean` says of which requests not.
* A graph in progress may have an end time: the recursion of `util.go:36-57` answers
  the zero time for a node that still runs, and its caller goes on with that. Hence
  the premises of `TimesExact` and `EndedShownComplete`.
* The run command may exit early: each root's verdict overwrites the one before
  (`run.go:85-95`). `PrintsLastRoot` is what it does promise.
* `Enqueue` blocks instead of rejecting when another caller fills the queue
  between its test and its send (`inMemQueue.go:37-40`; `appConfig.go:132` says
  that workflows are rejected). `Overcommit` bounds by how many.
* The trigger returns the error of the cancelled context and its goroutine calls
  `log.Fatal` on any error (`serve.go:154`): with the trigger on, ctrl+c may end
  the process before the queues are stopped (`Serve`, `TriggerQuit`).
* A configuration with a cycle passes the check that is to keep `CreateTask`
  from looping (`factory.go:71`) and loops; hence the premise of
  `AcyclicReturns`.
* A step without any input becomes a node that is neither root nor child and
  never runs; hence the premise of `RootsReachAll`.
* The share of finished nodes of an item without nodes is 0/0 (`api.go:708`).
* A job that is not configured makes the process panic when its node runs
  (`factory.go:273-276`); the result of a failed job is handed on if it published
  one (`bacalhau.go:68-70`).
* An item one of whose nodes was left without a status row makes every page that shows
  it fail with Postgres (`node.go:240-248`); `FailsOnlyForUnfinished` says that nothing
  else does. In memory pages ignore order and number (`in_mem.go:81-98`), hence the
  premise of `WalkMissesNothing`.
* Two nodes that store metadata in memory at the same time may overwrite each other's
  row (`in_mem.go:258-264`), hence the premise `OneAtATime`; in Postgres the node that
  loses the race for a new type gives up (`query.sql.go:151-166`,
  `GivesUpOnlyToAnother`), and two spellings of a key make every query of it fail
  (`query.sql.go:484-486`, `544-546`).
* A job that failed or was lost still hands on an output: a predicate that any text matches
  is satisfied by it (`factory.go:192-207`), while its missing result is no input.
* The handler of metrics over time calls `Error` on a nil error when there are no rows
  (`api.go:194-195`), and panics. The one of recent results has the same line, but its
  query never answers nil (`analytics.go:210-214`).

## 7. Not modelled

* Postgres: opening the database, its migrations and the scanning of rows are I/O.
  Statements are atomic, but for the insert of a type, which others are seen in or not.
* The router, the HTML pages, and the endpoints of graphs and jobs, which show the
  configuration and change nothing. Parameters that are refused before any state is
  read are one case (`Ask` with a size of zero).
* The fields of a Bacalhau job that `Render` fills in: names, images, entry points and
  mount paths. A path that is missing makes a job broken.
* Configuration, flags and environment: sequential reads of files; configured graphs
  and jobs are inputs of `TaskFactory` and `JobExecution`.
* The UI, job containers, infrastructure: outside of the server.
* Restart with Postgres: the rows stay, the queues and the work of nodes do not,
  and nothing resumes them, so no step would follow.
* In `ItemListing` an accepted item is whole: the later calls of a PUT that may fail, the
  second insert of an edge, the choice of the roots and `Enqueue` (`factory.go:135-150`,
  `queue_repository.go:67-95`), would leave rows like those of an accepted one, of a request
  that was refused. A page number below one (`api.go:564`) is not asked for.
* In `ResultMetadata` the call before the parser, `SetResults` of the node
  (`node.go:121-125`), does not fail; if it did the node would not finish.
* What a query in memory makes of a row that two nodes are just writing over.

## 8. What could follow

* An abstract specification of the queue (jobs accepted, begun, returned) that
  `WorkQueue` implements and that `QueueRepository` and `Serve` use.
* Requests with several roots whose closures have a variable each, as from Go 1.22 on:
  `EveryRootRuns`, `Throttled` and the start of `TimesExact` for any number of roots.

Runs are shared between the questions that have the same instance, to keep their
number small; new properties join an existing run where its bounds reach them.
