# Issue Finder: verification project

Issue Finder (Rust, `src/src`) discovers GitHub issues for a Codex session, judges
them with a decision model, prepares them as handoffs, and can hand one to a
supervised Codex worker ("dispatch").  This directory keeps TLA+ models of the
parts whose correctness depends on order, failure, staleness and concurrency, the TLC
configurations that check them on small instances, and theorems, checked by
TLAPS, that hold for every instance.

## 1. Inventory of the system

| Part | State it keeps | Operations | Interacts with | Hard behaviour |
|---|---|---|---|---|
| Dispatch run (`dispatch/store`, `runtime`, `supervisor`, `evaluator`, `outcome_validator`) | SQLite rows: run, issue task, approval, outcome, failures, artifacts | propose, approve/reject, launch, supervise, retry, submit a result, conclude | Codex client, worker MCP server, GitHub projection | several processes, one file, one SQL statement at a time; crashes; budgets |
| Codex client and outbox (`dispatch/codex_runtime`) | outbox, threads, turns, pending requests in SQLite; event queue and RPC map in memory | request, respond, route, project, send, reconcile, reconnect | the Codex app server over a socket or stdio | lost and reordered messages, full queues, reconnects |
| Issue review (`dispatch/packaging`, `task_contract`), A2A gateway | issue task, artifacts, review approval, export approvals | import, approve, reject, export | inbox, dispatch | partial imports, check and then unconditional update |
| GitHub comments (`dispatch/github_projection`, `github_interaction_policy`) | interactions, approvals | draft, approve, reject, post, retry | GitHub API | post and record are two steps |
| Decision transport (`decision/codex`) | one child process, pending RPCs, thread subscriptions, early events, leases | generate, cancel, cleanup, close | Codex app server | multiplexing, cancellation, bounded buffers |
| Judgement (`decision/mod`, `http`, `replay`) | snapshot and source caches | judge, retry, capture | providers, file system | ages of caches, paid calls that get lost |
| Native providers (`decision/native`, `provider`, `contract`, `evidence`) | none | map answers, choose an account, sample comments | judgement | numeric edges, precedence |
| Screening policy (`decision/policy`, `availability`) | none | assess, quality, gate | engine, daily workflow | several functions over the same facts |
| Memory (`memory/*`) | SQLite: events, nodes, states, edges, hints, dreams | ingest, activate, write back, dream, control | dispatch outcomes, ranking | idempotence across crashes |
| Recommendation engine (`recommendation/engine`, `feed_ranker`) | the pool of a scout | scout, assess, recheck, backfill, expose | GitHub, decision model | limits that share, facts that age |
| Feedback (`recommendation/events`, `state`, `feedback`, `candidate_board`) | event log | append, fold, rank, list | every command | late events, two folds of one log |
| Value model (`value_*`, `recommendation/quality_policy`) | none | assess, score, hide | engine | stages that use each other's intermediate values |
| GitHub access (`github`, `github_enrichment`, `github_budget`, `availability`) | request budget, source caches | find, search, enrich, complete, check | GitHub API | partial answers, rate limits, shared budget |
| Inbox and workflow (`inbox`, `workflow`, `handoff`, `paths`) | index file, item directories | prepare, daily, archive | everything above | read, change, write without a lock |
| Tool runtime (`tool_runtime`) | none of its own | status, scout, assess, prepare, read, submit | all of them, on behalf of agents | profiles, gates, stale views |
| CLI, configuration, reports, evaluation harnesses | none, or output only | | | I/O |

What makes each part correct, in a sentence: a run executes only what a user
approved, and concludes once and truthfully, or stops where its failure can be seen; the client loses
nothing in silence and a control moves; a package exists only of a complete import a
user approved; GitHub hears only what was approved and the rows never claim
more than GitHub holds; a shared transport keeps candidates apart, leaves nothing
running and closes; an answer is about the discussion there was and is paid for once;
the policy's functions agree; a memory is written back once and obeys its user; a feed
is rechecked, fair and within its limits; what the user said last counts; what is
known to be taken is neither shown nor called free; lanes, pages and enrichments say
what they did not read; the files of the home directory agree; a tool call leaves and
says what it may.

`PROJECT.json` lists the components with their status and the hazards line by line.

## 2. Modules

| Module | What it is |
|---|---|
| `DispatchStore` | vocabulary of the dispatch database: statuses, transition table, outcome kinds |
| `RunContract` | abstract specification: what a run promises its owner |
| `DispatchRun` | one run and every process that works on it |
| `AppServerClient` | a supervisor's client: worker, queue, loop, the server, the outbox |
| `IssuePackages` | import, review and package of an issue, and its A2A exports |
| `GithubComments` | the comments of one issue task and the commands that change them |
| `HomeFiles` | the index, the handoffs and the event log in the home directory |
| `MemoryRecall` | activations and their writeback |
| `MemoryHints` | raw events, dreams, hints and what the user says of them |
| `ToolRuntime` | the tool calls of agents under their profiles |
| `DecisionTransport` | one app-server session shared by concurrent classifications |
| `Judgement` | the caches, the call and the capture of a judgement |
| `DecisionContract`, `DecisionAdapters` | the contract of questions and answers, and what the adapters let through |
| `AvailabilityVerdict`, `ScreeningPolicy` | predicates over an availability snapshot, and the policy over screened issues |
| `Arrangement` | sorting and filtering without recursion, what `sort_by` and `filter` return |
| `FeedSelection`, `ScoutRound` | the selection of a page, and a scout from its first lane to its exposure |
| `DiscoveryLanes` | the lanes issues are found in, their caches and limits |
| `SearchPages` | the paged search with its cache and its resumption |
| `Enrichment` | concurrent enrichments, the later completion, the budget |
| `Availability` | the availability snapshot of one issue |
| `IssueFeedback` | the event log of an issue, its two folds, feed and board |
| `ValueModel` | the value assessment of an issue over a thread that grows |
| `Finality`, `FreshFacts`, `FairScores` | one property each, of components that share a question: records that are final, facts that age, scores that add up |
| `FoldLemmas` | lemmas on numbers, folds, sums and arrangements that the modules of proofs share |
| `DispatchRunProofs`, `DecisionTransportProofs` | theorems about the module of that name |
| `ClientProofs` | theorems about `AppServerClient` |
| `PackagesProofs` | theorems about `IssuePackages` and `GithubComments` |
| `RecordsProofs` | theorems about `HomeFiles`, `MemoryRecall`, `MemoryHints`, `ToolRuntime` and `Finality` |
| `GithubProofs` | theorems about `DiscoveryLanes`, `SearchPages`, `Enrichment` and `Availability` |
| `JudgingProofs` | theorems about `ScreeningPolicy`, `Judgement`, `DecisionAdapters`, `ScoutRound`, `IssueFeedback`, `ValueModel`, `FreshFacts` and `FairScores` |
| `MCDispatchRun`, `MCGithubComments`, `MCDecisionTransport` | small instances of one module |
| `MCDispatchCasts`, `MCSupervision` | two casts of a run; a run and its client, under fairness |
| `MCRecords`, `MCGithub`, `MCJudging`, `MCBoard` | small instances of several components (section 3) |

A definition whose name has a suffix (`Launch_Unchecked`) is a faulty variant of the
definition it precedes.  No specification uses it; each shows that a property
notices the fault.  The main property of a module is often a conjunction of named
parts (`ReviewsGatePackages` is `PackagesAreReviewed`, `ReviewsAreComplete`, ...): the
parts are stated and commented one by one, and each has a faulty variant of its own.

### 2.1 The dispatch run

The processes are resolvers (`dispatch approve`/`reject`), supervisors
(`issue-finder supervise`) and submitters (the worker's MCP server).  They share only
the SQLite file, where every statement commits by itself, so a step is one statement,
one transaction, or one call to Codex.  `pc[p]` is the place in the code of process
`p`, `local[p]` the variables it keeps there.  What is in the file: `run`, `approval`,
`task`, `outcome`, `failures`, `candidates`, `pending` (an open question of the
agent) and `turn` (outbox entry and Codex's own view of each attempt's turn).

- `update_dispatch_run_status` reads the row, validates against what it read and
  then overwrites.  It is two steps: `ChangeStatus` and `WriteStatus`, with the
  pending write in `upd[p]`.  Most of the interesting interleavings are here.
- `record_dispatch_run_outcome` is `FindOutcome` (the idempotent read) and
  `InsertOutcome` (the transaction under `UNIQUE(run_id)`), with the row in `ins[p]`.
- `resolve_dispatch_approval` is `StartResolve`, `ResolveRequest`,
  `SetApprovalState`, `DecideRun`, `MarkDispatched`.
- `run_inner` is `Claim` ... `JudgeTurn`; its loop is `TimeBudget`, `Deliver`,
  `SyncPending`, `PollTerminal`, `Pump`, `JudgeTurn` in the order of the code.
- `record_runtime_error` is `CountFailures`, `RecordFailure`, then `GiveUp` or
  `RetryLater`; every error of a supervisor passes through it (`OnError`).
- `submit_result` is `Submit`, `RecordCandidate`, `AskUser`, `StartEvaluation`,
  `Settle`, `CommitVerdict`.

- `HandshakeHangs` is a connection (`connect_worker` at the start, the reconnect inside
  `Pump`) whose `initialize` Codex never answers.  Nothing times that wait out
  (`client.rs:411`-`417`), so the supervisor is `Hung` until it is killed.

A crash may happen at every step (with the fault `crash`).  `RunContract` has no processes and no rows:
execution is granted once, then at most one outcome is recorded for good.  The
mapping is `granted <- Granted`, `outcome <- outcome`.

### 2.2 The app-server client

`conn[s]` is one connection: `wire` what the server has sent, `held` what the worker
is about to put on `queue`, `skipped` its counter, `call[s]` the one call the loop
waits for.  `Worker` is the task of `spawn_stdio_worker` with `route_message`;
`place[s]` walks the loop of the supervisor: resume, deliver responses, deliver
controls, pump.  `outbox` and `rows` are the tables of controls and of questions, and
survive.  The server takes, answers, notifies, asks and exits when it likes;
`TimesOut` is the RPC timeout, `Leave` a death, after which another supervisor may start
with a new connection (`epoch`).  The turn's own outbox entry is in `DispatchRun`.

### 2.3 Packages, comments and the home directory

`IssuePackages` and `GithubComments` run commands statement by statement like the run:
an import is `UpsertTask`, `FindExisting`, `CopyHandoff`, `CopySnapshot`,
`WriteProfile`, `CreateReview`; an approval `StartReview`, `ResolveReview`,
`BuildPackage`, `WritePackage`, `MarkUserApproved`; an export `StartExport`,
`RequestSend`, `StartSend`, `ResolveSend`.  A comment is drafted by `Draft`,
`InsertInteraction`, `RequestApproval`, decided by `StartResolve`, `ResolveRequest`,
`MarkDecision`, posted by `StartPost`, `Post`, `RecordPosted` or `RecordFailed`, and
retried by `StartRetry`, `MarkRetried`, `Reread`.  GitHub may refuse, or take the
comment and have its answer lost.  `overlappedDesk` and its like are history variables: they
say that two commands have overlapped, and the properties that need one command at a
time name them.

`HomeFiles` has the index file, the handoff directory of each issue and the log of
feedback.  `atomic_write` is `Truncate`, `Fill`, `Rename` over one temporary file;
a log line is `WriteLine`, `EndLine`.  `Daily` picks among the ranked issues what the
inbox and the feedback let through and prepares it (`BeginPrepare`,
`PrepareWorkspace`, `WriteHandoffFiles`, `WriteSnapshotFile`).  A hand may die at any step.

### 2.4 Memory and tools

`MemoryRecall`: `Activate` finds what its query matches above the thresholds (the
code's decimals are integers here, in ten-thousandths);
`ReadState`, `StoreState`, `InsertRecord` (and the same for edges) are the writeback of
one action of one item.  `MemoryHints`: the status machine of a hint, with
`ReadHint`, `WriteHint`, `RecordChange` for one transition; `Dream` to `InsertHint` the
steps of a dream over the evidence that is left; `TombstoneRaw`, `TombstoneNodes`,
`FinishTombstone` of forgetting.  `ToolRuntime` starts a call by `Execute` with its
arguments and finishes it by the handler of the tool, so that issues turn and
handoffs are prepared again in between.

### 2.5 Decision transport

`DecisionTransport` models one initialised session.  A call (`phase`, `try`) makes up
to `MaxTries` attempts; an attempt (`stage`, `got`) starts its thread and its turn
and reads events; when it is dropped - done, failed, timed out or cancelled - its
cleanup (`cleaner`) runs on its own and keeps the lease of the call.  `pending`,
`routes`, `early`, `closed` are the fields of `Routes`, `sub` the identity and the
event channel of a subscription, `writes` the queue of the writer.  A step is what
the code does between two awaits or under one lock, so `cleanup`'s look at
`identity.thread` and its look at `pending` are two steps (`Look`, `Seek`): the
runtime has several threads.  The server (`thread`, `turn`, `owed`, `emitted`) takes
requests in the order written, answers late, in any order or not at all, emits events
before and after its answers, and may exit.  `Deadline` is both the timeout of a call
and the drop of its future.  `Listen`, `CountLeases`, `Stop` are `close`; a
lease is counted out and announced in two steps (`DropLease`, `NotifyWaiters`).

### 2.6 Judging, finding and ranking

- `Judgement`: a screening reads details and comments through the source cache
  (`ReadDetails`, `ReadComments`), looks its material up (`LookUp`), asks (`Post`, with one
  retry) and saves (`SaveSnapshot`); two screenings run at a time while comments arrive,
  are edited, and minutes pass.  A text is its version.
- `DecisionAdapters` applies the operators of `DecisionContract` to every bounded
  input: a response to its request, an environment and a configuration to an account,
  a discussion to its sample.
- `ScreeningPolicy`: one issue is judged or checked again; category, gate,
  visibility and missing evidence are functions of what is known then.
- `ScoutRound` walks a scout through its lanes and stages.  What an issue's facts
  are is chosen when they are read, within the depth of the read; `FeedSelection` is the
  selection of the page, which `Expose` records and `Return` sorts once more by score.
  An order is a set of pairs that tells any two places apart
  (`Stably` lets equal elements keep their places, as `sort_by` does), and an element goes
  where as many are before it as the pairs say (`Arrangement`).
- `DiscoveryLanes` and `SearchPages`: a call reads lane after lane (page after page) through
  caches that other calls filled, while issues are taken and minutes pass; GitHub
  answers, refuses or limits.
- `Enrichment`: each task reads details, comments and timeline through its caches,
  reserving every request (`ReserveRequest`) before its answer (`Reply`).  An enrichment
  and a completion have source files of their own (`KeyOf`).  `e.warnings` are the warnings of
  the competition, `e.said` the reads that the issue's own warnings say failed.
- `Availability` builds a snapshot request by request from a `world` it reads in part.
- `IssueFeedback`: `events` is the log in the order of the file, whose times may be
  out of order (`AppendLate`); `StateOf` and `BoardFacts` are the two folds.
- `ValueModel`: texts are the sets of what they say; the code's decimals are
  hundredths, rounded where the code rounds.

## 3. Runs

| Run | Instance | What it shows |
|---|---|---|
| `casts` | two casts of a run: 2 resolvers and 2 supervisors, or 1 resolver, 1 supervisor and 2 submitters; every fault | nothing executes before a grant, an attempt's turn is asked for once, one evidenced outcome for good; the run refines `RunContract` |
| `supervision` | 1 supervisor, 2 attempts, every fault but death: starts that fail before and after Running, evaluations that fail, handshakes that hang; four kinds of candidates (the proven and the unproven success are in `casts`); or 1 client with 2 connections, a queue of 1, a control, a question, exits and timeouts; fairness | a supervisor exits unless a handshake hangs; a relaunched run concludes within its attempts unless it is stranded after Running or a handshake hangs; the client loses nothing in silence and a control moves |
| `two_executors` | 1 resolver, 2 supervisors | **violated**: two supervisors execute one run |
| `exhausted_verdict` | 1 submitter, 1 attempt | **violated**: the last verdict cannot be committed |
| `comments_dead_end` | 1 operator, 1 interaction | **violated**: a row no command takes any more |
| `transport_sharing` | 2 calls, buffers of 2, 3 events | no event is lost or out of order, failures wake readers, nothing is left running or held |
| `transport_close` | 1 call, 2 tries, slow or exiting server, fairness | one accepted turn per call, no waiter forgotten, close ends and stops only a quiet session |
| `transport_unsubscribed` | 1 call | **violated**: a thread stays subscribed |
| `records` | 2 operators or 1; 2 clerks, 2 items; 2 hands or 1; 1 reader with 2 memories; 1 curator with 3 changes or 2 dreams, or 2 curators with 3 changes; 3 callers | comments, packages, files, memory and tool calls: what is recorded was approved, is complete and stays, until commands overlap; hints obey their user also then |
| `github` | 2 issues in 2 repositories; a search of 6 results; 2 tasks with 2 requests; some 160 worlds | lanes keep to lifetimes and limits, pages are complete, enrichments and snapshots say what they did not read |
| `judging` | 4 candidates; 2 screenings; every bounded response, configuration and discussion; screened issues | a feed is checked and within limits, and fair as it was selected; answers fit and are paid once; adapters keep the contract; the policy agrees with itself |
| `board` | 3 items with 3 events; 6 prospects with 2 remarks | the user's last word counts; the value model never shows what is taken; scores move the right way |

A run with several components has one variable `part` that says which of them moves;
the others stand at an initial state.  They are one run because they share a
question, and nothing in the code connects their steps: what one reads of another
(a handoff, an availability, feedback that arrives) is an input of its own module.
The initial states of a part are all its initial states; only of the parts that stand is
one chosen (`RecordInit`, `GithubInit`, `JudgingInit`, `BoardInit`).

### The bounds

Two of each kind of process is where the races are: each hazard is between two
processes and the row they share, and a third only repeats one of them.
`MaxAttempts` and `MaxCandidates` of 1 or 2 contain the first, a middle and the last
attempt; two candidates are a rejected and an accepted one.  Two interactions are
enough for two of a type; one operator alone has three, so a rejected, a posted
and a fresh one coexist.  Event buffers of two overflow with three events, and two
calls let one thread be named while the other waits to be.  A client queue of one is
full with a single notification.  Constants that begin with `Max` or `Last`, and
`SpendLimit`, `Budget` and the other limits the code has as constants, are bounds of
counters that have none or a large one; lifetimes of caches (`SearchTtl`, `CacheTtl`, ...)
are 0 or 1 of a clock that goes on after they are over, so that every cache is met fresh and stale
(fallback lanes live a minute of the three that `LastLaneMinute` gives; snapshots and pages lapse
at their lifetime, sources and lanes after it).

Bounds that are not constants are guards in the MC modules: `MaxFailures` and the
casts (`MCDispatchCasts`); `TwoComment` (two operators draft twice, in three
situations; `OneComments` has one operator in all of them), `Curate` (one curator reviews, restores
and suppresses three times, or dreams twice and reviews once; two change three times while one may
dream and none forgets), `ClerksWork` (after an
overlap an export is explored with one review), `TwoHandsWork` and `OneHandWorks` (two
hands with two commands, or one with four) in `MCRecords`; `NothingToRefreshAtFirst`
(the first screening finds no cache) in `MCJudging`.  Symmetry is used where there is no
liveness property and the processes are interchangeable.

### Fairness

`DispatchRun!Fairness`: a live process takes its next step (weak fairness of
`Working`), and the wall-clock budget, once spent, is found spent at the head of the
loop (strong fairness of `TimeBudget`, because the loop leaves its head between
checks; `supervisor.rs:122` compares with a clock that only grows).  Codex owes
nothing, users owe nothing, faults and crashes are not fair.  `ApprovedRunConcludes`
adds that the owner relaunches (`Relaunched`): the code has no daemon that does.
It runs without crashes, as a killed supervisor leaves the run in a status
from which it cannot be launched.  Two more ends are not ruled out by the code, so the properties
name them instead of assuming them away.  A failure after `EnterRunning` (a `turn/start`
that is refused, an error of the loop) is recorded, but `record_runtime_error` can then not go
from running to approved (`supervisor.rs:236`-`241`), and nobody works on the run any more
(`Stranded`).  A handshake that Codex does not answer has no timeout (`Hung`).  What the properties
say is that these are the only ends without an outcome: every failure before Running is relaunched
or given up, a turn that never ends is ended by the time budget.

`AppServerClient!ClientFairSpec`: the worker and the loop are tasks that are scheduled, the
server takes what was written, and timers fire.  The server need not answer, ask or
stay; only the handshake of a reconnect is taken to be answered here (`Reconnect` is one step), and
the hung one is in the other part of the run.  `MCSupervision` states both, each for the part that moves.

`DecisionTransport!FairSpec`: tasks of the runtime are scheduled, the timers of a call
and of a cleanup fire, and the closer is polled.  The server, the reader and the
writer are not fair: `close` must end without them.

## 4. Theorems

TLAPS checks these for all values of the constants: any number of processes, attempts,
issues, pages, queries or memories.  They start from the named assumptions of the modules (roles
are disjoint, bounds are naturals, inputs are of their type, at least one attempt).
A theorem that needs more says so: `FailuresStayInBudget` assumes `Lone`,
`CallsLeaveNothing` that no timeout strikes within a cleanup ("slow"),
`NothingLost` that controls are finitely many and ids apart (`FiniteAndFar`),
`AdaptersSound` that a discussion is read as it was counted (`ReadAsCounted`), and
properties that hold for commands that do not overlap say so in their own hypothesis.

None of the properties is inductive alone.  Each module of proofs has one invariant
per theorem, a conjunction of named parts; a lemma that it holds at first, one
lemma per action (or group of actions that move alike) that it is kept, and the theorem.

What is computed over sequences needs induction.  The library's induction takes the
statement as an operator, which no prover here can instantiate; `SetInduction`
(`FoldLemmas`) takes it as a set of numbers, by the least number outside it.  A fold of
the community modules is a chosen function on the subsets of 1..n.  `FoldExists` shows
that there is one, whatever the steps are, and `FoldSteps` takes it apart into
the accumulator after 0, 1, ..., n elements.  A proof about a fold then names the
accumulators and inducts over them.  A fold over a set, whose order nobody knows, is shown
equal to a sum written out (`RiskIsSum`).  A sorted sequence is not built element by
element: `PlacesFill` counts who is before whom, so that each place is taken by one element, and
`ArrangedIs` says what stands where.

A theorem about a property of several components (`RecordsStayFinal`, `FreshFactsAlwaysWin`,
`ScoresAreFair`) has the conjunction of their specifications as its hypothesis.  The components
share no variable, so this is more than the runs explore: there one component moves, here all may.

### 4.1 The dispatch run (`DispatchRunProofs`)

`TypeCorrect`, `ConclusionsHaveOutcomes`, `SuccessIsEvidenced`, `ApprovalIsRequired`,
`AttemptsAreStartedOnce`, `RunImplementsContract` rest on `InductiveInvariant`, which adds:

- `ResolversDecide`: a resolver inside the command knows its decision;
- `InsertsAreEvidenced`: what is on its way to the outcome transaction is typed
  and evidenced, needed because evaluation and insert are apart;
- `UpdatesNeverConclude`: no status write in flight says succeeded, partial or
  failed, so a stale UPDATE cannot forge a conclusion;
- `GrantPrecedesWork`: before a grant the run is proposed or canceled, every process
  rests, and no write in flight can change that, since a launch reads `run.status`
  and not the approval;
- `SenderOwnsEntry`, `NoTurnWithoutEntry`: the supervisor between insert and
  confirmation of an outbox entry is the only one for that attempt.

The argument has four layers, each assuming the ones before: types and evidence,
then outcomes, then the grant, then the turns.  `RunImplementsContract` follows from
the grant layer and from `OutcomeIsFinal`: a recorded outcome never changes.

`FailuresStayInBudget` (`RetriesStayInBudget`) is for one resolver and one supervisor
(`Lone`), with crashes, restarts and any number of submitters.  Its `BudgetInv` says what
each pending status write was validated against (`UpdatesAreWritten`), that the one
decision is taken once (`DecidedOnce`), that submitters have nothing to write before the run
executes (`EarlyIsQuiet`), and that whoever works or may be launched has a failure left
(`FailuresLeft`).  Two supervisors exceed the budget: the first finding of section 5.

### 4.2 The client, comments, packages and memory

`ClientProofs`: `NothingLost` (`NothingIsLostInSilence`) on `ClientInv`, and
`NotificationsAddUp`: what the worker says it skipped is what the queue
refused, a sum over the lag notes still queued, the counter and what the loop has
read (`SumFold` and its like in `FoldLemmas`).  A request is in one place: written, owed,
answered on the wire, or found missing by the timeout of the call; a control's row and its
reply agree by the id the request was sent under.  Ids of calls and of the server's own
questions stay apart because a loop makes a bounded number of calls per
connection, one to resume and one for each control: that is why `FiniteAndFar` has finitely many
controls and the questions of the server numbered above the calls (`AskBase`); where they meet, the
code takes a question for an answer (section 6).

Comments (`PackagesProofs`): `CommentTypeCorrect`, `PostsAreGranted`, `PostedRowsAreTrue`,
`FinalsAreEarned` from `IInv`: a process in the middle of a command
names a row (`JobNamesItem`), a process that may post holds a grant
(`WorkIsGranted`), a row that reads approved, failed, retried or posted was granted
(`StatusIsGranted`), a process that is about to record success has posted
(`SuccessIsOnGithub`), and a row's basis passed the policy (`BasesAreEarned`).
`DuplicatesAreRefused` (`OneActivePerType`) and `RejectionsStick` from `SerialInv`: rows are
numbered in order, so an insert hits no row, and until commands overlap what a command
read is still so at each of its statements (`StillSo`).  Overlapping operators violate
both: the duplicate check and the insert are two statements, and approve and reject do not
look again at what they resolve.

Packages (`PackagesProofs`): `PackagesAreGated` (`ReviewsGatePackages`), `SendsStayDecided`,
`ImportsKeepTheStatus`.  `PackagesInv` says what a clerk at each statement knows
(`ClerksKnow`) and has copied (`ImportsProgress`), that a granted review is an approved
row (`AllowedExists`), and what is not stale while nothing overlaps (`NothingIsStale`).

Memory (`RecordsProofs`): `HintsObey` (`HintsFollowTheUser`), any number of outcomes, dreams and
curators.  `MemoryInv` adds that a status which leads into a ranking, or into which a
restore can lead back, once was an approval (`ApprovedOnly`), what a curator between two
statements has learned for good (`CuratorsLearned`), and what is still as it was found until
two commands overlap (`NothingChanged`): a forgetting silences the dreams behind it one by one.

### 4.3 The decision transport (`DecisionTransportProofs`)

Six theorems, each on the invariant of the one before:

- `CloseWaitsForWork` rests on `LeaseCoversWork` (who has no lease has nothing to do and
  nothing to clean up) and `NoLeaseAfterCount`;
- `TurnsAreAcceptedOnce`: a `turn/start` is in one place - not asked, queued once, owed or
  answered (`StartInv`) - because an attempt that was answered with a rejection
  must not still have a copy of its request in the writer's queue; and every
  attempt before the current one was rejected (`TriesInv`);
- `NobodyWaitsForever` (`NoWaiterIsForgotten`): who waits has his request registered until its
  answer is there (`WaitInv`), and a closed session has nothing registered and has
  marked every subscription it routes (`ClosedInv`);
- `NoEventIsMissed` (`EventsComplete`): a thread is named once, by the one answer to its
  `thread/start` (`NameInv`); then what the subscriber has read, what is queued for it, what came
  early and the request being refused are, in this order and without a gap, what the server
  emitted (`CountInv`); the reader holds one request at a time (`ReaderInv`);
- `FailuresWake`: a part of `CountInv`;
- `CallsLeaveNothing` (`TurnsAreCleanedUp`), without slow cleanups: a thread with a turn is
  known to its attempt, and an end that the attempt was told of is one (`TurnInv`); what a cleanup was
  told by its interrupt or its read (`ToldInv`) and what it has seen to at each of its steps while the
  session is open (`StepInv`), where a cleanup that gives up on a thread needs that no answer can name it
  any more (`Mute`); who ended has a cleanup, and what is waited for belongs to one that is not done
  (`LeftInv`); early events are kept only while a thread may be named (`EarlyInv`).  A cleanup whose
  own timeouts strike may leave a turn running: the code ignores what it awaited and goes on.

### 4.4 Judging, scouts, feedback and value (`JudgingProofs`)

`PolicyAgrees` (`PolicyAgreesWithItself`) and `OnlyFreshFactsClear` are facts about
the policy's functions for any repository, answers and snapshot; the state adds only types.

`FeedChecked` (`FeedIsCheckedAndFair`), for any lanes without repetitions, limits and scores, on `ScoutInv`:
no issue is ranked twice, nor waits to be ranked again (`RankedOnce`), nor is on
the page twice; what the two fallbacks took and may
still take stays within the limit they share (`Spent`); what was read at last is marked so, and what
was checked was read at last (`Watched`); the page is one the selection may return (`PageKept`,
by the accumulators of its two folds), or, when it was returned, that page in another order, so that
its size, its shares and its checks stay and its places for missing evidence do not.
The step that needs an argument is from the last recheck to the
page: the recheck ends when everything a page would show is checked, then everything is
ranked once more, and the page is taken from that.  `RankingAgain` shows that ranking a ranked
feed from the same log changes nothing, so it is the same page, unless feedback arrived
in between (`stirred`): the property makes that exception too.  `DismissedIsHidden` is about that
feedback: what is dismissed before the last ranking is not on the page of a legacy scout.  With
`OnlyFreshFactsClear` it makes `FreshFactsAlwaysWin` (`FreshFactsWin`).
`JudgementsAreTrue` (`JudgementsAreSound`), for any number of screenings, providers and lifetimes:
what a cache keeps was so at the minute it was fetched, and a snapshot answers the question it is
filed under (`KeptInv`); the material of a call is at most one lifetime of a source older than the
call, though it was put together from caches of different ages (`CallsInv`).

`AdaptersSound` (`AdaptersAreSound`), for any vocabulary, limits and discussions.  The most likely
choice exists and is one of the question's (`SomeLikeliest`); a mapped answer keeps the
question's contract (`MapAnswerKeeps`, `DecideKeeps`); the account is the one the precedence
says (`ThatAccount`); and a sample that is called whole is whole, by the accumulators of the fold that
clips the comments: what is left of the limit and what was cut (`Clips`, `WholeIsWhole`).  The
hypothesis `ReadAsCounted`: comments are counted when the issue is read and are
read later.  If new ones arrive in between, and the newest, as many as were counted, fill
`CommentsLimit` to its last character, the sample is called whole though older ones are missing;
the theorem leaves that corner out.

`FeedFollows` (`FeedFollowsTheUser`), for any items, prospects, causes and clocks, on `FeedInv`
(`StampsApart`): every event has a time of its own, because a day of the model's clock has room for
all events that can carry it (`FeedbackAssumption` bounds them).  So the log has one order (`SomeOrder`, by insertion),
`ByTime` is it, and the last event of an issue is well defined.
That the last word counts is a statement about the legacy policy:
the exposure policy is meant to ignore dones and dismissals (`README.md:140`-`142` of the repository).
On the board an issue that was put away and never came back (`CameBack`: restored, or seen with news,
after it was put away) is not offered; one that came back once is no part of the claim, as the code
keeps offering it (section 5).  The two folds are taken apart by
`FeedFold` and `BoardFold`: after k events the state is what the last decisive event among them
said (`SaidUpTo`), and what a board calls reactivated has its cause among the events (`Caused`,
`CauseGrows`).  In the code times may tie, and then the id of an event decides; the model gives each
event its own time, so ties are one of the orders it explores.

`ValueCoherent` (`ValueIsCoherent`), for any growing thread: what a text is marked for
accumulates (`OpinionsKept`), so a competitor or an assignment that was seen hides the issue at every later
stage (`TakenHides`), an issue called ready is free (`ReadyIsFree`), and the fit moves by depth
only (`FitByDepth`).

`ScoresAreFair` (`ScoresMoveTheRightWay`, of actions) has three parts.

- `LookingNeverPays`: what is known of the issue is older than now (`FactsArePast`), so an event
  recorded now is the last in time and the new state is the old one with that event
  (`StateGrows`, though the log is sorted before it is folded).  It adds one to its own count and sets
  the stamps (`LookedAt`); a count is capped, its decay starts anew, and facts that were new are no
  longer so: the boost falls by no less than the penalty may recover (`LookingGainsNothing`).
- `OwnCommentsChangeLittle`: an assessment reads of a thread its markers, what others say, who answered and
  whether there are twenty comments (`ReadAlike`); the tool's own comment leaves all of them
  (`OwnIsNotRead`), so category and visibility stay.
- `CompetitionCosts`: what is shown has no open pull request and no marker (`ShownIsFree`), so its only rivals
  are closed pull requests, and the only step that adds one to an issue shown before and after is
  `MentionClosed`.  It moves the band one further at most (`OneMoreRises`), and the category
  down, to another whose anchor is lower by more than a rank may gain, or with the same weights
  (`CategoryFalls`, `RankFalls`); the risk is a sum over the tags and gains (`RivalsAreRisky`); what
  is shown was penalised and never hidden, so its penalties are those of its tags
  and its crowd (`ShownIsPenalised`), and do not fall.

### 4.5 GitHub (`GithubProofs`)

`SearchesAreComplete` (`PagesAreComplete`), for any number of results, page size
and limits.  `SearchInv`: a call that reads page p has read, with the calls before it, the
pages 1 to p - 1 (`ReadingInv`), and what is filed is a page in full, so that a page that is not full,
or ends at the total, has nothing behind it (`NothingBehind`).
`EnrichmentsAreHonest` (`EnrichmentIsHonest`): an enrichment in the making lacks its
timeline until it is read; from its comments on it has them, counts none in the details it read, warns of
them, or has said that both reads failed (`Honesty`), in the caches too, and a completion keeps what the
enrichment before it knew (`Kept`); the requests in flight and those sent are at most those
reserved (`Reserved`, by the cardinality of the tasks in flight).
`LanesAreHonest` (`LanesHonourAgeAndLimit`, of actions): a lane's file holds what was open when it was
fetched (`FilesInv`), the part of a lane that was read is of the present call (`PartInv`), and a call
that was refused has no search left to ask (`RefusedInv`).
`SnapshotsAreHonest` (`AvailabilityIsHonest`), for any issue, timeline, pull requests and limits.
`SnapInv`: each fact is GitHub's or unknown (`FactsInv`); a timeline that is called complete was
followed to its end and all it refers to became leads (`TimelineInv`, `LeadsInv`); what is said of a pull
request is so, or says that it could not be read (`PullsInv`); and coverage is complete only when no lead
was cut off (`LinkedInv`).

### 4.6 Files, recalls and tools (`RecordsProofs`)

- `HomeFilesAgree` (`HomeIsConsistent`), `HomeItemsAreKept`: `HomeInv` has, whatever overlaps,
  how far each handoff is written and by whom (`HandoffInv`); until commands overlap, that the command
  that saves has the temporary file and the index to itself (`AloneInv`); and until one
  died, that who archived an issue has said so in the log or is about to (`ToldInv`).
- `RecallsAreAccounted` (`RecallIsAccounted`): until writebacks overlap, what is stored is what is
  recorded, plus the one step in hand, plus one for each death (`AloneRecall`); and the
  penalty of a spent resource is less than an entity is worth, whatever overlaps
  (`NothingIsExhausted`).  `ForgottenStaysAsItWas` (`ForgottenIsLeftAlone`): what a writeback has in
  hand was not forgotten (`NothingForgotten`), and what an activation ranks are memories it
  recalls, which leaves out the forgotten; both until commands overlap.
- `ToolsAreTrue` (`ToolsKeepTheirWord`): what a call carries through its steps is what the gate
  let through, and a worker's capability names a package (`ToolInv`).
- `RecordsStayFinal` (`RecordsAreFinal`): `RejectionsStick`, `SendsStayDecided`, `ImportsKeepTheStatus`,
  `HomeItemsAreKept` and `ForgottenStaysAsItWas` together.

### 4.7 Checked by TLC only

Every invariant and every action property that a passing run checks is a theorem.  Four properties
are not: `SupervisorExits`, `ApprovedRunConcludes`, `ControlsMove` and `CloseEnds` are liveness under
fairness, which is out of the prover's reach.  That the violated properties of section 5 are violated is
shown by TLC's traces.

## 5. Where the code disagrees with its documentation

1. `two_executors`: `record_runtime_error` puts a run back from starting to approved
   on any error, also when the supervisor lost the claim.  The next launch executes a
   run that is being executed (`supervisor.rs:236`; `tests/dispatch_store.rs`:
   `dispatch_execution_claim_is_single_winner`).
2. `exhausted_verdict`: the last unproven success is judged failed, and the validator
   refuses a failed outcome whose candidate says success (`runtime.rs:457`).
3. `comments_dead_end`: a retry writes `retried` before it reads what it
   needs, and no command takes a retried row (`github_projection.rs:224`).
4. `transport_unsubscribed`: the response to `thread/start` is handled between the two
   looks of the cleanup, which then believes there is no thread
   (`transport.rs:494`-`511`); it needs a cancellation in the same instant.

Met while modelling and kept out of the runs, which the first four fill; no property
here depends on them:

- The cache key of a repository's label lane does not name the repository
  (`github.rs:1983`, used at `913`), so within its lifetime a scout restricted to one
  repository is answered with the issues of another; `cli.rs:144` says "Restrict
  recommendation discovery to one repository."  `DiscoveryLanes` has the key as it is:
  `Scoped` leaves the repository out.
- Under the exposure policy a dismissed issue loses score and is not hidden
  (`recommendation/engine.rs:191`, `state.rs`), where `cli.rs:226` says "Hide an issue from
  future recommendation feed results."
- A failure after a run entered Running leaves it there for good, where `dispatch/supervisor.rs:236` means
  to make it launchable again; and a handshake without an answer keeps its supervisor beyond
  the time budget (`client.rs:411`-`417`, `protocol.rs:131`).  The run `supervision` meets both, and
  `ApprovedRunConcludes` and `SupervisorExits` name them.
- `scout` sorts the page it selected and recorded once more by score (`recommendation/engine.rs:254`-`257`),
  so issues that the selection kept off its first places for missing evidence may come back on top;
  the test at `recommendation/competition_completion.rs:266` looks at the selection alone.  `ScoutRound!Return` is
  that sort.
- When details and comments of an issue both fail and its timeline is read, it counts no comments and its
  competition carries no warning, whatever GitHub has (`github_enrichment.rs:831`-`839`, `873`-`882`).  The
  run `github` meets it, and `CheckedMeansRead` names it.
- An issue that was dismissed, restored and dismissed again stays on the board and is offered: the flag of its
  return is not taken back (`candidate_board.rs:310`-`313`, `368`-`417`), though the last word puts it away.
  TLC shows it when `HiddenIsNotOffered` is stated without `CameBack`.
- Suppressing a scope a second time returns the existing hint as it is, also when it was
  restored in between (`memory/commands.rs:304`).
- `deliver_ready_responses` reads the ready answers of every run and sends them on its own
  connection (`protocol.rs:82`).

## 6. What is not modelled

Inside the modelled parts: fields nothing reads back (pids, timestamps, reasons), run
events and memory signals, the append-only decision log, bodies and texts, A2A imports
(they enter `commit_terminal_outcome` like a submitter), two runs of one task;
initialisation of a session, back-pressure of pipes, server requests
without a thread; what git does in a workspace; what a text must say to be counted as
a marker, a topic or a claim; the contents of HTTP payloads.  One early buffer is shared by
all threads of a decision session: the events of one candidate can fail the session of
all others.  TLC shows it; as nothing in the repository promises otherwise it is a
hazard and not a finding.

Further hazards that no property is about:

- a session that failed stays in the `OnceCell` (`decision/codex.rs:97`), and the reader
  awaits the writer to refuse a request (`codex/transport.rs:681`);
- a second interrupt of a run is never queued, as its outbox id is fixed
  (`dispatch/runtime.rs:554`); a server request whose id equals a pending call's is taken
  for its answer (`client.rs:339`; the models keep the two apart by `AskBase`);
- `update_issue_task_status` is unconditional (`dispatch/store.rs:288`): the approval of a
  second review takes a concluded task back;
- a failed refresh overwrites a completed snapshot (`decision/mod.rs:227`);
- an unreadable event log ranks the feed as if nothing had been said
  (`recommendation/engine.rs:1107`);
- a newer proposed run hides the active one of the task (`candidate_board.rs:509`);
- a second preparation that fails on the same day replaces a ready item
  (`inbox.rs:96`); the issues of a repository share one workspace (`workspace.rs:48`);
- the completion of a timeline takes a cached enrichment of any version
  (`github_enrichment.rs:964`).  It is an older one only if the write of the enrichment before failed;
  `AnsweredAsAsked` excepts that case, which the bounds of the run `github` do not reach and the theorem covers;
- a recheck that failed may move an issue that was known to be taken to scoping, which the gate lets through
  (`prepare_gate.rs:17`), with its incomplete checks said; `ClearedByFreshFactsOnly` forbids ready and niche;
- whether Codex took a turn it answers with -32001 or `httpConnectionFailed` (`codex/transport.rs:86`-`98`) is its
  word: the model takes both for refusals, which the retry of the code relies on;
- the dispatch tools classify errors by their texts (`dispatch/tools.rs:312`).

Where commands overlap the code promises less, and so do the properties.  Two drafts of one kind
(`github_projection.rs:136`), an approval over a rejection (`packaging.rs:145`, `github_projection.rs`
`resolve`), two writers of one temporary file (`paths.rs:155`) and two recalls of one memory
(`writeback.rs:95`; the run has one reader) are in the models, or allowed by them, and break
`OneActivePerType`, `RejectionSticks`, `SendsAreFinal`, `ItemsAreKept` and `IndexIsReadable`, which therefore end with
the first overlap.  They are about deaths, failures and long sequences of commands and not about races.  What is
claimed whatever overlaps: `PostNeedsGrant`, `PostedIsOnGithub`, what a package needs, that a prepared
item can be imported, and that a hint in force was approved.  The words that `ValueModel` tells apart in a text are
those its markers, topics and claims are made of; most of its properties need fewer.

Parts that are not modelled, and why: `context_pack`, `evidence_pack`, `repo_scan`,
`probe` and `handoff` render files and run subprocesses, and keep no state that is read
back; `dispatch/timeline`, `output`, `tools`, `tool_outputs`, `tool_specs` and `report`
are projections and JSON shapes; `config`, `cli`, `main`, `profile_bootstrap`, `llm`,
`llm_review` parse, prompt and print; `recommendation/eval`, `agent_loop_eval`,
`codex_runtime_eval`, `recovery_eval`, `memory/eval` are offline harnesses over fixed
data; `discovery` and `readiness` score texts by keyword lists, `memory/graph`, `ingest`
and `index` map payloads to rows: nothing in them waits, fails half-way or is shared.

## 7. What would come next

| Step | Content | Main properties and theorems |
|---|---|---|
| 1 | `DispatchRun` with two runs of one task | the task's status is the last conclusion's |
| 2 | the A2A import and the memory's ingestion | an imported result is evidenced like a submitted one |
