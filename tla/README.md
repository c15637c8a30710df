# WorkPilot Agent: TLA+ models and proofs

WorkPilot Agent answers operations questions: a user or an alert source submits a
task, a planner and a set of agents investigate it with read-only tools, and a task
whose plan touches a high-risk tool waits for a human decision.  Tasks survive process
restarts: they are rows of a MySQL queue that independent worker processes claim.

This directory models how a task is submitted, queued, executed, published and
approved where several processes share rows of that database; what happens inside one
execution: the graph workflow, the investigation by parallel agents with its evidence
and its claims, and the tool calls through one shared client; what browsers are told
of it: event streams, reopened runs, reviews and the console page; and what stands
beside it: the knowledge base, the questions put to the database, and the programs that
evaluate and compare the agents.  It checks the models with TLC and proves the central results with TLAPS.

## Inventory

| Component | State | Operations | Interacts with | What is hard | What makes it correct |
|---|---|---|---|---|---|
| Durable queue (`services/durable_queue.py`, `models/durable_job.py`) | `durable_jobs`, `durable_job_attempts` | `add_job`, `find_submission`, `claim_next`, `renew` | HTTP submission, workers | optimistic claims, leases, retry limit | one owner at a time, consistent ledger, unsafe jobs run once |
| Attempts (`services/durable_attempt.py`) | private `agent_runs` row per attempt | `start_attempt`, `publish_attempt`, `fail_unstarted_attempt` | queue rows, approval checkpoint | publication from a snapshot, late workers | only the lease holder publishes; the public run is one attempt's result |
| Worker (`services/durable_worker.py`, `scripts/run_p3_worker.py`) | current claim, heartbeat thread | `run_one` | queue, attempts, adapter | dying between transactions | every submission settles |
| Agent adapter (`services/durable_agent_adapter.py`) | none | `execute_attempt` | investigation or specialist graph | re-routing of a retried task | a retry-safe task never reaches a tool with side effects |
| Durable views (`services/durable_access.py`) | stream cursor | `sync_published_approval`, `stream_progress` | root run, job, published run | concurrent repairs, several attempts | the public result is the private one; events in order |
| Approval (`services/agent_service.py`, `services/approval_lock.py`, `specialist_agent_service.py`) | run, checkpoint, advisory lock | approve, reject, cancel | graph, recovery, views | races, crash after the claim, lock loss | the tool runs at most once, and only if approved |
| Recovery (`services/approval_recovery_service.py`) | none | reconcile at API start | checkpoint, run, lock | runs beside live approvals | never disturbs an active approval, never replays |
| HTTP submission (`routers/agent_router.py`) | idempotency digest | create, stream | queue, broker | concurrent first submissions | one job per key |
| Alerts (`services/alert_service.py`) | `incident_submissions` | enqueue | queue | duplicate delivery | one run per event |
| Collaboration (`services/investigation_service.py`) | review, note history | update review | runs, console | concurrent editors | no lost update, gapless history |
| Investigation (`services/multi_agent_*.py`, `agent/diagnostic_agents.py`) | budget, task results | rounds of parallel agents | tool registry | shared budget, partial failure | bounded tool use, evidence checked |
| In-process runs (`services/agent_async_service.py`, `run_event_service.py`) | event buffers | publish, stream | HTTP stream | trimming, subscribe race, restarts | a stream tells what became of the run, and ends |
| Workflow (`agent/graph.py`, `nodes.py`, `risk.py`, `planner.py`, `analyzer.py`) | graph state, run, checkpoint | the nodes, finish, wait, resume | registry, approval, trace | a plan resumed by another thread, failing steps | no step of a high-risk plan without approval; answers tell what happened |
| Specialist handoff (`services/specialist_agent_service.py`) | none | dispatch, hand back | workflow, trace | a commit after the run is decidable | an approved run ends |
| Trace (`agent/trace.py`) | numbered events of a run | record, persist | every node | several recorders of one run | one event per number, none lost |
| Tool registry (`tools/registry.py`) | audit rows | `call_tool` | tools, MCP | failure after success, retries | the audit row says what the caller was told |
| MCP client (`mcp/client.py`) | queue, worker thread | connect, call, close | MCP server | timeouts, late answers, shutdown | no caller waits for ever or gets another's answer |
| Knowledge (`retrieval_service.py`, `ingestion_service.py`, `retrieval/`) | documents, logs, cached index | search, import | registry | stale cache, overlapping imports | answers from the corpus of the search's snapshot, idempotent imports |
| Text-to-SQL (`text2sql_service.py`, `security/sql_guard.py`) | none | generate, repair, execute | LLM client, database | the second attempt, names and aliases | nothing the guard refuses is executed |
| History (`run_history_service.py`) | none | detail of a run | trace, audit rows | records found again by matching | a reopened run is the run that was saved |
| Experiment (`eval/run_dataset_experiment.py`, `audit_dataset_run.py`) | files of a batch | run, judge, summarize, resume | agents, judge | killed between two files | every arm once, a summary that is true |
| Paired comparisons (`eval/w4_fixture.py`, `incident_replay.py`) | evidence and answers of two arms | run an arm, compare | agents, registry, fixture or live client | calls the registry refuses, pooled branches | what is compared differs in the variant alone |
| Comparison with models (`eval/model_comparison.py`) | meter, `raw.jsonl`, summary | run a line-up, summarize | model, fixture | branches that share a meter | no arm exceeds its budgets |
| Suites (`eval/phase22_ab.py`, `runner.py`) | result files, what the application calls | run, inject, judge, compare | the agent's API | files of many batches, faults that stay | like is compared with like, a verdict is its case's own |
| Console (`frontend/app.js`) | one `state` object, the review form | what a user clicks | the HTTP API | answers that come late | what is shown belongs together, nothing stays blocked |
| Access, router, LLM client, smoke and seed scripts | per request | straight-line | | | not concurrent |

The hazards found in this code, each at its line, are listed in `PROJECT.json`.

## Modules

| Module | Models |
|---|---|
| `DurableTask` | queue, attempts and worker of every durable task |
| `TaskOutcome` | what a durable task promises, without queue, lease or worker |
| `Approval` | the life of one task published as waiting for approval |
| `Submission` | how run, job and incident come into being, once per key or event |
| `Investigation` | supervisor, parallel agents and budgets of one multi-agent run |
| `Diagnosis` | what one multi-agent run finds, claims, reports and saves, and its reopening |
| `ToolCall` | the tool registry over the MCP client and its one worker thread |
| `Workflow` | one run of the graph, its decision, its trace and its handoff |
| `RunStreams` | an in-process run, its bounded event history and the streams that read it |
| `DurableStream` | the progress stream of a durable task over its attempts |
| `Review` | the versioned reviews of finished investigations |
| `Console` | one page of the console, in the middle of the other reviewers |
| `Knowledge` | batch imports and the search over a cached index |
| `TextToSql` | one question: generation, guard, repair, execution |
| `Experiment` | a resumable batch of the dataset experiment and its audit |
| `Comparison` | one pair of arms of the offline comparison or of the live replay |
| `ModelArms` | the comparison of arms whose decisions an online model takes |
| `Suites` | the A/B batches and the suites that judge the agent from outside |
| `MCDurableTask`, `MCApproval`, `MCInvestigation`, `MCWorkflow`, `MCPublicApi`, `MCData` | instances for TLC |
| `DurableTask_proofs` | proofs about `DurableTask`: its types, inductive invariant, safety and step theorems, and the refinement of `TaskOutcome` |
| `PublicApi_proofs` | about `Submission`, `Review` and `Console` |
| `Reviewer_proofs` | about `Approval`, `RunStreams` and `DurableStream` |
| `Investigation_proofs`, `Workflow_proofs` | about the module they are named for |
| `Tools_proofs` | about `ToolCall`, `TextToSql` and `Knowledge` |
| `Evaluation_proofs` | about `Suites`, `Experiment` and `Diagnosis` |
| `Arms_proofs` | about `ModelArms` and `Comparison` |

### DurableTask

Variables are the tables (`job`, `attempt`, private runs `child`, public runs `root`)
and what a worker remembers between two transactions (`pc`, `seen`, `claim`, `read`).
`issued` counts the uuid tokens drawn for a job, so a token is a number; `granted`
stands for the memberships and grants `resolve_run_scope` looks up.

A transaction whose effect rests on one conditional `UPDATE` is one action.  Where the
code reads first and writes later the transaction is split, because MySQL's
REPEATABLE READ lets everything in between happen:

* `claim_next` is `Select` (candidate query and clock) followed by `ClaimLost`,
  `ClaimTaken` or `ClaimExhausted`, whose guard `CasHolds` is the `WHERE` clause
  evaluated on the current row.  The error paths are in `LedgerAllows`: an action that
  would raise is disabled there, and `LedgerNeverFaults` says this never happens.
* `publish_attempt` is `PublishRead` followed by `PublishWrite` or `PublishFenced`.
  The checkpoint it reads `FOR UPDATE` keeps `RecoveryWrites` out meanwhile.
* The recovery of a checkpoint is `RecoveryReads`, in a snapshot that locks neither run nor
  checkpoint, and `RecoveryWrites` (or `RecoveryStops`), which writes by primary key
  whatever happened since.  A worker may fail the run, and even publish it, in between; so
  `PublicResult` says no more than `Shows`: the public row is the private run, or what that
  run was before a recovery failed it for its expired checkpoint.
* `execute` may commit a result and raise afterwards (`ExecuteCommit`, `ExecuteRaise`).
  `run_one` overwrites an invalid result and publishes again (`InvalidResult`).

Time is relative: `job[j].lease` is the number of ticks left.  A claim being made
carries `seen[w].left`, which ages as well, because `lease_until` is computed from the
instant of the first read.  `Crash` ends a worker between any two transactions; it
also stands for an exception that escapes `run_one`.

`TaskOutcome` is the promise: executions begin, at most one for a task that must not
be repeated; then exactly one outcome appears, the newest execution's or a failure
that says why there is none.

### Approval

Lock, checkpoint, private run, public run and job belong to one task, so one task is
modelled, beginning at its publication.  Requests, recoveries and readers are separate
actors; a request carries its action, reads a snapshot (`Check`), claims with the
conditional `UPDATE` and records the decision (`Claim`), lets the restored graph run
the tool (`RunTool`), writes the result (`Finish`), and repairs the public run in a
second transaction (`CloseRead`, `CloseWrite`) that may never come.  Recoveries run
whenever an API process starts.  `LoseLock` breaks the connection that holds the
advisory lock, and only that connection.

### Submission

The committed tables are `runs`, `jobs` and `incidents`; a request's open transaction is
where its handler stands (`req`).  `existing()`, called before and after the attempt to
insert, is `Look` and `Relook`; the second reads after a rollback, so it sees what
committed meanwhile (`ExistingAfterRollback`).  The unique indexes are modelled as the
database keeps them: an insert waits while another open transaction holds its key
(`HoldsJob`, `HoldsIncident`), and fails once that has committed.  An alert inserts two
rows with different keys: two members who deliver one event do not meet at the job but
only at the incident.  `Fail` rolls back anything uncommitted, and a client sends again
whatever it was answered.

### Investigation

Branch `s` is the thread that investigates service `s`, branch 0 the follow-up query
the supervisor runs itself; `branch[b].pc` follows `investigate_service` from one shared
access to the next (stop event, budget, event queue).  What tools return and models
answer is open, with the checks `decide` makes.  A deadline is modelled by what a look
at the clock may say: once a branch has seen its deadline pass it keeps seeing it.  The
supervisor's loop is split at `wait()` (`Wait`), the drain of the progress queue
(`Drain`) and the collection of the futures that wait returned (`Collect`), because
branches run between these.  A branch that has ended keeps only its outcome.  The text
of findings, the review of single claims and the wording of a branch's stop reason are
left out; what the model names as a gap never collides with the log gap.

### ToolCall

A caller is a thread that runs an agent: it goes through `call_tool` with its audit row
(`Open`, `Answered`, `Fail`), and below it through `_submit`, which puts a request with
a future of its own on the client's queue (`Put`) and waits with a timeout
(`TimesOut`).  The worker thread connects, takes one request at a time and resolves its
future (`Take`, `Serve`); it may fail to start or break at any time and then fails what
is queued (`FailPending`).  `Close` and `Shutdown` run while callers go on.  A timed-out
request stays queued or goes on being served, as in the code; what was served late is
kept in `served`, so that the properties can say whom it reached.  `Again` is the one
retry of an investigation after a connection failure.  The server and the tools behind
it only answer; a commit that fails leaves nothing in the database.

### Workflow

`at[t]` is the node a thread is about to run, `graph[t]` the state the nodes pass on and
`rec[t]` the events its recorder has numbered but not committed.  A node is one action,
with the route that follows it.  What the user asks for is reduced to mode, services and
whether a model is configured; the keyword rules of the router become a free choice of
intent, while the plans each intent can get (`Plans`) are the planner's.  The creator and
the approver share only what is committed: run, checkpoint and trace.  Both execute
the same graph; the approver's starts at `approval_decision` from the stored state
(`Restored`).  The in-memory interrupt is never resumed in place, so the code behind it
(nodes.py:87-100, agent_service.py:300-316) is not modelled.  A trace event's place in
`trace` is its number; a commit whose number was taken meanwhile fails (`Clash`), which
is what the unique constraint does.

### RunStreams

The other half of `POST /agent/runs/async`: a run executed by the API's own thread pool.
`row` is the run in the database, `task` the request that creates it and then its executor,
`log`, `sequence` and `closed` are the broker's buffer, next number and `_terminal_runs`.
The handler of a stream reads the row (`OpenStream`), gives up its session, asks whether
there are events (`CheckEvents`) and publishes an end of its own if there are none
(`Announce`); these are three steps, and a run may start or end between them.  `Deliver` is
one round of `stream()`, which reads what is pending and whether the run ended under one
lock.  `Restart` loses broker, executor and connections but no row; a client may come back
with the number of an event it saw.  A heartbeat changes nothing and is no action.

`StartRun` has a way out that tells nobody: agent_async_service.py:50-62 catches the
`ValueError` of the scope check only, so a database error there, or in the commit that fails
the run, leaves `task` "escaped", the row running and no terminal event.  `EveryStreamEnds`
says that no other stream stays open.  A run that waits for an approval has ended for its
executor only: `TakeApproval` and `EndApproval` are `resume_agent` for a run without a job
(agent_router.py:329-373), which moves the row on, before or after the terminal event, and
publishes nothing.  So a stream's "waiting_approval" means that an approval was asked for,
and the row may have gone on since; its "completed" stays true.

### DurableStream

`stream_progress` polls the database: `Poll` is one round with its own session, in which
the scope is resolved again, the public run repaired, the attempt to show chosen (`Shown`)
and the trace read behind one cursor.  Of the ledger only what the stream reads is kept;
workers may go on recording after they lost their lease (`writers`), and an approval may
resume the published run.  Event ids of all runs come from one sequence, as in the code.

### Review

`review` and `notes` are the two tables, `patch` the handler of each reviewer's request.
Checks come first, in the code's order (`Refusal`), then the conditional `UPDATE` or the
insert of the first version (`WritePatch`, which waits for a row another open transaction
has written), then the note and the commit (`CommitPatch`).  Both unique constraints are
there: `VersionFits` and `NoteFits`.

### Console

`page` is the `state` object of `app.js` and the review form on the screen, `flight` the
requests under way, each with what the code after its `await` remembers: the team and the
case it was sent for.  A click (`Login`, `SelectTeam`, `OpenRun`, `OpenTab`, `Refresh`,
`SaveReview`, `Act`, `Logout`) or the continuation of an answer (`Resume`) is one step, for
JavaScript runs to the next `await`; answers arrive in any order and an answer computed by
the server may reach the page much later.  The page is one of the `Reviewers`: its saves
go through `Review` and meet those of other pages.  Whether an answer is dropped is
decided by the comparisons the code has (`StillTeam`, `StillShown`) and by none where it
has none: `openHistoricRun` and `loadRunHistory` do not look at the team again.

### Knowledge

Every import and every search is a session: it sees the rows of its first query, and its
own become visible at the commit.  `BeginImport` reads what exists, `FlushImport` locks
what it updates and stamps the time, `CommitImport` and `RollBackImport` end it;
AUTO_INCREMENT is not rolled back.  Searching is `ReadVersion` and `SearchIndex`, with the
process-wide cache between them.  Two properties have exceptions the code really has, and
the model names them: `raced` is the set of sources two imports were open for at once (no
constraint refuses the second, `ingestion_service.py:68`), `late` says that an import
committed what it had stamped before another one's commit.  The application only reaches
the cached search through a tool call with a team, which takes the team's own uncached
search (`SearchTeam`); both are modelled.

### TextToSql

A statement is what the guard looks at in its syntax tree: tables with aliases and
qualifiers, outputs, columns, functions, limit and offset.  `Verdict` is the sequence of
its checks.  A tokenizer error of sqlglot is none of them: sql_guard.py:88-91 catches
`ParseError` only, so it ends the question without a verdict (`GuardRaises`).
`QueryIsAllowed` is about the columns the guard looks up (`LookedUp`), under the database's
rules for names (`Read`).  It says nothing of a name without a table that is also an
output's alias, which the guard takes for that output (sql_guard.py:175-176), nor of the
columns a NATURAL JOIN or a USING list compares, which are no column nodes of the tree.
Generation, the one repair with the refusal quoted in its prompt, the failures of the
model call and their trace events are actions.  sqlglot's parser is external.

### Diagnosis

`Investigation` is about the threads; here a branch's whole call is one step, and what it
found is followed to the end: evidence in the order of the merge, the claims a model or the
rules make of it, their review, the run's status, the saved trace and the run as
`run_history_service.py` builds it again from trace and audit rows (`Detail`).  A record is
the number of the call that read it, a claim is what it cites.  At most ten facts are
proposed, recommendations follow the claims and are left out.  A failure between the saved
trace and the saved result, which leaves a verdict in the trace of a failed run, is not modelled.

### Experiment

`files` is one result directory, `process` the batch that works on it.  Every file the code
writes is a step of its own, and `Crash` may come between any two, or leave a line torn.
`StartBatch` compares the manifest; `RunArm`, `AppendRecord`, `JudgePair` and `AppendGrade`
are the loop, which skips what the files already hold.  A torn line makes every later
resume raise, a crash between `manifest.json` and `dataset.json` leaves a directory without
the data set: the model has both.  Two processes on one directory are not modelled.

### Comparison

One pair: `bench` is the arm that runs, `outcomes` what is kept of those that ended.
`SingleCall` is the single agent, one cursor over the services; `BranchCall` is
`execute_multi_agent_run` without models in one of its five variants, whose pool calls the
branches in any order, and `Merged` its merge.  Every call goes through the registry
(`Answer`), which resolves the scope of the run first.  The fixture's session is a mock that
grants no service, and the replay prepares its runs without a team: every call that names a
service is refused, and in the replay every call.  So only the handbook is read (`Handbook`,
with the fixture's faults), a log search never comes back empty or breaks its connection, and
the follow-ups and retries of both arms have no step here; `Investigation` and `Diagnosis`
have them.  A database that fails while the scope is read ends the program (`ReplayAborts`).
The shared budget of nine never refuses, as three services have three attempts each.

### ModelArms

EXTENDS `Comparison` for tools, arms and the rule for the next tool.  `arm` is the variant
that runs, with one job per service; what the model decides is open (`Decides`), and it may
fail (`DecisionFails`).  The registry refuses log and ticket searches here too, after which
the model is asked all the same.  `meter` is `BudgetedModel`: under its lock a call is refused
or reserves what it may cost (`Spend`), before it is sent; what it did cost is recorded when
the answer comes (`Metered`), at most what was reserved, because a token has at least one
byte.  `wire` is what reaches the fixture.  Its requests carry the run, as the proxy adds
`run_id` to the arguments (`Request`), so two arms never share one: `PairOf` finds nothing in
common, and no property is stated about it.  Deadlines may pass at any time (`Late`).  With
the program's numbers the limit of characters never binds (64 000 bytes of tokens are fewer
than 96 000 characters); it is kept as the code checks it.  `RunArm` of `Experiment` stands
for such a run.

### Suites

`results` are the files of `phase22_ab.py`, `tree` and `config` what is checked out and
configured, `app` what the application under test calls, `harness` the program that runs.
A batch writes a file per case (`SaveResult`) and may be killed while it does (`KillAb`);
`Compare` pairs the files of both variants by position.  The representative suite replaces
registry or analyzer before each case (`Injected`) and judges the answer (`CaseSucceeds`),
which is open within what the fault allows (`SuiteAnswers`).  The suites of one component
(`StartComponents`, alone or all four) judge their cases one after the other: an answer of the
component counts in the respects its suite compares (`ComponentVerdicts`).  `Checkout` and
`Configure` come between programs only: a running one has read both.

### How they fit

A committed `Submission` is the initial state of `DurableTask`: job and public run
exist together (`SubmissionIsWhole`), the job queued without an attempt; its in-process
half goes on in `RunStreams`.  `Investigation` is what `Execute` stands for there when a
retry-safe job runs: it ends, completed or failed (`InvestigationEnds`), unless the worker
dies; `Workflow` is what it stands for when any other job runs, and its waiting run with
the checkpoint is what `PublishRead` finds.  Each `Execute` of `Workflow` and each tool
step of `Investigation` is one call of `ToolCall`: it ends (`EveryCallEnds`) and is answered
with its own result (`AnswersAreOwn`).  A call's handler is a search of `Knowledge` or
a question of `TextToSql` (refused where a team asks).  `Diagnosis` takes the calls of an
`Investigation` in any order its threads allow; the arms of `Comparison` and `ModelArms` are
such runs whose registry grants them no service, and `Suites` judges whole runs of `Workflow`.  `Approval` abstracts the graph a decision
resumes to one step, `RunTool`; `Workflow` shows that this graph executes the approved plan.

`DurableTask` ends where a waiting result is published; `Approval` begins in exactly
that state (`Init`): run, public run and job waiting, an unclaimed checkpoint.
`WaitingIsResumable` in the first is what justifies the initial state of the second.
A recovery that read a run before its publication and commits after it is in `DurableTask`;
what it has read is what one that begins in `Approval`'s initial state reads, so the race of
recoveries with decisions is all in `Approval`.  So the theorem `SettledFinal` about the first
module speaks of the pipeline only; an approval later moves a waiting task to its final
state.  `DurableStream` watches both from outside.  `Console` EXTENDS `Review`: their
composition is checked, the page among its rivals.

Modules that share no state which one writes and the other reads are checked in one run.
`MCWorkflow`, `MCPublicApi` and `MCData` EXTEND several of them (`MCWorkflow` also `Suites`,
`MCData` the comparisons); every behaviour begins with
one part awake and the others in a state in which no action of theirs is enabled.  This
adds the state spaces instead of multiplying them, and each part is explored in full.

## Runs

| Run | Instance | Shows |
|---|---|---|
| `durable_ledger` | 2 workers, 1 retry-safe job, 3 attempts, lease 2; fair | ledger, ownership, refinement; every submission settles |
| `durable_mixed` | 2 workers, a safe and an unsafe job, 2 attempts, lease 1 | unsafe jobs run once, the public run shows the last attempt, resumable approvals |
| `approval` | 2 requests, 1 recovery, 1 reader, the lock's connection may break once; fair | one decision, one execution, always decidable or recoverable; a claimed or expired approval ends in public |
| `approval_outlives_lock` | the same | expected violation, see Findings |
| `investigation` | 2 services on 2 threads, 4 shared and 3 own attempts, with and without models; fair | budgets, verifier's call, no lost events, a fault fails the run, every run ends |
| `investigation_reserve` | 1 service, the product's 9 and 3 attempts | expected violation, see Findings |
| `workflow` | `Workflow`: up to 3 services, both modes, model plans of up to 2 steps. `ToolCall`: 2 callers with 2 and 1 calls, closed at any time. `Suites`: 2 programs, 3 commits, 2 configurations, 5 faults, one case per suite of a component | whole plan approved, steps once and in order, answer, analysis and trace tell what happened; audit rows match outcomes, no foreign or late answers, a closed client is quiet, every call ends; cases are judged under their own fault, reports compare equal conditions |
| `workflow_handoff` | 1 service | expected violation, see Findings |
| `public_api` | `Submission`: 2 requests sent up to twice, 2 members, 1 key, 2 contents. `RunStreams`: 2 clients, a history of 2, 2 progress events, 1 restart. `DurableStream`: 1 watcher, 2 attempts, 3 events. `Console`: 2 cases of 2 teams, 4 clicks, 2 requests under way; `Review`: 3 reviewers | one run per submission and losers answered; streams tell the run, miss only what was trimmed, and end; each attempt shown as itself; a gapless, justified review; a page that shows no other run's review and stays usable |
| `console_save` | 1 case, the page and one more reviewer | expected violation, see Findings |
| `data` | `Knowledge`: 2 importers, 1 searcher, 3 imports, 2 searches. `TextToSql`: 3 tables, statements that differ from a plain one in what one check of the guard looks at. `Diagnosis`: 2 services, 3 shared and 2 own calls. `Experiment`: 2 cases, 2 versions, 1 crash, 3 starts. `Comparison`: up to 3 services, all faults, 3 attempts. `ModelArms`: 4 pilots of up to 3 arms | answers of the searched corpus, idempotent imports; only guarded queries run; claims come from records, a completed run is whole, a reopened run is the saved one; every arm once and a true summary; pairs differ by their variant alone, arms keep to their budgets |
| `experiment_labels` | `Experiment` as in `data` | expected violation, see Findings |

**Bounds.** `MaxAttempts` 3 (the code's default) gives a first, a middle and a last
attempt, so a stale worker can be one or two attempts behind; 2 where two jobs share
the workers.  A lease of 2 ticks distinguishes a fresh, an aged and an expired lease.  Claims go in
order of the primary key, so two jobs suffice to see one wait behind the other.  Two
approval requests with any actions are every pair of racing decisions; a third would
find the run claimed as the second does.  A submission sent twice is its own third
competitor: the second sending meets rows and open transactions as a third request
would.  In `investigation` 4 shared attempts are fewer than the 6 the two services may
spend alone, so the last ones are contested; the product's 9 are 3 for each of its 3
services and are never contested, which is why its own numbers would hide the shared
limit.  One caller of tools calls twice, so a late answer of its first call can meet its
second, and the other competes for the worker.  In `workflow` three services are the
planner's own limit and fill its five steps, the code's maximum; a model's plan of two
steps can have its high-risk step first or last.

A run of `RunStreams` publishes up to four events and one a handler adds, a history of 2
trims at the third: a client one event behind loses nothing, one that lags by two loses
one.  One restart separates a client's number from the new broker's.  Two attempts are an
attempt that is followed while another writes; three events allow one of the other attempt
between two of the shown one.  Two teams with a case each and two requests under way are an
answer for the case or the team the user has left; four clicks open a case, its
collaboration, save, and go elsewhere.  Three reviewers are a writer, one who waits for its
row, and one with an older version.  Two sources, one of them twice in a batch, and two
overlapping imports after a third make each row created, updated, rewritten by another and
repeated.  Three calls for two services leave one of them short of its second lookup or of
the follow-up.  Two cases are one of either order; a crash and two resumes repeat what a
crash interrupts.  In `Diagnosis` the claims of the first service and of the follow-up cite
in every way, the second service's all it knows (`OthersCiteAll` in `MCData`): either service
may be first to call, and a claim about another's evidence needs one free citation.

A comparison of A/B batches is a conjunction over cases, so one case suffices; of three
commits one is the baseline, one has its gold and one another's; two programs are the two
variants.  The five faults replace the analyzer, nothing, the checkpoint and the registry, so
that each kind follows another.  A `Comparison` has all of its services, faults and
variants.  The pilots of `ModelArms` are two services that meet at the meter, two arms twice
in both orders of the line-up, two services whose usage is reported, and the further
variants; a `TokenLimit` of 9 is four calls, fewer than the seven two services may make.

Nothing else is bounded: `MaxEvents`, `MaxProgress`, `MaxRestarts`, `MaxTrace`, `MaxSaves`,
`MaxClicks`, `Inflight`, `MaxImports`, `MaxSearches`, `MaxCrashes`, `MaxResumes`, `MaxSends`,
`MaxPrograms` and `MaxRepeat` are all the bounds there are.

**Deadlock** is checked in the durable, approval, investigation and workflow runs: a worker
can always poll, a reader always read.  It is not in `public_api`, `data` and the two runs
that refute a claim about their parts: clients leave, pages are logged out, batches end.

**Fairness.** A worker takes its next step unless it crashes (the loop of
`run_p3_worker.py` catches every exception and polls again; tools and model calls
carry timeouts), and the clock advances.  No fairness is given to heartbeats,
submissions, revocations or crashes.  An accepted approval request runs on; API
processes are started and readers come again and again; a recovery that keeps finding
the lock free eventually takes it.  Liveness is stated for behaviours in which crashes
end, and the lock's connection holds, which the formulas say, not the specification.  A
submission's handler runs on once begun, and may fail at any time, which answers it too.
In an investigation some thread goes on as long as one can: they are threads of one
process, and each tool and model call ends by its own timeout.  In `ToolCall` callers, the
worker thread and a shutdown once begun run on; the timeouts of the callers are among these
steps.  In `RunStreams` the executor goes on and so does each stream's handler; nothing
makes a client come or an approver decide.  In `Workflow` nothing makes anybody decide.

Symmetry of workers and of requests is used in safety runs only.

## Proofs

A theorem holds for every value of the constants that the named assumptions of its module
admit; the runs show the same property on the instances above.  Every proof has the same
shape: an inductive invariant, a lemma that the initial states satisfy it, a lemma for each
action (or group of actions that disturb the same parts) that keeps it, and the theorems,
which follow from it.  None of the properties is inductive alone; what has to be added is
the interesting part, so it is told here for each module.

**DurableTask**: any sets of workers and jobs, any retry limit and lease length above zero
(`JobsAssumption`, `AttemptsAssumption`, `LeaseAssumption`).  `IInv` adds

* `TokenInv`: the token of a running job is its attempt number, which is the number of
  tokens ever drawn; so an older token is never seen again.
* `SnapshotInv`: a candidate that passes the compare-and-swap was read accurately.
* `ClaimInv`: no two workers hold a claim on the same attempt, and nobody holds one on
  the published attempt.
* `ChildInv`, `OwnerInv`: only the owner of an attempt moves its private run forward; what
  a publication in progress has read still shows the run, and is the run exactly if it
  waits for approval: the recovery, the one other writer, is kept out by the locked
  checkpoint.
* `RecoveryInv`: what a recovery has read a while ago still allows its write: a run it will
  fail has never been completed, one whose checkpoint it will delete is over.
* `UnpublishedInv`: nothing is public before the job settles.

`DurableTask_proofs` derives from it the properties the runs check, proves three step properties
that no run states (a settled task stays as it is, an expired lease is only ever replaced by
a new claim, only the lease's holder publishes) and proves step by step that the pipeline
implements `TaskOutcome`.

**Approval**: any requests, recoveries and readers, all different from each other and from
`Nobody` (`ActorsAssumption`), any number of broken connections (`LossAssumption`).
`SnapshotsAreBehind` says that a run only goes forward, so what an open transaction has read
is not ahead of the tables; `OneClaim` that at most one request is between its claim and the
end, or has run the tool, and none is while the run still waits.  These two, with the types
and `NeverStranded` itself, hold whatever becomes of the lock, and give
`ToolRunsAtMostOnce`: the conditional `UPDATE` protects the tool, not the lock.
`WhileLocked` is what the lock adds for as long as no connection breaks: its holder is
alone, what the holder has read is current, and an end that was read is the end.  From it
follow `RootFollowsRun`, `FinishedIsFinal` and `ActiveApprovalSkipped`, the very statement
that `approval_outlives_lock` refutes when a connection may break.

**Submission**: any requests, members, keys and bodies, each request sent at least once
(`SendsAssumption`).  `RowsTogether` and the answers depend on open transactions:
`DrawnRunsAreOwn` (a number drawn by one is nobody else's, and not committed),
`HoldersAreAlone` (whoever has inserted a key is the only one, now and in the tables) and
`AnswersAreCommitted` (whoever was answered, or lost the race, finds the rows of its key).

**Review and Console**: any pages, runs, owners, teams, drafts and bounds
(`DraftsAssumption`, `ConsoleAssumption`).  The invariant of the reviews says that a save
which has written the row holds it alone and the row still has the version it was drafted
from (`WritersAreAlone`), and that what its checks found is still so when it commits
(`ChecksStillHold`, because runs stay finished).  That of the page is about flags and
requests under way: which request will lower which flag, and that a request of a former
run, team or form is recognised as such when it comes back.

**ToolCall**: any callers, any number of calls of each, none of them called "main"
(`CallsAssumption`).  `ServiceInv` is about main thread, worker and queue: nothing is queued,
taken or answered twice, what is inside is unresolved, only an answer resolves a future with
data, and a worker that was joined is dead.  `CallersInv` is about each call: what it has not
put yet is untouched, its audit rows follow its outcome, and a retry follows a future that is
resolved, so the first attempt has left the worker.

**Investigation**: one service or more, one worker or more, any limits of the attempts, with
and without models (`ServicesAssumption`, `LimitsAssumption`).  `BranchesAreSound` says what a branch may
still spend at every point of its loop; `SupervisorIsSound` that whoever is not pending has
ended, that merging begins when nobody is pending and nothing is unsent, and that a service
has ended with an attempt left when it is followed up; `CallsAreCounted` and `ModelsAreCounted`
that the shared counters are sums over the branches, the latter with the share each service
may still use.  `BudgetIsKept` needs all of them: the verifier's call is left because the
shares of the services add up to the limit less one.  `NothingIsLost` follows from
`SupervisorIsSound`.

**Workflow**: any services, any limit the planner's constructor admits (`StepsAssumption`),
any plans the model may write from the schema's tools (`PlansAssumption`).  At each moment one
thread, the `Owner`, may execute: the creator until a decision, the approver after that.
`GraphIsSound` compares the owner's graph state with the calls made so far: as many calls as
steps done, each with the tool of its step; the evidence is what succeeded; each service's
record follows from its calls and what is left of the plan; without several services only the
last call may have failed.  `CreatorIsSound` says that the creator makes no call for a plan of
high risk, `ApproverIsSound` that the approver's plan is the one decided on, and `RunInv` that
the checkpoint between them is the creator's state.  `TraceInv` says that nothing is committed
of the calls before the run's end while the owner's recorder tells them all.  `OutcomesAreSupported`
assumes `MaxSteps >= 3`, which is needed: with a budget of two and three services named, the
third has no step and its record stays "pending" in a finished run.  The planner admits such a
budget (`planner.py:44`) but the application sets five (`main.py:98`).

**RunStreams**: any clients, any length of the history and number of progress events and
restarts (`StreamAssumption`).  `Whole` says that the history holds the newest numbers below
the next one without a gap, whatever was cut from its front; `GapsAreOld` that whatever lies
between what a client was sent and its cursor was sent or cut, at least a history's length
before; `SentOfLog` and `CursorOK` that the cursor is where the last event left it.  From
`ClosedByLast` (a closed history ends with the terminal event, unless it was closed early)
follows that a stream that ended has told the end.  `Held` is what a told outcome means: no
step undoes a completed row or an approval that was asked for.

**DurableStream**: any watchers, any retry limit and number of events (`WatchAssumption`).
`Headed` says that every line is of the attempt announced last before it, `ToldBehind` that
behind the cursor a watcher was told everything the newest attempt recorded; a claim that makes
another attempt the newest one finds none of its events in the trace, so it keeps this.

**TextToSql**: any schema and any list of allowed columns, any statements (`SqlAssumption`),
with one condition the guard needs: what the list leaves out of one of its tables it allows in
none (`HiddenEverywhere`).  A name without a table may mean a column left out beside the allowed
one; the code leaves out `knowledge_docs.team_id` alone, which no other table allows.  The
invariant counts the trace: generations and verdicts take turns, an escaped error leaves a
generation without its verdict, the second generation quotes the first refusal, and what is executed is what the last event says passed.

**Knowledge**: any files (sequences of items, repeated sources included), imports and searches
(`KnowledgeAssumption`).  For `SearchIsCurrent` the invariant is that no two flushes share a
time and that, as long as no import commits late, the latest update tells the states of the
corpus apart (`StatesApart`): only then may a cache compare it.  For `ImportsAreFaithful` it is
that where no two imports met a source has one row at most and whoever has it open sees it as it
is (`UnracedOK`), that no id is given out twice, and that rows keep their owner and source.

**Suites**: any trees, configurations and cases, any order of the representative faults
(`SuitesAssumption`).  What has been judged was judged under its own fault, and the fault of the
case under way is the injected one (`SuiteInv`); whole files of the baseline are the baseline
tree's (`FilesInv`).

**Experiment**: any number of cases, kills and resumptions (`ExperimentAssumption`; a version is
never the missing file).  `DirectoryInv` says what files a kill may leave: sound records and
grades, each followed by one torn line at most; `WorkingInv` that the process remembers exactly
that and the line under way.  That a summary is true needs that its counts are over records of
which each case and arm has one.

**Diagnosis**: any length of the plan and number of shared calls, any choice of the models and
verdict of the review, up to three calls of a branch (`DiagnosisAssumption`).  `BranchOK` says
where a branch can be in its lookups, `SeenOfBranchOK` that it has seen completed calls in its
own scope, `CallOK` who a call belongs to and what became of it, `CompletedOnce` that no lookup is
completed twice.  `EvidenceOK` relates the merged evidence to the branches: each piece is one
of a branch's, in the order of the plan.  `CompletedOnce` is what makes a reopened run the
saved one: the history finds a call again by its tool and inputs.  The limit of three is the
code's (`MAX_AGENT_ATTEMPTS`), and also how far the model's ids go: they name branch and tool,
not the attempt, so with four a branch could complete the same lookup twice under one id.

**ModelArms**: any pilots of one to three services and repeats with any line-up, even one that
names an arm twice (the summary keeps the last), any limits of attempts, tokens, characters
and output (`ComparisonAssumption`, `ModelArmsAssumption`).  The invariant bounds how often each
branch may have asked its model by how far it has come (`TurnsOf`: after each call, and once more
when its deadline passed), counts the tokens held for answers under way and the calls on the wire
(`RunIsSound`), and says that every record in the file tells of an arm that kept to its budgets.
That a call is left for the review follows because the turns of all branches add up to the limit
less one.

**Comparison**: any sizes up to three, any limit of attempts.  The invariant says that a job which
has made n calls has the tool and the evidence that n determines (`ToolAfter`, `SeenAfter`),
whatever the other branches did meanwhile, and that the single agent has done with all services
before its cursor (`CursorIsSound`).  So both arms end with the same evidence, that of the services
in their order (`Everything`), and the claims follow from it.  The evidence is concatenated part by
part, for there are three services at most; a fold would need an induction.

`ComparisonsAreFair`, which the run checks, is the conjunction of `ArmsAgree` and `ArmsAreBounded`;
`ComparisonsFair` proves it from `ArmsAlike` and `ArmsBounded`.

Minima, maxima and counts of finite sets are reasoned about with the library's facts on
cardinality and well-founded orders, sums over a bounded number of branches term by term; nothing
rests on an induction over data.

Only model-checked:

* liveness (`EverySubmissionSettles`, `HandledBecomesPublic`, `InvestigationEnds`,
  `EveryCallEnds`, `RequestsAreAnswered`, `EveryStreamEnds`): it rests on fairness and `ENABLED`,
  which are out of TLAPS's reach;
* the five properties whose violation is a finding; of `ActiveApprovalSkipped`, one of
  them, it is proved that it holds as long as the lock's connection does.

Every safety property of the passing runs is a theorem.

A proof also showed what a run could not: several `CASE`s of the models were meant as chains
of early returns, but had overlapping guards, between which TLA+ leaves the choice open (TLC
takes the first).  They are written as chains of `IF` now.

## Findings

*An approval outlives its lock* (`approval_outlives_lock`).  `docs/P3-runbook.md:51`
says that recovery processes skip an approval while it executes.  The lock that
guarantees it belongs to a pooled connection nothing uses meanwhile; if it alone breaks
MySQL frees the lock, and a recovery fails the run and deletes its checkpoint while the
tool is still executing.  `approval`, in which the connection may break,
shows that the tool is not executed again.  `FinishedIsFinal` and
`RootFollowsRun` are stated for behaviours in which the connection holds: without the lock
the request overwrites the failed run when the tool returns.

*A retry spends the reserved attempt* (`investigation_reserve`).  README.md:12 and the
comment at `multi_agent_runtime.py:220` say that an empty first log window keeps one of
the service's three attempts for the supervisor's wider query.  The reservation lowers
only the number the model is shown; the retry after a connection failure (line 163)
looks at the full limit.  After empty logs (1), a failed ticket search (2) and its retry
(3) nothing is left and the wider window is never queried.

*A decision may leave its run running* (`workflow_handoff`).  An in-process specialist
run is committed as waiting before its handoff numbers and commits a last trace event.
Whoever decides in between numbers the same event; `(agent_run_id, step)` is unique, so
the later commit is refused.  If that is the approver's, the tool has been executed, the
approver reads an error, and the run stays RUNNING until an API process starts and fails
it as of unknown outcome.  README.md:167 promises the simulated execution's result.
Durable runs are not affected: theirs is published after the handoff.

*A conflict may cost the draft* (`console_save`).  `docs/P4-runbook.md:46` says that a
conflict returns 409 and the page keeps the draft.  Whatever draws the tab anew while the
save is under way (a content tab, a collaboration record still loading) replaces the form
by one filled from the record, its button disabled; the conflict then enables the old,
detached button only.  The draft is gone and the form stays disabled until it is drawn
again.  `PageIsFreed` shows that nothing else of the page stays blocked.

*The judge's labels do not alternate* (`experiment_labels`).  The manifest says
"alternating anonymous judge labels".  For every second case both the order of the arms
and the order of the pair are reversed, which cancels out: in an uninterrupted batch label
X is always the single agent, and a judge's preference for a position is not averaged out.

Observations no run is about.  README.md names text-to-SQL tasks, but
`registry.py:82-83` refuses every `query_database` call under team permissions, so in
`Workflow` such a plan always stops at its failing step.  Two overlapping imports can both
insert a source; later imports update one of the two rows.  A stream opened in the moment
between an in-process run's row and its first event closes that run's stream for everyone:
later events are recorded but its streams have ended.  An executor whose scope check meets a
database error ends without a terminal event, and its streams stay open until the API
restarts.  `tests/test_w4_fixture.py:63` asserts that both arms of the offline comparison find
the logs of every service.  The registry refuses a log or ticket search about a service outside the
run's scope (`registry.py:84`), which it reads from the session, and the comparison's session is a
`MagicMock` whose queries yield nothing: all those calls of both arms are refused and the coverage
is 0.  In the live replay, whose runs have no team, every call is refused, so its pairs compare
nothing.  A reopened run shows knowledge evidence without the service it was found for
(`run_history_service.py:120`); `ReopenedIsSame` compares the rest.

## Plan

Done: all modules of the table above, and a theorem for every invariant and step property
the passing runs check.  What could be added:

1. The seams between modules: that the initial state of `Approval` is what `PublishWrite` of
   `DurableTask` leaves, and that of `DurableTask` what a commit of `Submission` leaves, is argued
   under *How they fit* and not proved.
2. The components listed as partly modelled, should they come to share state: agent adapter,
   access control, trace sub-events, planner and router rules, LLM client, migrations, frontend.

## Not modelled

What is text without shared state: the keyword rules of router and planner, prompts and the
wording of answers, the tokenizer and the BM25 score, sqlglot's parser.  They are free
choices, tables of relevance and abstract statements in the modules that depend on them.
Model and tool sub-events of the trace, and the text markers by which an analysis may also
be called uncertain, are left out.  So are login and roles, history pages, the data lists and
the import dialog of the frontend (straight-line reads and inserts), and `finish_claim`,
which has no caller outside its smoke test.  Private runs of crashed attempts stay `RUNNING`
for ever; the public views hide them.

Of the offline evaluation `model_scoring.py` is left out, with the lexical scores of the
replay, which measure text.  The smoke
and seed scripts drive the service or fill tables; migrations and schemas are declarations;
`eval/results/**/source_snapshot` are copies of modelled source from earlier experiments.
