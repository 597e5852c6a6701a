# SpectrumOS in TLA+

SpectrumOS is a research assistant: a person enters a topic, a graph of model
and search calls turns it into a brief, sources, claims, an outline and a
draft, and the person approves or rejects at three gates before the draft is
published.  This directory holds TLA+ models of the program under `src/src/spectrum`,
the TLC runs that check them on small instances, and theorems about them that
TLAPS checks for all instances.

## Inventory

The repository contains two generations of the program.

**The v0.5.0 runtime** is what `main.py` and `cli.py` start.

| Component | State | Operations | Correct when |
|---|---|---|---|
| `orchestrator/service.py` | rows of `research_runs`, `research_outbox`, `review_decisions`, project status | `start_run`, `review_run`, `cancel_run`, `retry_run`, one transaction each | one active run per project; a queued run always has an event; a cancelled run stays cancelled |
| `orchestrator/worker.py` | outbox rows, Redis messages, advisory locks, `started_at` | `dispatch` every 5 s; `execute` (two reads, a lock, two transactions around the graph); `on_failure` | every event is settled; duplicates, crashes and lost messages strand nothing and repeat nothing that matters |
| `orchestrator/workflow.py` | LangGraph checkpoint, `node_executions`, `artifact_versions`, `outputs`, claims | eleven nodes, three of them gates | nothing published without three approvals; one output per run |
| `llm/research.py`, `search_web` | `model_calls`, `search_calls` ledgers | reserve, send, record | no request sent twice, call and cost budgets kept, unknown results keep their reservation |
| `tools/knowledge.py`, `tools/storage.py` | `sources`, `source_versions`, `source_chunks`, objects in S3 | `ingest`, `search_knowledge` | one source per address and project, one version per text |
| `db/research.py`, `db/runtime.py`, `migrations/` | tables and unique constraints | | |
| `api/research.py`, `cli.py` | none | HTTP and command line over the above | |

**The agent board** is the earlier generation, still in the tree and covered
by `tests/`.  All of it runs in one asyncio loop on a SQLite file.

| Component | State | Operations | Correct when |
|---|---|---|---|
| `orchestrator/scheduler.py`, `agents/base.py` | `agent_tasks` | poll, retry, start a tick of each agent; `trigger_agent` starts one beside them | dependencies come first; what is done stays done; no task is left behind |
| `agents/prism.py` | projects, tasks | decompose a project, move it through its phases, finish it | one supplement; a finished project has everything done |
| `agents/focus.py` | `sources` | plan, search within a budget, judge, store | the budget holds, no readable answer is dropped |
| `agents/dispersion.py` | `wiki_cards`, marks on `sources`, tags and links | cards of the sources that are Collected, then tags and links of the cards | what is marked Processed has been analysed; tags are where their paths say |
| `agents/diffraction.py` | `outputs`, gap tasks | draft, review, store; merge outputs | no empty output is taken for a result |
| `db/operations.py` | the rows | reads and writes, the tag tree, the link graph | trees and graphs are those of the rows |
| `api/routes.py` | none | what people change | |
| `llm/client.py`, `llm/provider.py`, `tools/web_search.py`, `tools/content_extractor.py` | none | the outside world | |

`db/migrate_legacy.py` copies the rows of the second generation into PostgreSQL
for the first.  Around them: a Next.js frontend, configuration, prompts and
deployment files.

How the parts of the runtime interact: commands and workers share only the
database.  A command inserts an outbox row in the transaction that changes the
run; `dispatch` copies rows to Redis; a worker takes a message, takes a
PostgreSQL session lock on the run, marks it running, resumes the graph from
its checkpoint, and closes run and event in a final transaction.  Nodes read
the run's status (`check_run`) at their start and end, so a cancellation takes
effect there.  An exception unwinds `execute`, which closes the connection that
holds the lock, and only then Celery calls `on_failure`.

How the parts of the board interact: by rows.  A tick lists its tasks, works on
one after the other for minutes, and writes at the end; what it has read may have
changed by then, through another tick, prism, or a person.

What is hard: steps of several workers and of the person in any order; at-least-
once delivery; crashes between any two transactions; a lock that is tied to a
connection; calls to paid services whose outcome may be unknown.
`PROJECT.json` lists each hazard at its line.

## Plan

Modules, in order; the first seven are written.

1. `RunLifecycle`, with the abstract `ReviewContract` it implements: the life of
   runs from command to publication.
2. `BudgetedCalls`: the ledgers of paid calls under concurrent workers and
   crashes.
3. `EvidenceRounds`: the nodes between the first two gates one by one, the node
   cache, the search budget, sources and claims.
4. `AgentBoard`: scheduler, ticks of agents, dependencies, retries, and the
   phases of a project that `prism.py` moves on that board.
5. `MaterialFlow`: what the other three agents make of a project's material, with
   ticks beside the scheduler's and people who change rows.
6. `KnowledgeGraph`: tags and links of cards in both generations, and the
   migration between them.
7. `Provenance`: how texts get into the knowledge base, by concurrent executions
   that may die.
8. `Manuscripts`: texts of brief, outline and draft, revisions, what a reviewer
   sees and what is published (published as approved, edits of a reviewer kept).

Composition: `RunLifecycle` treats the nodes between two gates as one position
whose executions may end anywhere; `EvidenceRounds` and `Manuscripts` open those
positions and take from `RunLifecycle` that one execution of a run works at a
time; `BudgetedCalls` drops even that and lets any number of workers call.
`EvidenceRounds` calls one `ingest` of a text one step; `Provenance` opens it.
`MaterialFlow` takes tasks from a board that is `AgentBoard`'s, reduced to the statuses
of its tasks; the tags and links of dispersion's cards are in `KnowledgeGraph`.

Every safety property that a passing run checks is proved as well.  Theorems
still worth proving: the full types of `MaterialFlow`; that an execution of
`EvidenceRounds` with the ledger of `BudgetedCalls` sends no query twice; that the
steps of `MaterialFlow` on tasks are steps `AgentBoard` allows.

## RunLifecycle

### State

| Variable | Code |
|---|---|
| `project` | `research_projects.status`: 进行中 / 待审核 / 完成 |
| `run` | `research_runs`: `status`, whether `started_at` is set, `revision`, the stage of `pending_review` |
| `decisions` | `review_decisions` of each run |
| `outbox` | `research_outbox`: status and run of each row, in insertion order |
| `broker` | deliveries in Redis (the task id is the event id; copies are one) |
| `worker` | where each worker slot is in `execute`, `durable` or `on_failure`, and what it has read |
| `checkpoint` | LangGraph's checkpoint of the run's thread: next node, interrupted or not |
| `published`, `outputs` | `artifact_versions` of kind "published" by revision, and rows of `outputs` |
| `faults`, `lockLosses` | bounds: crashes, lost messages, aborted dispatches; lost lock connections |

### Actions

Commands: `StartRun`, `ReviewRun`, `CancelRun`, `RetryRun`.  Delivery: `Dispatch`
(any non-empty part of the eligible rows: `SKIP LOCKED`, `LIMIT 20`),
`DispatchAborted` (messages sent, transaction rolled back), `LoseMessage`.
A worker: `DropTerminal` or `Receive` (the first read of `execute`), `TryLock`,
`Begin` (first transaction), `Load` (`get_state` and the decision), then the graph:
`EnterNode`, `LookUpPublished`, `CommitOutput`, `LeaveNode`, `HitGate`, `PassGate`,
`ReachEnd`; then `ReadOutcome` and `Finish` (final transaction).  Failures: `Raise`
(an exception anywhere), `OnFailure`, `Crash` (the process dies or is killed by the
hard time limit; its delivery comes back or not), `LoseLock`.

Abstractions: the nodes between two gates are one position each (`Brief`,
`Research`, `Writing`), whose failures are `Raise`; the sixty seconds after which a
sent event is sent again are not counted, because an execution may last longer
than that by design; timestamps, texts and audit rows are left out, except
that `started_at` is set or not, on which the final transaction depends.  A node whose
result is recorded returns it without the closing `check_run` (`workflow.py:60-61`); in the
module every node ends with that check, so that a cancellation which falls into this
return is noticed at the next check of the code and at once in the module.

### Runs

| Run | Instance | Checks |
|---|---|---|
| `run_lock_lost` | starts at the draft's review; 2 runs of one project, 2 free events, 2 workers, 1 fault, 1 lost lock | `OneActiveRun`, `CancelledIsFinal`, `LiveRunHasEvent`, `OneOutput`, `PublishedOnlyIfApproved`, `CompletedHasOutput`, `DoneProjectIsSettled` |
| `run_liveness` | starts at the outline's review; 1 run, 2 free events, 2 workers, 2 faults, `Fairness` | `KeepsReviewContract` (every step is a step of `ReviewContract` or leaves it alone), `ReviewIsOfOpenGate`, `EventSettles`, `RunSettles` |
| `run_repeated` | 1 run, 1 event, 2 workers, no fault | `NoRepeatedExecution` is **violated** (below) |

Two workers are enough for every race between an execution and its duplicate
or its unwinding predecessor; a third only repeats the second's role, as the
lock admits one.  Events bound the number of commands that can queue a run: from
the review of the outline on, two reach the publication, or a retry.
`run_liveness` and `run_lock_lost` begin at the state a run is in when it waits for its second and for its
last review (`WaitingAt` in `MCRunLifecycle`), and spend their events there; the second
run of `run_lock_lost` starts from nothing.  `ReviewContract` admits as its initial
states all in which each run waits for some stage, those before it approved; that
the contract is kept from the start of a run on is the theorem `ReviewContractKept`.
`CHECK_DEADLOCK FALSE` in all: a system whose events are used up and whose runs
are settled stops.

### What the properties depend on

`KeepsReviewContract`, `PublishedOnlyIfApproved` and `ReviewIsOfOpenGate` hold as long as
no lock connection is lost; the two invariants say so themselves, `run_liveness` and
the theorem about the contract take it as a condition.  With a lost one
they do not: the worker that lost it may write a checkpoint or a final
transaction over its successor's, so that the person is asked again about a
draft that is being published.  `OneOutput` and `CompletedHasOutput` bear one lost
connection: then the unique constraint of `artifact_versions` admits one of the two
publications, as both have the same revision.  With two lost connections a
second decision about the draft may raise the revision between two executions
that publish, and both do.  `OneActiveRun`, `CancelledIsFinal` and `LiveRunHasEvent` do
not depend on the lock at all; they are proved without it.

### Fairness

`FairSpec` asks for weak fairness of dispatching all eligible rows (beat runs it
every five seconds), strong fairness of receiving each event (Redis hands
deliveries out in order; a worker slot is free again and again because
executions are limited in time) and weak fairness of each worker's own steps.
Nothing is asked of people, exceptions, crashes or losses.

### A disagreement with the documentation

The README says that the outbox and the session lock prevent repeated
execution.  `run_repeated` shows the order that does not fit: an execution begins (its
first transaction sets `started_at`) and raises an exception, the `with
psycopg.connect` block closes the lock's connection, and before Celery calls
`on_failure` another delivery of the same event, which is still "sent", is received,
gets the lock, and begins as well.  The first `on_failure` then marks the run failed
and the event failed under the second execution.  The invariants above hold
nevertheless: the second execution stops at its next `check_run`, or its final
transaction fails on the missing `started_at`.

## BudgetedCalls

`llm/research.py:generate` and `workflow.py:search_web` call paid services.  Both
work in three steps: a transaction that reserves (or takes a recorded answer),
the request, a transaction that records.  The module lets any number of workers
take these steps for any node, with no lock among them but the row lock that
one transaction holds, so that it also covers executions that outlive their
lock.

| Variable | Code |
|---|---|
| `running` | what `check_run` asks: the run is running and within its time |
| `context` | the excerpt of the knowledge base that `evidence_context` puts into a prompt |
| `call` | rows of `model_calls` by request: reserved, complete or truncated, and `cost_usd` |
| `search` | rows of `search_calls` by query |
| `sent`, `billed`, `searched` | what reached the providers and what they charged: not in the code, the outside world |
| `worker` | where a worker is in `generate` or `search_web` |

A request is a node and the context of its prompt (`RequestOf`), as the key is a
digest of the whole prompt.  Actions: `ReserveCall`, `SendCall`, `RecordCall`,
`ReserveSearch`, `SendSearch`, `RecordSearch`; `Abandon` is an exception, a crash or a
truncated answer; `StatusChanges` and `KnowledgeChanges` are what others do to the run
and to the knowledge base.  Abstractions: costs are natural numbers, so the
rounding of decimals is left out; digests do not collide.

| Run | Instance | Checks |
|---|---|---|
| `budget` | 2 workers, 4 requests of 2 nodes, 2 queries, limits of 3 calls, 1 query, and a cost below that of 3 calls | `TypeOK`, `SentOnce`, `WithinLimits`, `WithinCost`, `BillsAreCovered` |
| `budget_repeat` | 1 worker, a node with evidence asked in 2 contexts | `NodeNotAskedAgain` is **violated** |

Every limit is below what the requests and queries would need, so each is met
and passed over by a third request, and two workers make the race between two
reservations; a third worker would only wait for the same row.

`budget_repeat` concerns README line 94: a resumed run does not silently repeat
a request whose result is unknown.  For the same prompt that is `SentOnce`, and
holds.  But `coverage` and `analyze` put an excerpt of a knowledge base that all
projects of a domain share into their prompts.  If the base has changed before
the run resumes, the node's new request is another one to the ledger and is
sent, while the reservation of the first is still open.

## EvidenceRounds

The way of one run from the approved brief to the outline: `collect`, `coverage` and
`analyze` inside `durable`, on LangGraph's checkpoint, with executions that end
anywhere (`Raise`, `Crash`) and begin again.  One execution works at a time, which is
what `RunLifecycle` and the advisory lock are for.

| Variable | Code |
|---|---|
| `status` | the run may work (queued and running are one), has failed, or is cancelled |
| `saved` | the checkpoint: the next node and `ResearchState` as the nodes use it: round, queries, sources, evidence, verdict, claims |
| `exec` | the step of the execution, the state its node is working out, the queries and results it still has to take |
| `cache` | `node_executions`: node, key (the digest of the state it began with), result |
| `plan`, `search` | the recorded answer of the search plan in `model_calls`; `search_calls` |
| `library`, `ingested` | the texts of the domain that `search_knowledge` can find; those this run has stored |
| `claims` | one entry for each committed transaction of `analyze`: the texts its claims quote |
| `executions` | bound |

Actions follow the code: `EnterNode` and `LeaveNode` are the transactions around a
node, `Updated` puts the fields a node returns into the state, `Checkpoint` is
LangGraph's superstep with `coverage_route` (`NextNode`, `NeedsRound`); `Reuse`, `Plan`,
`Search`, `RecordSearch`, `TakeResult`, `NextQuery`, `Collected` are `collect`, `Judge` is
`coverage`, `Analyze` and `StoreClaims` are `analyze`.

Abstractions: a text is the address it was found under (chunks of one text
come and go together); the model's answers in `coverage` and `analyze` are free
choices at every execution, although a recorded call would answer the same to
the same prompt: the prompt depends on how the base ranks its chunks then.  A
search that is reserved but not recorded makes `search_web` raise, for ever: in
the module such an execution can only `Raise`.  `extract` and other failing calls are
`Raise` too.

| Run | Instance | Checks |
|---|---|---|
| `evidence` | 3 queries, 3 texts, budgets of 2 queries, 2 rounds, 2 sources, 2 executions | `WithinBudget`, `QueriesSuffice`, `VerdictIsCurrent`, `ClaimsStand`, `EvidenceGrows` |
| `evidence_refused` | the same with 1 query, 2 rounds, 1 execution | `BudgetAllowsRound` is **violated** |

Two rounds are the first (model's plan) and a later one (queries of `coverage`);
more rounds repeat the second.  Each budget is smaller than what plans and
answers could use up, and the second execution begins after any prefix of the
first.

`QueriesSuffice` is about the rounds that the budget has a query for, whatever the
budgets are: the round after `max_queries` others has none left, as each asks at
least one.  `evidence_refused` concerns the README's graph, whose edge back to the search
is labelled "a supplement is needed and the budget allows it" (line 13):
`coverage_route` looks at rounds only, and `contracts.py` accepts a `max_queries` below
`max_rounds`.  Then a later round is entered whose query `search_web` refuses, and
the run fails there at every retry.

## AgentBoard

The agent board of the earlier generation, for one project: `scheduler.py` as the
loop, `AgentBase.tick` for each agent, `prism.py` as the agent that also moves the
project, `diffraction.py` for what it writes to the board.  All of it is one asyncio
loop, so steps interleave at the awaits: each action reaches from one awaited
database or model call to the next that matters.

| Variable | Code |
|---|---|
| `project` | `research_projects`: status (未开始 new, 进行中 active, 待审核 review, 完成 complete), `review_round`, whether it has a brief |
| `task` | `agent_tasks`: status, agent, `depends_on`, `retry_count`; what the task was created for |
| `outputs` | how many outputs wait for approval, how many are approved, whether one passes for a synthesis |
| `loop` | the scheduler between two ticks, retrying, or waiting for its agents |
| `tick` | for each agent: the step of its tick, the rows it has listed, the one it is at |
| `prism` | the rest of a chain being created, and the ids of what is created |
| `failures`, `faults` | bounds: exceptions of `process_task`; aborted ticks and crashes |

Actions of the scheduler: `Resolve`, `Retry` (one task of the loop of
`_retry_failed_tasks`), `StartAgents`, `TickEnds`.  Of a tick: `List`, `Take`, `Work` or
`WriteOutput`, `FillGap`, `Finish`, `FailTask`.  Of prism before its list: `ListNewProjects`
to `StartProject` decompose, `ListProjects` to `EndProject` are
`check_pipeline_progress`.  `AbortTick` is an exception `tick` lets through (a model
call of prism, a database error outside the `try`), `AbortLoop` one of the
scheduler's own calls, `Crash` a restart; `Approve` is a person.

Abstractions: what focus and dispersion collect is left out; whether
diffraction writes an output, reports gaps, or gives its text a title with 综合 in it
is open, because the model decides each; an agent takes the tasks of one list
in any order, since priorities are data; `max_concurrent` only removes
interleavings; `review_needed` of a task is `retry_count >= 3`, so it needs no
variable.  `update_task` commits Done and then reads the row back
(`db/operations.py:95-96`) inside the `try` of `tick`; that this read alone fails, which
would make a task Waiting that has been Done for a moment, is left out, here and in
`MaterialFlow`.

| Run | Instance | Checks |
|---|---|---|
| `board` | 4 agents, 3 plans, 5 tasks, 1 retry, 2 failures, 1 abort or crash | `DependenciesFirst`, `DoneIsFinal`, `EndedIsSettled`, `SupplementedOnce`, `NoTaskLeftBehind` |
| `board_retries` | the same with 4 tasks and no fault | `RetriesEnd` is **violated** |

Five tasks are a plan of one task, its supplement of three and a synthesis, or a
plan of three, one of which needs two, and what gaps add; two failures exceed
one retry.  A tick that has no row left for a task stops, hence
`CHECK_DEADLOCK FALSE`.

`SupplementedOnce` and `NoTaskLeftBehind` are about ticks that nothing aborts.  An
abort between the supplement's tasks and `review_round=1` leads to a second
supplement, and one while a task is Doing leaves it so for ever, with its
project; the other properties hold through both.

`board_retries`: the changelog and the docstring of `_retry_failed_tasks` say that a
task whose retries are exhausted is marked Failed.  That function skips tasks
with dependencies, and `resolve_dependencies` makes them Todo again because their
dependencies are done: they are tried on every tick for ever.  `FirstTasksGiveUp`
is the part that holds; it is proved.

## MaterialFlow

What focus, dispersion and diffraction make of one project's material: the bodies
of their `process_task`, which `AgentBoard` leaves open.  Here a tick of an agent may
run beside another of the same agent, because `Scheduler.trigger_agent` starts one
whenever a person asks for it, and people give any source or task any status in
between (`update_source` and `update_task` write what they are sent;
`docs/openclaw-skill-spec.md` has people mark tasks Done).

| Variable | Code |
|---|---|
| `task`, `idle` | `agent_tasks.status`, and whether `ai_notes` says that there was nothing to work on |
| `source`, `card`, `output` | rows in order of insertion: status of a source and the task that stored it; the sources a card was made from; whether an output is a merged one |
| `search` | the locals of focus's loop: rounds, queries used, keywords of the next round, addresses found |
| `tick` | for each tick its step, its list, the task at hand, and what it has read, parsed or drafted |
| `incidents` | bound: exceptions, changes by people and triggered ticks |
| `said`, `marked`, `again`, `beside` | history, which no guard reads: the status people gave each task last; the sources they marked Processed; the sources to be read again (set back by people, or left unmarked by a tick that failed after its cards); the agents of which a tick was triggered |

A tick goes through `List`, `Take`, the steps of its agent, and `Finish`, `GiveUp` (an
answer of no use: `process_task` raises) or `Fail` (any other exception); `Retry` makes
a waiting task Todo.  Focus: `Plan`, `Search` (a round of the loop, with `Queries` cutting
the keywords to the budget), `Judge`, `Synthesize`, `StoreSource`.  Dispersion:
`ReadSources`, `Generate`, `StoreCard`, `Mark`.  Diffraction: `ReadCards`, `Draft`, `Review`,
`Build`, `FillGap`.  People: `SetSource`, `AddSource`, `SetTask`.  `Merge` is the loop over
several answers that focus and dispersion share, `Merged` one turn of it: it ends at
a text that is no JSON as long as nothing has been merged, and skips such a text
afterwards.

Abstractions: of an answer there is whether it is JSON and how many records the
parser makes of it; of a draft, on which side of 50 and of 100 characters it is; a
search finds any of a set of addresses.  Retries have no count, which only adds
behaviours.  Of the statuses that no agent selects one stands for all: Archived, for
Inbox and Failed tasks and for sources To Read and Reading as well.

| Run | Instance | Checks |
|---|---|---|
| `flow` | 4 ticks (2 of dispersion), 3 boards (a collection and two analyses; a collection, an analysis and an output; two analyses, an output and a merged one; each with free rows for the tasks of gap reports), 2 addresses, 2 rounds, 2 queries, 3 sources, 3 cards, 1 incident | `WithinQueries`, `MergeKeepsRecords`, `ProcessedWasAnalysed`, `DuplicatesHaveCause`, `NoEmptyDone`, `DoneUnlessReopened` |

Two addresses give two answers to merge, of which either may be unreadable or
empty; two keywords of each kind exceed the budget of two queries in one round
and in two; the one incident falls at any step.  A tick that has no row left
stops, hence `CHECK_DEADLOCK FALSE`.

What people do does not switch a property off; each names the changes that bear on
it.  A source they mark Processed needs no card until they change it again.  A task
they mark Done needs no rows; and a tick that has it on its list, or is at work on it,
takes no notice and ends it its own way, which is the one exception of
`DoneUnlessReopened` besides reopening and a tick beside the scheduler's.
`DuplicatesHaveCause` names the three ways to a second card of one source: people set
the source back, a tick fails between its cards and the mark of that source, or a
second tick of dispersion reads the same list.  Every other incident leaves it in force.

## KnowledgeGraph

Tags and links of cards through the life of an installation: the legacy stack,
the migration, the research stack.

| Variable | Code |
|---|---|
| `stack` | which of the two stacks the installation runs |
| `tag`, `cards`, `cardTag`, `link` | rows of `tags` (name, parent, level), the number of `wiki_cards`, `card_tags`, `card_links` |
| `agent` | where each tick of dispersion is in `_apply_knowledge_layer`: the items to do, how far it has followed a path, its `tag_cache` |
| `renamed`, `strayed` | whether people have renamed a tag, or named one that does not exist |
| `calls` | bound |

Dispersion: `Start`, then per tag path `Find`, `Create`, `TagCard`, and `LinkCards` per link;
a path is followed name by name with an await in between.  People in the legacy
stack: `CreateTag`, `UpdateTag`, `AddCardTag`, `RemoveCardTag`, `CreateCardLink`.  `Migrate` copies
the rows if PostgreSQL's foreign keys let them in.  Research stack:
`CreateResearchTag`, `AssignTags`, `AddLink`, and `Analyze`, which stores the cards of a run
with their tags and links.  Pure operators translate the queries: `Tree` is
`get_tag_tree`, `Descendants` the recursive query of `get_tag_descendants`, `LinkGraph` the
breadth-first search of `get_link_graph`.

| Run | Instance | Checks |
|---|---|---|
| `graph` | 2 ticks, 2 names, 2 relations, 3 tags, 3 cards, 2 calls of people or runs, depth 2, levels 2 | `TreeHasEveryTag`, `GraphIsNeighbourhood`, `TagsNameTheirPath`, `RowsRefer` |

The answers are two: a path longer than the levels allowed followed by its first
part alone, which the tick then has in its cache; and a link between two cards.
Three tags are enough for a
parent with two children and for a chain of three; depth 2 is the first at which
the search meets a card a second time.

The properties are about rows whose references exist: a person may give a new
tag a parent that does not exist (`create_tag` looks the parent up for its level
only), or put such a tag on a card; then `strayed` is true, the tree may miss
tags, and the migration fails.  `TreeHasEveryTag` and `RowsRefer` leave such
installations out (the former also those where only a card was given such a tag,
which does not touch the tree).  `GraphIsNeighbourhood` holds in any case.
`TagsNameTheirPath` is about names: that `find_tag_by_name` may find a tag of that
name in another part of the tree is no violation.

## Provenance

`ingest()` of `tools/knowledge.py` and `put_text()` of `tools/storage.py`, called by
collections of runs and by `intake()` of the API side by side.

| Variable | Code |
|---|---|
| `objects` | texts in the object store |
| `source`, `version`, `chunk` | rows of `sources`, `source_versions`, `source_chunks` in order of insertion |
| `lock` | PostgreSQL's transaction-scoped advisory locks |
| `worker` | where each execution is, and the rows it has found |
| `received` | what each execution got back |
| `ingests`, `faults` | bounds: calls; exceptions and crashes |

`Call`, `Put` (the object, before any row), `Lock` (`pg_advisory_xact_lock`), `Look` (the two
selects), then `Return` (the version is known) or `Write` (source if new, version,
chunks); `Fail` at any step rolls the transaction back, which releases the lock.  A
text is its length, so that the arithmetic of the windows (1600 every 1400) is
that of the code: `Pieces`, `Start`, `End`.

| Run | Instance | Checks |
|---|---|---|
| `provenance` | 3 executions, 2 addresses, 2 texts and one too short, windows of 4 every 3, 3 calls, 2 faults, `FairSpec` | `OneRowEach`, `QuotesFitChunks`, `ReceivesItsText`, `IngestEnds` |

Three executions are one in the lock, one that waits, and one that comes after;
the texts are shorter than a window and longer than two.

Fairness: an execution whose process lives takes its steps (weak), and
PostgreSQL's queue gives the lock to whoever waits for it (strong, as the lock
is taken and freed by others in between).  Nothing is asked of calls or faults.

`QuotesFitChunks` says what overlapping windows are for: a stretch of text up to one
unit longer than the overlap lies in one chunk.  A longer quotation may not, and
`analyze` then rejects it as evidence.

## Smaller observations

Met while reading the code; no run is devoted to them.

- `create_tag` (`db/operations.py:299`) accepts a parent that does not exist.  When the
  parent's number is later taken by the tag itself, the tree does not show it, and
  the recursive query of `get_tag_descendants` (`UNION ALL`) has no end.
- `find_tag_by_name` looks in the whole tree, so a path reuses a tag of that name
  under another parent, and a path of three names may end below the third level
  ("max 3 levels", `agents/dispersion.py:184`).
- When two ticks create the same part of a path at once, the one that comes second
  loses the rest of its path; the exception is logged and the sources become
  Processed all the same.
- `add_link` of `api/research.py` and `analyze` write the symmetric relation in one
  direction; the legacy `create_card_link` writes both.
- `upsert_fts_entry` names columns that the table does not have, and only logs
  the error (`db/operations.py:550`).
- `_auto_continue` (`llm/client.py:119`) reports "stop" even when the last continuation was
  truncated as well.
- `extract_json_from_llm` cuts a text at its last bracket before it tries to recover
  a truncated array (`agents/_parsing.py:69`).

## Proofs

`RunLifecycleProofs` proves, for any number of projects, runs, events, workers,
faults and lost locks:

- `TypeCorrect`: `TypeOK` always holds.  The inductive invariant `Typed` adds to the
  types that references lead somewhere (`Fits`): a delivery or a busy worker to an
  outbox row in use, a row in use to a run, an interrupted checkpoint and a
  waiting run to a gate.
- `AtMostOneActiveRun`, `StartedRunsRun`: `OneActiveRun` is not inductive by itself,
  because a worker's final transaction may make a run active.  It can do so only
  when `started_at` is set on a run that is not cancelled, and then
  (`StartedOnlyWhileRunning`) the run is running, so active already.  `StatusStep`
  lists the six ways in which any transaction changes a run; the invariant
  `ActiveInv` follows from that list alone.  The theorem needs neither the advisory
  lock nor the partial unique index.
- `CancelledStays`: `CancelledIsFinal`, from the same list.
- `LiveRunsHaveEvents`: `LiveRunHasEvent`: whatever closes an event leaves its run
  neither queued nor running, whatever queues a run inserts an event.
- `DoneProjectsAreSettled`: `DoneProjectIsSettled`: a run that completes was the one
  active run of its project, and whatever makes a run active again first takes the
  project out of 完成.

`PublicationProofs` proves the rest of the safety of `RunLifecycle`, for the same
constants.  It first brings each action into a normal form (`Effect`): what it does
to its worker, to the checkpoint and publication of the worker's run, and to the
status and revision of runs; `StepEffect` shows that every step has one, and the
later proofs split on those instead of the actions.  The invariant is
`PublicationInv`:

- `LockInv`: two workers never hold the lock of one run, and there are no more
  executions without their lock than connections were lost, as far as that
  matters (none, or one).
- `PublishedFirst`: whatever follows a publication finds it committed: a checkpoint at
  the end, a completed run, a worker leaving the last node.  This needs no lock.
- `Clean`, of a run that nobody but the holder of its lock has executed past
  `get_state` (`Undisturbed`): the gates before its checkpoint are approved, those
  after it undecided; a run that waits has a checkpoint stopped at that gate,
  which nobody has decided, and no execution past its first transaction; what the
  holder knows agrees with the checkpoint (`InStep`).
- `DraftApproved`, of a run whose execution has lost its lock on the way to the
  publication: however many workers execute such a run, none stops it at a gate
  again, so nobody raises its revision.
- `OutputInv`: with at most one lock lost, a run has as many outputs as publications,
  none or one, and a worker about to commit has the revision of its run or finds
  its revision taken.

From it follow `OutputOnce` (`OneOutput`), `CompletedRunsPublished` (`CompletedHasOutput`),
`ApprovedBeforeOutput` (`PublishedOnlyIfApproved`) and `ReviewedOnce` (`ReviewIsOfOpenGate`),
with the conditions on lost locks that these properties state.
`ReviewContractKept` is the refinement: as long as no lock is lost, the initial
states map to initial states of `ReviewContract` (every run waits for its first
stage), and every step maps to a decision about an open gate, a publication after three approvals, or a stutter.  TLC checked
`LockInv`, `PublishedFirst` and `PublicationInv` on the instance of `run_lock_lost`
before they were proved.

`BudgetedCallsProofs` proves, for any number of workers, nodes, contexts, queries
and any limits:

- `LedgerTyped` (`TypeOK`), `RequestsSentOnce` (`SentOnce`), `RequestsLimited`
  (`WithinLimits`), `BillsCovered` (`BillsAreCovered`).  A row is reserved before its
  request is sent and is never reserved again, so at any time at most one worker
  is about to send it: `CallsOwned` and `SearchesOwned` say that no two workers
  hold the same row, that the row of a worker that has yet to send is reserved
  and unsent, and that nothing is sent without a row.  `CallsCharged` says that what
  a row charges covers the bill; `Limits` counts rows.
- `RunKeepsItsCost` (`WithinCost`): the charges of all rows never exceed the limit, as a
  reservation adds its estimate below the limit and recording a result never
  charges more than was reserved; the bills are at most the charges.  The section
  before it states what these proofs need of sums over finite sets.

`EvidenceRoundsProofs` proves, for any sets, plans, answers, budgets and any
number of executions:

- `RoundsTyped` (`TypeOK`), `AnalysisFollowsVerdict` (`VerdictIsCurrent`),
  `ClaimsStoredOnce` (`ClaimsStand`), `NothingGatheredIsLost` (`EvidenceGrows`), from one
  invariant, `RoundsInv`: what a step says about the node of the checkpoint
  (`Flow`), how far a node at work may have departed from the checkpoint
  (`Gathering`), how its result relates to the state it began with (`Outcome`), the
  same for every recorded result (`Recorded`), that claims exist only from the
  analysis on (`ClaimsLate`), and that a round is begun only below the limit
  (`Rounds`).
- `RoundsCanSearch`: `QueriesSuffice`.  Its invariant adds that the queries still to ask
  fit the share of a round (`TodoOfRound`) and that what has been asked fits the
  shares of the rounds begun (`AskedWithin`); a repeated round asks what it asked
  before, because its plan is recorded.  `SharesFit` is the arithmetic: with fewer
  queries than rounds a share is one query, otherwise all shares fit.
- `RunKeepsItsBudget`: `WithinBudget`.  The checkpoint alone does not bound what a run
  stores, since an execution that dies has ingested texts its successor's state
  does not know.  `SourcesInv` says why they are not counted twice: a repeated round
  takes the same results in the same order, and everything ingested is within
  reach of the checkpoint's state up to the first result not yet ingested
  (`Replayable`); a worker's own state is a part of it (`InRound`, `InQuery`), and a
  recorded round has exactly what was ingested (`RoundsRecorded`).  TLC checked
  `SourcesInv` on the instance of `evidence` and on one of a single round with three
  queries and three executions.

`AgentBoardProofs` proves, for any chains of tasks, agents beyond the four, and
any number of tasks, retries, failures and faults:

- `BoardTyped` (`TypeOK`), `NothingBeforeItsDependencies` (`DependenciesFirst`),
  `DoneStaysDone` (`DoneIsFinal`), `FirstTasksEnd` (`FirstTasksGiveUp`).  `RowStep` lists the
  ways in which a row of the board may change, and the lemma `StepRows` shows that
  there are no others; the four properties follow from the list.  That an agent
  takes from a list read long ago is harmless because of `Listed` and `AtWork`: what
  it has read is still so, as nobody else touches a task of its that is Todo or
  Doing.
- `NobodyLeavesATask` (`NoTaskLeftBehind`), with `TicksApart`: agents act only while the
  scheduler waits for them.
- `EndIsSettled` (`EndedIsSettled`): from prism's look at the tasks to the end of the
  project everything is done (`Settled`), because an agent that could change that
  would be at a task that is Doing; `StepFits` ties prism's step to the project's
  status, `Approved` says the same of outputs.
- `OneSupplement` (`SupplementedOnce`): while nothing is aborted, the rows of a supplement
  and what prism has still to write of it are together one chain, and there are
  such rows only from the review that asks for them on (`SupplementInv`, which TLC
  checked on the instance of `board`).

`ProvenanceProofs` proves, for any number of executions, projects, addresses, texts,
calls and faults, and any window at least as long as its step:

- `RowsTyped` (`TypeOK`), `OneRowForEach` (`OneRowEach`), `ReceivesWhatItBrought`
  (`ReceivesItsText`), `ObjectsComeFirst` (`VersionsHaveObjects`).  The invariant adds that rows
  refer to rows (`Referring`), that whoever looks or writes has the lock of its
  address (`Locked`), that a text is in the store once its execution is past the put
  (`Stored`), and that what an execution has found under its lock is still what it
  would find (`LookedUp`); the last is why no row comes twice.
- `QuotesFit` (`QuotesFitChunks`): every version has all the chunks of its text (`Chunked`), and the
  window that begins at the last multiple of the step before a stretch covers it.

`MaterialFlowProofs` proves, for any number of ticks, tasks, rows and incidents, any
budget of searches and whatever the model answers:

- `SearchesWithinBudget` (`WithinQueries`): what `QueriesFit` says of cutting the keywords of
  a round to what is left, carried from round to round.
- `RowsAndTicks`: what rows look like and what a tick may have at hand at each step
  (`Shaped`); the other theorems rest on it.
- `RecordsAreKept` (`MergeKeepsRecords`).  Folds are defined by recursion over finite sets,
  so the proof first shows that the recursion has a value and just one (`FoldsExist`,
  `FoldsAgree`), then that the sum of the records of several answers does not depend on
  the order they are taken in (`AnyOrder`), and what has been merged after each turn
  of the loop (`MergesUpTo`).
- `DoneTasksLeftRows` (`NoEmptyDone`): a tick about to end its task has stored a row of the
  task or noted that there was nothing (`Settled`), and rows stay (`RowsStay`).
- `ProcessedSourcesWereAnalysed` (`ProcessedWasAnalysed`): what a tick is about to mark is on a
  card (`Marks`), and only marking, by a tick or by people, makes a source Processed.
- `DoneStaysDone` (`DoneUnlessReopened`): of an agent of which no tick was triggered there
  is one tick at a time, and what that has listed or is at work on is not Done
  unless people said so (`Steady`, `Open`).  It holds through failures, retries and
  whatever else people set, because only the tick itself ends the task it is at.
- `ScheduledTicksAnalyseOnce` (`DuplicatesHaveCause`): of a source that is not in `again`, all
  cards are of one task; while it is Collected that task's tick is about to mark it;
  and a tick that has read it finds no card of another task (`Once`, for each source).
  An exception between the cards and the marks breaks this for the sources not yet
  marked, and `again` has exactly those.

`KnowledgeGraphProofs` proves, for any names, relations, answers, ticks, people and
bounds:

- `GraphTyped` (`TypeOK`), `RowsAlwaysRefer` (`RowsRefer`) and `TagsAlwaysNameTheirPath`
  (`TagsNameTheirPath`), from `GraphInv`: the types; that what an agent has at hand, its
  cache included, are rows there are, with the names of its path unless somebody
  has renamed a tag (`Refers`); that the rows can be migrated unless somebody has
  named a tag that does not exist.
- `TreeIsWhole` (`TreeHasEveryTag`): a tag has the level of its place (`Leveled`) and is in
  the round of `Tree` of that level and in no other (`TreeShows`); the descendants are
  the tags with a way up to it.
- `GraphsAreNeighbourhoods` (`GraphIsNeighbourhood`): after n rounds the breadth-first
  search has visited the cards that a walk of fewer than n links reaches, those
  that one more link reaches are among these and the queue, and the links it
  returns are those at the cards visited (`SearchProgress`).

`Tree`, `Descendants` and `LinkGraph` are functions defined by recursion over 0 .. n.
That such a function exists is proved by giving it (`Iterates` and the lemmas after
it), and what it computes by looking at the least argument at which it would
compute something else.

The only assumptions are `RunConstants`, `CallConstants`, `RoundConstants`,
`BoardConstants`, `ProvenanceConstants`, `FlowConstants` and `GraphConstants`, which say
what the constants are (of the last two: that a search can find finitely many
addresses, and that a card has finitely many tags), and one condition,
that no lock is lost, in `ReviewContractKept`.

What stays with TLC: the liveness properties `EventSettles`, `RunSettles` and
`IngestEnds`, because the prover handles neither fairness nor ENABLED; and the four
violated properties, which are counterexamples.  Induction needs a detour, as an
induction theorem that takes a predicate as its parameter cannot be used: the
proofs apply instead that a set of natural numbers has a least element and a
collection of finite sets a smallest one.

## Not modelled

- Prompts, the text of model answers, the repair of JSON, retrieval ranking and
  embeddings: data.  They decide which of the answers of a model occurs, and the
  modules allow every one.
- `llm/client.py` and `llm/provider.py`: continuation of truncated answers and tool
  loops work on one call and return one answer.
- Audit rows, node events, the activity log, full-text search: written, and read
  by nobody who decides anything.
- Configuration, schemas, the frontend, HTML, the command line, deployment.
- Texts of brief, outline and draft, and what a reviewer edits (`Manuscripts` in the
  plan): the runs know approvals, not what was approved.
- `AgentBoard` has one project, and leaves out people who set the status of tasks or
  projects and a triggered tick of prism; ticks of the other agents beside the
  scheduler's are in `MaterialFlow`.
- A person may also set a project's status through the API (`api/research.py`, `PATCH`);
  that write is left out of `RunLifecycle`, whose `DoneProjectIsSettled` is about the
  status the runtime itself sets.
- Row locks of PostgreSQL, and time: `elapsed_seconds` counts against the time
  budget, whose end is an exception that `Raise` allows anywhere.
