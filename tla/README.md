# Orchestrator CLI: verification project

TLA+ models of the Orchestrator CLI: a local program that connects model
sources, keeps a registry of their models in SQLite, routes prompts to the
cheapest or best suited one, caches answers and benchmarks models. Paths below
are relative to `src/`.

## The system

| Component | Code | State it keeps | Operations |
| --- | --- | --- | --- |
| Accounts and model registry | `services/connect_service.py`, `services/account_service.py`, `db/repositories/models.py`, `accounts.py` | tables `connected_accounts`, `model_registry` | connect, sync, disconnect, list_enabled |
| Selection and policy | `core/model_selector.py`, `core/policy.py` | none | candidates, capable_models, decide |
| Routing pipeline | `core/router.py`, `services/routing_service.py` | table `traces` | route |
| Exact cache | `core/cache.py`, `cli/commands/cache.py` | table `exact_cache` | lookup, store, clear, stats |
| Benchmarks | `services/benchmark_service.py`, `core/benchmark.py` | tables `task_sets`, `benchmark_tasks`, `benchmark_runs`, `scorecards` | create, add-task, run, scores_by_model |
| TUI | `cli/tui/` | one session, statistics, history | one command at a time |
| CLI | `cli/commands/` | a session per command | each command one operation |
| Agent runtime | `agent/`, `core/llm_turn.py` | conversation, table `tool_calls` | turn, tool calls |
| First-run setup | `services/init_service.py`, `db/session.py`, `utils/crypto.py`, `cli/tui/app.py` | config and key files, the schema | init, first use by any command, migration of an older schema |
| Providers | `providers/` | none | list_models, validate_key, generate over HTTP; the conversation in each provider's format |

All state that outlives a command is in one SQLite file, a configuration file
and a key file. Any number of
processes open it: CLI commands, each with a SQLAlchemy session of its own, and
TUIs, each with one session for its whole life. They interact through the
tables only. Nothing locks across two statements: a handler reads, calls a
provider for seconds, reads again and commits, and SQLite serialises the
commits. Inside one process nothing runs concurrently; the TUI dispatches one
command at a time.

What is hard here, and hard to test:

- reads before a network call or a commit that are used after it, while other
  processes commit (upsert, store, clear, disconnect, route);
- the session: an identity map that keeps old values, a commit that makes them
  be read again, a failed flush that leaves the session unusable;
- several commits per operation (account, then models; cache, then trace), with
  an exception or a killed process between them;
- a home directory that comes to be by looks and writes of whichever command is
  first, any of which may be killed;
- identities that are computed, not stored: a model is its source key and its
  external id, and the source key depends on an account row that may be gone;
- weights and normalisation: a choice that mixes price, tier and score.

## Modules

| Module | Models | Composes |
| --- | --- | --- |
| `ModelRegistry` | accounts, registry rows, and connect / sync / disconnect as sequences of steps of several processes | `Catalogue` |
| `Catalogue` | what the registry promises to routing, with one step for each command | |
| `ModelRegistryProofs` | theorems about it | `ModelRegistry`, `Catalogue` |
| `RoutingPolicy` | `model_selector` and `policy` as operators | |
| `Routing` | the models and scorecards that change between two routes, and the properties of every decision | `RoutingPolicy` |
| `RoutingProofs` | theorems about it | `Routing` |
| `Router` | route and the exact cache, step by step, for several processes | |
| `RouterProofs` | theorems about it | `Router` |
| `Benchmark` | task sets, tasks, and benchmark runs call by call, with what a session has not written yet | |
| `BenchmarkProofs` | theorems about it | `Benchmark` |
| `BenchmarkRouting` | that `Benchmark` implements `Routing`, as routing sees scores | `Benchmark`, `Routing` |
| `BenchmarkRoutingProofs` | its proof | `BenchmarkRouting`, `BenchmarkProofs` |
| `Shell` | the TUI session: commands on accounts, interactive lists and status bar over one database session | |
| `ShellProofs` | theorems about it | `Shell` |
| `Transcript` | what Anthropic and Gemini are sent of the agent's conversation, as operators | |
| `Agent` | one run of the agent: turns, tool calls, their effects and their log | `Transcript` |
| `AgentProofs` | theorems about it | `Agent` |
| `Setup` | the home directory: configuration, key file and schema, made by whichever processes come first | |
| `SetupProofs` | theorems about it | `Setup` |
| `MC...` | small instances | |

A few abstractions keep the modules apart. `Router` lets a route select any
model that suits the question; which one it selects is the subject of
`Routing`. `Routing` takes the registry as the set that list_enabled returns;
how that set comes about is the subject of `ModelRegistry`. `Router` sees
connects and disconnects as steps of other processes that add or remove a
model with its account. All modules but `Setup` begin with a home that is set
up; `Setup` shows what commands find until it is. `Routing` takes a benchmark run as one step that adds
scores; that the many steps of `Benchmark` amount to such steps is the
refinement `BenchmarkRouting` states.

### ModelRegistry and Catalogue

State: `accounts` and `rows` are the two tables, `used` the uuids drawn,
`op[p]` the operation process `p` is in with everything its session has read,
and `clock` counts the instants the code reads from `datetime.now` and the
order of inserts.

| Action | Code |
| --- | --- |
| `ConnectStart`, `ConnectPersist` | connect up to the call of the source; the account's commit and the rows to upsert |
| `SyncStart`, `SyncInvalid`, `SyncDiscover`, `SyncTouch` | sync_account: resolve, failed validation, listing, last_synced_at |
| `UpsertRead`, `UpsertCommit` | upsert_models: its loop, which only reads (`autoflush=False`), and its transaction |
| `DisconnectRead`, `DisconnectCommit` | disconnect_account: the cascade's rows and the transaction that deletes them |
| `Abandon` | an exception nobody catches, or a killed process, at any step |

A session keeps its own account as it read it (`View`). An UPDATE of a row that
is gone raises StaleDataError, so `UpsertCommit` needs its rows and `Abandon`
is the other outcome; a DELETE of such a row is a warning, so
`DisconnectCommit` has no such guard. SQLite does not enforce foreign keys
here. Commands whose arguments are refused write nothing and are no steps.
Listings name a model once. Nothing ever clears `enabled`, so the flag is left
out. Wording, keys, display names and costs are left out: `Metas` stands for
what a listing says of a model.

`Catalogue` is what all this amounts to for routing: the source each account
stands for (`Sources`, by `_source_key`) and what list_enabled returns of it
(`Offers`: source, name, owner, content). A connect, a listing and a disconnect
are one step each. A listing changes the offers of its own source and no
others; a disconnect takes away the offers its account was the first to name.
`ImplementsCatalogue` says that the registry is one: the commit of an account is
`Connect`, that of an upsert `Listing`, that of a disconnect `Disconnect`, and
everything else, failures included, is no step at all. The code keeps this,
like the exactness of the table, only if operations that overlap are about
different sources, which is `ApartSpec`: any number of processes, each at a
source of its own, or one process that does what it likes.

### RoutingPolicy and Routing

A model is a record with its place in list_enabled's order; every sort of the
code is stable, so a sort is a total order and a winner is the member no other
precedes. Prices and scores are integers (a score of `Grain` is 1.0), weights
are doubled and `Score` is the code's sum times a common denominator: ties are
exact, and rounding of floats is left out. Only the tiers `small`, `balanced`
and `large` occur in the sources. A policy is a record of its weights, as in the
code; `LocalAuto` in `MCRouting` is a policy decide accepts and `_explain_auto`
words ("local-only"), although no preset is made of it.

`Routing` adds what changes between two routes: `Refresh` and `Withdraw` a
model, `RunBenchmark`. A run scores the models that were enabled when it began,
which need not be so any more when it ends: any models of the catalogue.

### Router

State: the `cache` table, `runs` (what each route was asked, whether the
provider was paid, which traces it left, how it ended), the registry's
`models`, `op[p]`, `broken` shells and the `clock`.

| Action | Code |
| --- | --- |
| `Lookup` | route up to the cache read: classification, policy, `get_cache`, the read and the TTL check |
| `HitCommit`, `HitServe` | the UPDATE of hit_count; the entry read again, the trace, the result |
| `Select` | list_enabled and decide, and the four ways out: empty registry, unknown task set, no suitable model (traced), dry run |
| `ReadAccount` | the account and its key |
| `GenerateFails`, `GenerateInvalid`, `GenerateOk` | the provider's answer and validate |
| `StoreRead`, `StoreCommit` | ExactCache.store |
| `Trace`, `Return` | the model row read again, the trace, the result |
| `ClearRead`, `ClearCommit` | ExactCache.clear: all entries, those of a task type, those of an age |
| `Connect`, `Disconnect`, `Tick` | other processes, and time |

Sessions expire on commit, so the attributes of the selected model are read
again after store's commit (`Trace`) and after the trace's (`Return`), and a
row that is gone raises. A commit that fails in its flush (`HitCommit`,
`StoreCommit`) leaves a session that must be rolled back. A CLI command closes
its session; a shell keeps it, and its next status refresh raises outside any
`try` (`Break`). A question is a cache key: prompts that normalise to the same
text, task type and quality are one. Hit counters and the error of a
configured semantic cache are left out. With the cache off, every route goes the way of
one under an explicit policy. Killing a process in the middle of a route is
not modelled: what it would leave behind is what a disconnected model leaves
behind at the same place.

`ApartSpec` is for what the code keeps only of operations that stay out of each
other's way. `Entries` are the cache entries an operation may read or write: the
one of its question, for a route under the default policy, or those a clear has
collected. Operations that overlap have none in common, and no model is
disconnected while a route that selected it is under way. Routes under explicit
policies have no entries and overlap with everything.

### Benchmark and BenchmarkRouting

State: `sets` and `tasks` (the names of the sets in the order of `created_at`,
and how many tasks each has), the tables `runs` and `cards`, `added[p]`, the
rows in `p`'s session that no commit has written, `op[p]`, the run `p` is in,
and the enabled `models`.

| Action | Code |
| --- | --- |
| `Create`, `AddTask` | create_task_set; add_task to the newest set of the name |
| `Start` | `benchmark run` up to the first call: set, models, tasks, the run's row |
| `Grade` | one call of generate_fn and grade, which is a coin |
| `Score` | the scorecard of a model, and on to the next |
| `Finish`, `Fail` | the commit; the rollback, or the end of the process |
| `Connect`, `Disconnect` | other processes |

The docstring of run_benchmark says the run's row is flushed by a lazy load;
`db/session.py` sets `autoflush=False`, so it stays in the session until a
commit writes it. Every commit of a session writes all it holds: that is why
`Commit` is part of `Create` and `AddTask` as well. Averages of latency and
cost are left out, and so is a shell that has read the tasks of a set, was
refused, and reads the same list again before its object is collected.

`BenchmarkRouting` maps `Benchmark` to `Routing`: a scorecard is its set, its
model's name and its pass rate in parts of `Grain`. `ImplementsRouting` says
that each step either leaves models and scores alone or is a `Refresh`, a
`Withdraw` or a `RunBenchmark`. The properties of `Routing` that compare
a decision before and after a run therefore speak of real runs, however long
they take.

### Shell

State: `account`, the status of each row of `connected_accounts` and how it
left; `loaded`, what the session's object of each account holds; `shown`, the
accounts of each open AccountsWidget; `at`, the handler that is running;
`posted`, the Disconnected messages not handled yet; the `bar`; and `cached`,
the questions whose answers are in the exact cache. Two variables are history
the properties need: `changed`, the accounts others have invalidated since the
session's last commit, and `raced`, whether others have stored or cleared the
answer of the running route since it looked for it.

| Action | Code |
| --- | --- |
| `AccountsList`, `AccountsDisconnect`, `NotFound` | the commands `accounts list` and `accounts disconnect` |
| `SyncStart`, `SyncInvalid`, `SyncUnreachable`, `SyncDone` | `accounts sync` up to the network call, and how it goes on |
| `Connect`, `ConnectDone` | `connect` up to the account's commit; the models, the refresh, and the report |
| `CommitFails` | a commit of a sync or a connect finds a row gone |
| `Route`, `RouteCommit` | `route` under the default policy up to its last look at the cache: a hit, or store's; the commit of either, which finds the entry as it was or fails |
| `Work`, `Look`, `Clear`, `Quit` | commands whose commits cannot fail in their flush (benchmarks, `cache clear`, routes that leave only a trace), that only read or are refused, and the two sentinels |
| `Kill`, `KillRefused`, `ViewId`, `RowRaises`, `Close` | the keys and buttons of a list |
| `Disconnected`, `UpdateStatus` | the list's message; `_update_status` |
| `OtherConnects`, `OtherDisconnects`, `OtherInvalidates`, `OtherStores`, `OtherClears` | CLI commands and shells of other processes |

A handler runs to its end before the next one starts; other processes do not
wait for it. SQLAlchemy is modelled by three rules. A query returns the
session's own object of a row and leaves it as it is unless it has expired. A
commit expires every object; the next use of an expired one reads its row and
raises when there is none. A deleted object keeps what it had loaded, which is
why `_do_disconnect` can word its message after the commit. The identity map is
weak: only what a list shows is kept. List and table of a widget lose the same
row in one handler and are one set here; ids are given in full (abbreviated
ones are a subject of `ModelRegistry`). A failed commit and the status refresh
it breaks are one step, `Crash`. That is so for a route as for a sync: `Work`
has nothing but commits that insert rows with ids of their own or delete rows,
where a missing one is a warning; what a benchmark run has failed at is rolled
back. What a route answers and whether
the entry it finds is fresh are subjects of `Router`. The history of the prompt, the session's
quality and cost, the number of models and the layout are left out.

### Agent and Transcript

State: `messages`, the turn's `calls` without a result, the `result` of the
tool just executed, `turns`, `at` (where the loop is), the `log` (table
`tool_calls`), the `session`, the `files` by who wrote them last, and `stray`,
a process that outlived its tool. Two variables are history the properties
need: `lost`, the files of the user that are lost, and `fresh`, that the user
has saved the file which write_file has just not found.

| Action | Code |
| --- | --- |
| `Plan` | plan_preamble with a routed plan, whose failures are swallowed |
| `TurnFails`, `Answer`, `CallTools`, `Exhaust` | agent_chat_turn and the loop's ends |
| `Refuse`, `Crash` | dispatch_tool: arguments that are no JSON, or no tool; arguments that are no object |
| `Read`, `Search`, `WriteCheck`, `Write`, `Run` | the tools; write_file tests for the file, then writes it |
| `Log`, `LogFails` | run_logged: the committed row and the result, or an exception |
| `Edit`, `Stray` | the user, and processes that a tool left behind |

`run_python` and `run_shell` are `Run` where they are enabled and `Read`, a
logged refusal, where they are not. Size limits, blocked patterns and path
resolution are among the reasons for a tool to fail; `Barred` stands for every
path resolve_path refuses. The arguments of a call are an object, some other
JSON value, or garbled; `Asks` bounds which tool is called with which. Ids of
calls are the provider's and unique in their turn; those of different turns
may be the same, as they are with providers that number them. What code that
is run writes is the agent's; what it deletes is nobody's.

`Transcript` converts the conversation as the adapters of Anthropic and Gemini
do, with the places where they repair what they are given; OpenAI and Groq get
it as it is. The texts, the goal and the system prompt are left out.

### Setup

State: `config` and `keyfile` by what is in them, whether the `db` file exists,
its `tables`, the `columns` a later release has added to connected_accounts,
the keys of the stored `tokens`, `op[p]` with the steps that are left of `p`'s
command, the number of `crashes`, and `raced`, which a property needs: that a
process found no key file while another was about to write it.

| Action | Code |
| --- | --- |
| `Start`, `Enter`, `Quit` | a CLI command, a command of a shell, its end |
| `Look`, `Truncate`, `Fill` | run_init: the test for config.toml, its creation and its text |
| `Edit` | the user saves config.toml |
| `Open`, `Alter` | get_engine: the file, the look at the columns, one ALTER each |
| `Inspect`, `Create` | create_all: the look at the tables, one CREATE TABLE each |
| `Provision` | ExactCache's own table, on its first use |
| `Boot`, `Refresh` | create_app: run_init for a home without a database, the schema, the first queries |
| `Generate`, `Erase`, `Write`, `Load` | ensure_key: the look, the new key, the file's creation and its text; or the key that is there |
| `Accepted`, `Refused` | connect's calls of the provider: the key validates and the models are listed, or an error ends the command |
| `Insert` | connect's commit of the account with its token |
| `Crash` | a killed process, between any two steps |

A command is the list of its steps, and a step may put others in front of the
rest: what a look has found decides what is done. SQLite commits each ALTER and
CREATE TABLE by itself and refuses one that has been done, which ends the
command (`End`), not the shell it was entered in. Only the tables matter that
some step is about. A write is not torn, no disk is full, and no file
disappears. A key is named by the process that generates it; as the key file
exists from then on, no process generates a second one. A connect brings a key
to store; one to a local source without a key has fewer steps.

## Checks

Every run finishes its state space. Deadlock is off in all of them: users may
stop typing commands, and the bounds end.

| Run | Question | Bounds |
| --- | --- | --- |
| `apart_sources` | Is the registry exact, and a catalogue to routing, when operations that overlap are on different sources and ids are full? | 2 processes, 2 accounts, 2 providers, 3 spellings of 2 endpoints, one name, 2 contents, 5 instants |
| `concurrent` | What survives every interleaving? | 2 processes, 2 accounts, an abbreviation, 4 instants |
| `routing` | Do the policies choose as they say, how much does benchmark evidence weigh, and what may a run or a leaving model change? | 32 requests under seven policies; sets of up to 5 of 8 model records, with scorecards up to 3; 2 task sets, 2 cards, scores in sixths |
| `overlap` | Is every answer right, and does every operation end, when routes and clears overlap? | a shell, a CLI process, 2 routes, 2 questions, 2 instants |
| `apart_routes` | What holds when operations that overlap are about different cache entries? | 2 shells, 3 routes, 2 questions, one model that comes and goes, TTL 1, the clock up to 2 |
| `benchmarks` | Are runs whole, and is a run one step to routing? | a shell, a CLI process, 2 models, 2 sets of one name, 2 tasks, 2 runs |
| `tui` | May a list be out of date, and what can end the app? | 3 accounts, 2 lists, 1 question |
| `agent` | Does a run end, with a conversation every provider understands and a log that explains the files? Is what the user wrote kept? | 2 turns of three calls between them, one file, every form of arguments |
| `setup` | Does a home come to be, and an old one come up to date, whoever gets there first and whoever is killed? | 2 processes, 1 crash, a home without anything or one of an older release |

Why the bounds are enough for the question asked: the hazards of the registry
need two sessions, or two accounts of one source, and one model to fight over;
a third process adds no new pair of read and commit. Five instants let an
account be connected, another one too, and one of them be synced and
disconnected after it. In the router two overlapping operations meet at each
pair of their steps; entries that expire, and a third route that hits what a
second one refreshed, occur in `apart_routes`. One model suits every question there
and in `overlap`: a question that no model suits is refused by the step that
refuses what an explicit policy rules out (`Select`). The models of `routing` include a pair for
each conflict: price against tier, price against score, window against tokens,
name against endpoint, free against dear. Scores in sixths meet the margin of
`EvidenceDominates` exactly. Two benchmark runs can overlap, follow one another
in a session, or be about a set that has grown or has a namesake in between.
Three calls in two turns are what pairing and the order of the log need:
a call after a call, and a turn after a turn. Two processes meet at each pair
of a look and a write of `setup`, and one crash falls between any two steps of
one of them, with the other before, beside or after it. Two lists show one account twice, and a third
account is there to be changed by others while the first two are; a route is
about one question, and others meet it in storing or clearing that one. What is
proved holds without bounds.

`apart_sources` and `apart_routes` state more than `concurrent` and `overlap`,
because the code keeps more when operations stay apart. Part of the difference
is what the violation runs show:

| Run | Violated | What happens |
| --- | --- | --- |
| `shortid` | `NoOrphanRows` | a sync by abbreviated id inserts rows owned by the abbreviation |
| `resync` | `SyncRevalidates` | an account stays invalid after its key validates again |
| `unpaid` | `NothingPaidIsLost` | two processes route one question, both miss and both pay; the second INSERT of store fails, and that valid answer is lost without a trace |

`unpaid` is run of `RacingSpec` in `MCRouter`: routes under the default policy
only, nobody clears the cache, and no model is disconnected. Without these
limits a paid answer may be lost in other ways, which this run does not show:
store refreshes an entry that has been cleared since it was read
(`StoreCommit`), or the model is disconnected before its row is read again for
the trace (`Trace`) or, with the trace already written, for the result
(`Return`).

Other places where texts and code part, visible in the modules' actions and
not refuted by a run: the TUI reports a failed commit but issues no
rollback, and the status refresh that follows raises PendingRollbackError
outside any `try`, so one failed route, sync or connect ends the app (`Break` in
`Router`, `CommitFails` and `RouteCommit` in `Shell`; cli/tui/dispatcher.py:207,
:352, :396, app.py:327; `EndsByOthers` says what it takes);
`_do_disconnect` notifies of every error of disconnect_account, but reads
`account.id` before its `try` (cli/tui/widgets.py:156, `RowRaises`); an account
that another process disconnects while connect is at work is reported as an
internal error (`ConnectDone`); two overlapping syncs of one source both insert
its models, and a later one refreshes the row its scan meets first
(db/repositories/models.py:111-115), which need not be the one that
list_enabled returns (`UpsertCommit`), although cli/commands/accounts.py:52
says it refreshes the model list; Auto prints "then chose the cheapest model
that clears it" (core/policy.py:237-238) also of a dearer winner its scorecard
chose (`AUTO_POLICY`); the CLI runs an empty task set and scores every model
zero, which the TUI refuses (cli/tui/dispatcher.py:667-673, `Start`); arguments
that are JSON but no object end an agent run, where dispatch_tool promises a
structured result (agent/dispatcher.py:25, `Crash`); such arguments of an
unknown tool or of run_tests end nothing and reach Anthropic as the input of a
tool_use, which must be an object (providers/anthropic/adapter.py:51; Gemini's
adapter repairs them, `Transcript`); write_file overwrites a
file that appears between its test and its write, although
schemas/tools.py:36 says it refuses (`WriteCheck`, `Write`; the exception in
`UserFilesKept`); a failed plan,
which is optional, may leave a session in which the run cannot go on (`Plan`);
a refusal for want of models, an unknown task set
or a missing account, and a dry run, leave no trace (`Select`, `ReadAccount`),
although README.md:33 promises one for every route; `benchmarked` takes a free
model over one that scores up to a sixth better (`EvidenceDominates` has the
exact margin), although README.md:195 says it prefers the highest-scoring one;
when no model reaches Auto's floor the cheapest is taken, not "the best
available" (core/policy.py:243); the fallback chain leaves out a second
endpoint of the winner's model (`Fallback`); namesakes share their scorecards
(`ScoresByModel`); a clear by age deletes an entry that was refreshed after it
was selected (`ClearCommit`); `cache inspect` reads the table cache_entries
(cli/commands/cache.py:69), which nothing fills. Of a home directory: two
processes that generate a key at once leave a token nobody can read (`raced`,
utils/crypto.py:21-25); one that is killed between creating the key file and
writing it leaves an empty key file, which every later connect takes for a key
and fails on, and which nothing repairs (`Keyless`); a connect before any init
creates the database file but no table and fails, and as the file exists the
shell's first start no longer runs init, so config.toml is never written
unless init is run by hand (`Boot`, cli/tui/app.py:400-403);
`_run_post_init_connect_handoff` is called by tests only.

Fairness: `overlap`, `agent` and `setup` assume weak fairness of the next step
of each process, or of the loop; nobody else owes a step. A process that was
killed has no next step. That users try again is a premise of `ShellComes` and
`AccountComes`, not an assumption of the specification. So is, for
`AccountComes`, that a provider which is asked again and again accepts again and
again: a connect may be refused each time (services/connect_service.py:59-60,
:91-92), and weak fairness of a process does not say which way its call ends.
No step waits for another process, and each provider call has a timeout
(`providers/ollama.py`, `providers/openai_compatible.py`, and the SDKs' own),
so an operation in progress is one whose next step is always possible. So has
each subprocess of a tool (agent/tools/execution.py:62, :122, :162).

Symmetry (of names and contents, of routes, of accounts and lists) is used in
runs without liveness only.

## Proofs

`ModelRegistryProofs`, for all constants that satisfy the module's assumptions:

- `TypeCorrect`, by `TypeInv`, which adds what a unit of work is made of: names
  of the operation's listing and ids.
- `OwnerProvider`: a row names the provider of its owner, if that is connected.
  Inductive as part of `OneProvider`: operations, accounts and rows that speak
  of one account agree on its provider, also while the account is not in its
  table yet or no more.
- `RowIdentity` and `RowsLeave`, with `FreshIds` (an id to be inserted is not
  taken) and `Collected` (what a disconnect will delete is its account's).
- `RegistryExact`: without abbreviations, and as long as operations that overlap
  are about different sources (`ApartSpec`), `NoOrphanRows` and
  `UniqueIdentity`. The invariant `Exact` adds that no two operations are about
  one account, and `SessionOf`: what an operation has read is still so, namely
  that its account is connected with the url it read, that no row has the
  identity of one it is about to insert, and that it has collected every row of
  the account it is about to delete. What the step of another process does to
  that is shown once for all its actions: it changes rows of its own source and
  its own account only (`RowsAfter`, `OthersStep`), and the key of a row does not
  change while its owner stays (`KeyOfRowKept`). `IdentityIsUnique` is the second
  part of `RegistryExact` by itself.
- `UpsertIsRoutable`, with the same proviso, for `UpsertReachesRouting`.
  `UnitExact` says of the unit of work of an upsert: every row it will update is
  there and of its source, and each model of the listing is to be inserted, to
  be updated, or says already what it should. As identities are unique, the row
  that is updated is the one list_enabled returns. `UpdatesFindTheirRows` is the
  first half: no upsert fails because a row it is to update has gone.
- `Refines`, with the same proviso: every behaviour of the registry is one of
  `Catalogue`. As identities are unique, list_enabled hides no row
  (`Unshadowed`), so an offer is a row; `ConnectShows`, `UpsertShows` and
  `DisconnectShows` map the three commits to the three actions, and
  `OtherStepsShowNothing` all else to a stutter. Each takes its part from the
  invariant: a listing adds exactly the names its source did not offer because
  `fresh` is still what the loop found, and an account takes exactly its own
  offers with it because a disconnect has collected all of its rows. `Catalogue`
  asks for fresh accounts and connected ones only, and that too has to be shown.

`RouterProofs`, likewise:

- `TypeCorrect`, by `TypeInv`, which adds `Asked`: the run of an operation that
  is a route has its question.
- `RightAnswers`, `CacheCorrect` and `OneTrueTrace`, for `AnsweredRight`,
  `CacheHoldsAnswers` and `TracesTell`, by one invariant, `Inv`. None of the
  three is inductive: that an answer is stored only when it is paid, valid and
  made under the default policy, and that a trace is the first, is known from
  where the route is. `Progress` says so (`Fits` relates an operation to its
  run), and `Apart` that no two processes are at the same run. Each step of a
  route is shown to be one of `Moves`: it takes nothing back, fits again or
  ends, leaves traces that tell, and puts nothing into the cache but its own
  answer. `MovesKeep` then needs no case for each action. A new route takes an
  unused run, which is not valid and so nobody's answer (`LookupKeeps`).
- `PaidIsKept` and `FreshHits`, for `NothingPaidIsLost` and `HitsAreFresh`, as
  long as operations that overlap are about different cache entries and the
  models in use stay (`ApartSpec`). The invariant adds `Undisturbed`, that what
  an operation has read is still so: the entry it hit is there and fresh, the
  one it is about to store is there or not as it found, the model it selected is
  enabled. A step of another process changes none of this, as what it writes is
  among its own entries (`OwnEntry`, `OtherEntries`, `OthersStand`). So none of
  the ways out after the payment can be taken (`RouteLosesNothing`).
- `SessionsWork`, from the same invariant: no commit of a route fails, so no
  shell is left with a session that refuses to work.

`RoutingProofs`, for any catalogue and any requests:

- `TypeCorrect`, by `Inv`, which adds that finitely many models are enabled: a
  least or greatest exists only then.
- `DefaultChoosesCheapest`, for `DefaultIsCheapest`: the winner is the first of
  a sorted pool (`Cheapest`), and the pool is the eligible models.
- `AutoRespectsFloors`, for `AutoKeepsFloor`: a filter that may be lifted is
  lifted only when it leaves nobody.
- `EvidenceIsDecisive`, for `EvidenceDominates`, whatever the prices, windows
  and scores. `Weighed` writes `Score` with its two divisors named, which are
  at least 1 and no less than any price or window (`DivisorFacts`); the margin
  is then a comparison of sums of products.
- `RunsMoveOnlyTheirModels`, for `BenchmarkMovesOnlyItsModels` and any policy.
  More scorecards give every name the same or better evidence
  (`EvidenceGrows`), and names without a new card the same, so a winner of
  before can lose only to a name with a new card (`ScoreGrows`, `Winner`).
- `LocalPoliciesStayLocal`, for `StaysLocal`: winner and fallback chain are
  drawn from the pool, and a hard filter is one no pool lifts (`PoolIsFiltered`).
- `LosersLeaveUnnoticed`, for `LosersDoNotMatter`. Under the policies of the code
  that read no scorecards, the order of scores is by tier, if tiers count at all,
  and then by price, whatever the dearest model of the pool
  (`ScoresByTierThenPrice`: their weights are either without a tier or large
  enough that no price outweighs one). The choice is then the first of the pool
  in an order that does not depend on the pool (`ChosenByTierThenPrice`). It is
  not true of any weights, so the theorem rests on `PoliciesAssumption`: requests
  name policies of the code.

`BenchmarkProofs` and `BenchmarkRoutingProofs`, likewise:

- `TypeCorrect`, and `WholeRuns`, for `RunsAreWhole`. What the tables hold is
  whole only because of what the sessions hold, so the invariant `Inv` says
  three things. `Pending`: a session between two runs has nothing to write, and
  one in a run has the run's row and one scorecard for each model it has done.
  `DistinctIds`: no two runs, written or pending, share an id, so nobody's
  scorecards complete another's run. `Written`: what is written is whole. A
  commit moves a whole run from the session to the tables; a rollback, or the
  end of the process, leaves nothing pending.
- `Refines`: every behaviour of `Benchmark` is one of `Routing` under the
  mapping of `BenchmarkRouting`. `Finish` is a `RunBenchmark`, or a stutter
  when it adds nothing to what routing sees; connects and disconnects are
  `Refresh` and `Withdraw`; all else is a stutter. `Routing` bounds the cards,
  so the proof must show that the bound never stands in the way: `Room` counts
  the cards of a run by its models and its sets by `MaxSets`.

`ShellProofs`, for any number of accounts, lists and questions:

- `TypeCorrect`, `Lags`, `Counts`, `Ends` and `Kills`, for `TypeOK`,
  `LagsOnlyBehindOthers`, `BarCounts`, `EndsByOthers` and `KillKills`, by one
  invariant. `Fits` relates what the session holds of an account to how the
  account left the table: one that the shell has dropped is deleted in the eyes
  of its session and never expired, so its rows answer for ever; an expired
  object without a row is therefore one that somebody else has taken.
  `SeenFits` says the same of what a running command has read, and `RouteFits`
  of a running route: the entry it looked for is there or not as it found,
  unless others have stored or cleared it since (`RouteStep`). Steps are of two
  kinds, those that read or forget objects (`Reads`) and those that commit
  (`Commits`), and each kind is shown once to preserve the invariant.
  `BarCounts`, like `RowIdentityFixed` in `ModelRegistryProofs`, is proved only
  and part of no run.

`AgentProofs`, for any files, number of turns, and calls:

- `TypeCorrect`, by `Typed`, which adds that each turn but the last left
  something in the conversation.
- `UserFilesAreKept`, for `UserFilesKept`, by `Kept`: a write that is about to
  happen was allowed by its look (`MayStillWrite`), and a process left behind
  comes from a call in the log (`StrayWasRun`).
- `ResultsFollowTheirCalls` and `TranscriptsAreSent`, for `WellPaired` and
  `TranscriptsSent`, by `Conversation`. `Pending` says that the calls without a
  result are the rest of those of the last turn; the other parts, that turns
  lie apart, results stand in order, nothing else stands between, ids count the
  calls of a turn, and arguments that make a tool raise never get a result. The
  name Gemini is given is that of the latest call with the id of the result, and
  that is its own, as its turn is the last before it.
- `TheLogTells`, for `LogTells`, by `Logged`: the rows are the results that the
  model was told, in their order.

`SetupProofs`, for any number of processes and crashes:

- `TypeCorrect`, by `Typed`. What is left of a command is not any list of
  steps: `Shaped` gives the forms it may have, and `Holding` says when a
  process has a key, which no type could say.
- `EditsAreKept`, for `EditsKept`, by `EditSafe`: once a user has saved a
  configuration nobody is about to write one.
- `SchemaIsReady`, for `SchemaReady`, by `SchemaSafe`: what a process has seen
  of the schema stays true, as the schema only grows (`Grows`), or it has the
  step that makes it true ahead of it.
- `TokensAreReadable`, for `TokensReadable`, by `KeySafe`: without a race, a
  process that writes the key file is alone with a key and no token is stored,
  and any other with a key has the one of the file.

Left to TLC: liveness under fairness (`OperationsEnd`, `RunEnds`, `ShellComes`,
`AccountComes`), which the prover cannot express. Every other property of a
passing run is a theorem. That the registry is exact and a catalogue, that
nothing paid is lost and hits are fresh is proved where operations stay apart,
as the code keeps none of it where they do not; what it keeps even then
(`OwnerProviderAgrees`, `RowsLeaveWithOwner`, `AnsweredRight` and the like) is
proved of `Spec`.

## Plan

Done: every component whose state outlives a call has its module, and every
property of a run but those above its proof.

Worth adding, in this order:

1. The history of the TUI's prompt, and the session cost and quality, in
   `Shell`.
2. `Orchestrator`: registry, routing decision and router composed, to show that
   a route calls the provider with the key of the account that listed the
   model. `OwnerProviderAgrees` is the part of it that `ModelRegistry` can say.
3. A second abstract specification: a cache that is a map from questions to
   answers, implemented by `Router`.
4. Macro expansion of the agent.

## Not modelled

Classification, validation and cost estimation are regular expressions, a JSON
parser and a multiplication; what they return is an input of the models.
Encryption is that a token is read with the key it was made with. Listing a
provider's models and asking it are calls that return anything or fail; how
requests to them are worded is left out, but for the agent's conversation.
Terminal output, argument parsing and the queries of `trace`, `model` and
`accounts` that change nothing have no state of their own. The connect handoff
of init is called by tests only.
