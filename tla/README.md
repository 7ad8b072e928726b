# Verification of the state-driven agent (Rust runtime)

TLA+ models of the durable core of the state-driven agent, as implemented in
`agent-rust/src`: model-checked with TLC on small instances, and proved with
TLAPS where the argument should not depend on the size of the instance. Paths
and line numbers below are relative to the repository.

The agent keeps every session in PostgreSQL. Several agent processes share one
database; a request may be retried by its client, executed by a process that
dies, and executed again by another one. None of this may lose an update, apply
a command twice, repeat an external effect or leave rows that contradict each
other. Above that durable core, the engine must keep its own promises over runs
that stop anywhere: the order of a workflow, its limits, a history the provider
accepts, a transcript without gaps, an event stream a client can rely on.

## 1. Inventory

| Component | State | Operations | Interacts with |
| --- | --- | --- | --- |
| Session repository (`main.rs`) | `agent_sessions` (state, revision, lease owner, fence, expiry), `agent_commit_receipts`, `agent_session_events`; per handler a `Session` with `pending_commit_id` | `load`, `acquire/renew/release_execution_lease`, `save` / `save_inner` | every handler; `commands::guard` and `finish` run inside its transaction |
| Command admission (`commands.rs`) | `agent_commands` (status, owner, fence, expiry, response, admission) | `admit`, heartbeat, `guard`, `finish`, `administrative` | wraps every POST handler |
| External actions (`actions.rs`) | `agent_tool_executions`, `agent_action_attempts`, `pending_tool_calls` | `dispatch`, `recipient`, `write_tool_executions` | called by the engine; each step is a `save` |
| Run lifecycle (`main.rs`, `reconcile.rs`) | `agent_runs` (status, cancel_requested), `Session.run_*`, `Session.status` | `run`, `lifecycle` (stream, resume), `cancel_session`, disconnect watcher, `reconcile-runs` | ties session, runs and commands together |
| Decision engine (`engine.rs`) | workflow phase, evidence, counters, memory | `run`, `settle_pending`, `advance`, `observe_progress`, `compact` | emits checkpoints to the lifecycle |
| Event stream (`events.rs`, `sse.rs`) | stored events, a channel of 32 events | `stream`, `event_channel` | reads what `save` wrote; its loss cancels a run |
| Context and compaction (`context.rs`, `engine.rs`) | the message history, the ledger, the counters of the policy | `interaction_groups`, `split_history`, `compact`, `finish_compaction` | the engine, before every request |
| Transcript and integrity (`engine.rs`, `main.rs`, `integrity.rs`) | `agent_session_transcript`, `agent_session_context`; per worker an outbox with provisional numbers | `record`, `stage_transcript`, acknowledgement, checks of a load | staged by the engine, written by `save` |
| Diagnostics (`diagnostics.rs`) | `agent_session_diagnostics`, counters, an outbox | `record`, flush, `hydrate` | written by `save`, checked by `load` |
| Retention (`retention.rs`) | archive files, `agent_archive_receipts` | `export`, `verify`, `prune-telemetry` | operator processes beside the workers, under the same lease |
| Tools, identity, provider log, configuration | none, or files | pure functions and I/O | engine and admission |
| Go, Java and Python ports | the same database | the same contract | — |

Hard behaviours, and what correctness means there:

* **Session repository.** `run` loads *before* it acquires the lease; COMMIT may
  be lost, or may still be open on the server while the client retries or is
  gone; leases expire while a transaction is open. Correct: no lost update, no
  proposal applied twice, what `save` reports is true, fences only move forward.
* **Command admission.** `admit` is a sequence of separate statements; claims
  expire under slow holders; the heartbeat is a task of its own. Correct: one
  effect per key, made from the admission that was frozen first, recorded
  outcomes never change, a live claim is never stolen.
* **External actions.** A replaced worker keeps running until its next
  checkpoint and may be inside an external call. Correct: a call is recorded
  before it is made, an action that may not be repeated is called once, the model
  sees one result and it is the recorded one.
* **Run lifecycle.** Cancellation, takeover by another command, reconciliation
  by an operator and re-execution of the same command meet in the same rows.
  Correct: one running run, which is the session's; a settled command has one
  run that ended; closed runs are not rewritten; the command of an interrupted
  run becomes uncertain.
* **Decision engine.** What a step changes after its last checkpoint is lost by a
  crash; limits count across runs; a batch may stop between two calls and be
  settled by another process, in a session that has been resumed. Correct: a
  batch acts in the phase it was scheduled in, evidence comes from tools and
  stays, a task completes only with its evidence, no tool runs after the terminal
  edge, the counters are the numbers they stand for, every run ends unless a tool
  never returns (tools have no timeout).
* **History and compaction.** A run may stop between a call and its result;
  providers repeat ids; summaries fail or grow. Correct: the history always
  splits into complete interactions, ids are unique for the session's life, the
  newest messages stay, a summary makes the request smaller, `compact` ends.
* **Transcript.** The engine numbers entries before they are saved; a checkpoint
  saves a clone and acknowledges it afterwards, so the outbox may be replayed.
  Correct: a replay is never refused, nothing recorded is lost, the rows are in
  order, every committed context passes the checks of a load.
* **Event stream.** A bounded channel, a client that is slow or leaves, a watcher
  that turns a lost client into a cancellation, streams that reconnect; `emit` may
  fail after its commit, and then the event is not sent. Correct: commit order, no
  gap but such an event, which the error event follows, no cancellation by a client that read to the end, a
  cancelled run stops at its next event, a stream that is read comes to its end.
* **Retention.** A prune is decided on an archive made earlier, by another
  process, while runs go on. Correct: it deletes nothing that is not in a
  verified archive or that recovery needs, and the session still loads.
* **Row locks.** `run_interrupted` updates the command of another transaction
  while it holds the session. Correct: no cycle of locks as long as claims are
  live, and every transaction ends.

`PROJECT.json` lists the hazards line by line with the property that covers each.

## 2. Modules

| Module | Models | Role |
| --- | --- | --- |
| `RevisionLog` | — | abstract: what a repository promises (an append-only history of proposals, truthful reports) |
| `SessionStore` | `load`, lease, `save`, `save_inner`, `create`, `message`, `run` as writers | implements `RevisionLog` |
| `IdempotentCommand` | — | abstract: what a keyed command promises |
| `CommandRow` | the `agent_commands` row and each SQL statement on it | shared by the next two |
| `CommandLedger` | `admit`, heartbeat, settling, handlers seen from their command | implements `IdempotentCommand` |
| `ActionLedger` | `dispatch`, attempts, recovery by successors | |
| `RunLifecycle` | `run`, `lifecycle`, cancel, disconnect, `reconcile-runs` | composes command rows, session, lease and runs |
| `DecisionLoop` | `Engine::run`: workflow, evidence, artifacts, bindings, pending batch, limits, checkpoints | |
| `HistoryGroups` | `interaction_groups`, `split_history`, `single_call_wire` | pure operators, used by `Conversation` |
| `Conversation` | the message history, ids of calls, `compact` with its policy, passes and attempts | composes the engine's and the handlers' appends |
| `Transcript` | outbox, provisional numbers, `stage_transcript`, the inserts of `save_inner`, acknowledgement, checks of a load | |
| `EventStream` | `emit`, the channel, the response body, the disconnect watcher, `events::stream` | |
| `Retention` | `record` and `hydrate` of diagnostics, `export`, `verify`, `prune-telemetry` | composes workers, reconciler and operators |
| `RowLocks` | the order of row locks in `save_inner` and `cancel` | |
| `SessionStoreProofs`, `CommandLedgerProofs`, `ActionLedgerProofs`, `RunLifecycleProofs`, `DecisionLoopProofs`, `EventStreamProofs`, `RetentionProofs` | — | inductive invariant and theorems about the module each is named after; `SessionStoreProofs` also has those about `RowLocks` (section 4) |
| `HistoryProofs` | — | the same for `HistoryGroups`, `Conversation` and `Transcript` |
| `MC*` | — | instances for TLC |

### How state and actions correspond to the code

**SessionStore.** A writer is one activation of a handler; its lease owner UUID
is fresh, so the writer stands for it. `<<w, made[w]>>` is `pending_commit_id`.
The content of a snapshot (`state`, `view`) is the set of commits it was built
from: that is exactly what "lost update" needs. `seen` is `Session.revision`,
`ttl` is `lease_expires_at - clock_timestamp()`. `save` is split at the points
where something else can happen: `Propose` (the proposal is frozen), one of
`SaveReceipt`, `SaveReject`, `SaveWrite` for `save_inner` in the order of its
checks, then `TxCommit` or `TxAbort` for what the server does with COMMIT,
whether or not the client is still there (`IoError`, `Retry`, `GiveUp`,
`Crash`). `tx[w]` is an open transaction; it holds the row lock, so lease
updates and other saves wait (`Unlocked`). The retry of a writer waits for its
own open transaction, because `save_inner` first locks the command row
(`Trying`). `auth[w]` stands for `commands::guard`; it is lost at any time except
while the command row is locked. `Refuse` is nondeterministic: the session's
status and the request's body are not part of this model.

**CommandRow / CommandLedger.** One operator per SQL statement: `Claimable` is the
WHERE clause of the claim, `Guard` that of `guard`, the heartbeat and the settling
UPDATE, `Finished` and `Released` their SET clauses. `admit` is five steps
(`Lookup`, `Insert`, `Reread`, `Claim`, `Settle`), each possibly failing
(`PersistenceError`). The handler is reduced to what it does to its command:
`CommitFinal`, `CommitBlocked`, `Refuse`, `Fail`, and for streams `Stream`,
`StreamUnresolved`, `StreamAbandon`. A 200 and a 201 are "ok", a 4xx is
"refused", a 5xx or a lost lease "error". The admission data is represented by
the request that built it.

**ActionLedger.** One logical action, `Workers` that own the session one after the
other. `exec` and `attempts` are the rows, `mine` and `known` a worker's copies.
A checkpoint is one step that requires ownership (`SessionStore` is what
justifies that) and passes `Acceptable`, the checks of `write_tool_executions`.
`TakeOver` may happen at any moment, so a worker can be replaced inside its
call. `fixture` tells the keyed recipient from the other tools; `effects` counts
what the recipient did.

**RunLifecycle.** An activation executes a claimed command; its run has the
activation as id. A save is one step with all guards of `save_inner` (`CanSave`),
writes session and run rows together (`WriteSession`), and for `run_interrupted`
and `run_reconciled` also the origin command (`AbandonOrigin`). The engine is
reduced to its checkpoints: `Started`, `Step`, `Concluded`, each followed by the
cancellation check of `emit`. Both leases expire at any moment.
A handler that has answered or died keeps nothing in memory (`Forget`); the UPDATEs
that settle a command or release a lease may fail, and the code ignores that.

**DecisionLoop.** `s` is the engine's copy of the session and `db` the stored one:
a checkpoint is `db' = s'`, and whatever a step does after it (a counter, a local
such as `batch_rejected`) is in `s` alone until the next. One action per part of
the loop: `Begin`, `Advance`, `Compact`, the five kinds of response (`Decide*`, and
`CountRefusedFinal` for what follows the checkpoint of a refused answer), the
settling of one pending call (`Settle*`), `Observe` for the progress accounting
and `Finish`. `StartRun` and `Resume` are the handlers; `Cancelled`, `EngineFails` and
`Crash` may come at any step. They differ in what is committed: the cancelled run
what the last checkpoint had, the failed run of a stream the session in memory
(`main.rs:3684`), a crash or an error in the `run` handler nothing. `SettleExecuted` and
`SettleBlocked` together are `ToolReturns`, the one step that depends on a tool.
The rules of `validate_config` the engine relies on are
`ConfigAssumption`.

**HistoryGroups / Conversation.** A message is its role, the ids of its calls and
the id it answers; texts are sizes. `HistoryGroups` states the grouping as the code
computes it, and beside it (`Cuts`) which cuts of a history are groups, without an
algorithm. In `Conversation` the appends of `message`, `resume`, the
engine's decisions, its settling of calls and its warnings are actions, and
`compact` is `Measure`, `Refuse`, `Accept`, `GiveUp`, `Send`. `CarefulClient` restricts
clients to content without pending calls; finding 1 is what happens otherwise.

**Transcript.** `eng` is the worker's session with its outbox, `prop` the proposal of
the save in progress (a clone for a checkpoint, the session itself elsewhere),
`ack` what `checkpoint_ack` holds. A try of `save` finds its receipt
(`FindReceipt`), refuses (`RefuseSave`), commits with or without an answer (`Commit`) or
fails (`TryFails`). `Acknowledge` and `EmitFails` are the two ways back from `emit`;
the error paths of the two handlers are `HandleError`, `SaveFailure` and
`SaveFinished`. A digest is the value it is taken of.

**EventStream.** `worker` is where the spawned task is, statement by statement
between its saves and its sends; a send waits for room in `chan`. `rows` counts the
events committed since the stream opened: `base` setup events (none, one or two),
which belong to no run of this stream, and then the run's, of which the engine's
first checkpoint inserts the row (`status`). After the save of `emit`, `Check` reads
`cancel_requested` and `CheckFails` is that query failing: the event is committed and not
sent, and the failure branch goes on. `body`, `armed` and
`notice` are the response body, its disconnect sender and the watcher. A reader
is a reconnected stream: it reads a page after its cursor, sends it, and reads the
status after a page that was not full. The failure event has `id` 0 in the model, as it is sent undecorated.

**Retention.** Rows are numbers, an archive is its rows, its revision and whether
`verify` accepts it (`Damage`). An operator goes through `export` (`BeginExport`,
`EndExport`) or the steps of `prune-telemetry` (load, verify, admission, lease, save
with the checks inside it). Workers commit events and diagnostics, stop, expire
and are reconciled. `worker.counts` and its outbox are the in-memory copies. The
worker's `stage` is "working" in the engine, "failed" after an error of it and "saved"
when only `run_finished` is left. An error comes before the commit of a checkpoint
(`EngineFails`) or after it (`CheckpointFails`); only a cancellation and a blocked call
have acknowledged the outbox then, so `SaveFailure` may write records that the table
has, which `write_diagnostics` tolerates. `GiveUp` is a failure that nothing saves.

**RowLocks.** A transaction is the list of rows it locks, in the order of its
statements; an expired claim lets an ender go on to the origin's row. `Break` is
PostgreSQL's deadlock detection.

## 3. Runs

| Run | Instance | Shows |
| --- | --- | --- |
| `session` | a create and two runs in two processes, 2 saves per run, 2 tries, lease of 1 tick | all safety properties of the store and the refinement of `RevisionLog` |
| `commands` | two duplicates, one reuse of the key with other content, one CLI command; claims of 2 ticks; stream route (it has every step the other routes have) | one effect per key, successes that are recorded, the refinement of `IdempotentCommand` |
| `actions` | 4 owners, 2 dispatches, all policies, both kinds of recipient | calls are recorded, none is repeated unsafely, results are real and final |
| `lifecycle` | a run and a resume under two commands, cancellation, reconciler | agreement of session, runs and commands |
| `takeover` | one resume command executed twice, one engine step | one run per command, which has ended when the command settles |
| `engine` | two phases, a result check and a binding, 5 decisions of up to 2 calls, a no-progress limit of 2, one crash | order of the workflow, completion, the terminal edge, the invalid-response count, every run ends or waits for a tool |
| `history` | histories of up to 6 messages, repeated provider ids, failing and growing summaries | the history stays valid, the grouping equals its reference, ids stay unique, summaries shrink the request |
| `transcript` | 7 entries, 5 commits, 2 tries, 2 faults | no replay is refused, nothing is lost, every commit loads |
| `stream` | a channel of 2, pages of 2, 3 events of the engine after up to 2 of the setup, one reconnected stream, a client that reads or leaves | order, cancellation, the end of run and stream |
| `retention` | one operator, two archive paths, 6 commits, 3 leases, one crash, one damaged archive | sessions load, telemetry is archived or kept |
| `locks` | two saves, one that ends a run, one cancel | cycles need an expiry; transactions end |
| `content_waits` | the model of `history` with clients that do not wait | a disagreement with `details.md`, section 5 |

Further configurations are kept beside these and are not in the list of runs of
`PROJECT.json`. They pass: `MCSessionLive` (every `save` returns), `MCHistoryGroups` (the
grouping on every history of 5 messages, also those it must refuse) and
`MCCompactEnds` (`compact` ends, the newest messages stay). Those
named after a property (`RefusalIsRecorded` and so on) are refuted: section 5.

Each module has its `TypeOK` (`LockTypeOK`, `TranscriptTypeOK` where a proof module
extends two models) and some auxiliary invariants (`OneOpenAttempt`,
`NumbersAgree`, ...) that are parts of an inductive invariant and not results of
their own; TLC confirms them on the same instances.

**Bounds.** `MaxSaves`, `MaxTries`, `LeaseTicks`, `CommandTicks`, `MaxAttempts`,
`MaxSteps` and `MaxFence` are the named bounds. Two tries suffice for "first try
lost, second finds the receipt"; the code has three and the proof holds for any
number. Two runs and two saves give a replaced owner with a late commit. Three
requests on one key give a claim, a takeover and a replay. With two dispatches
and four owners, a bound that is reached is met by a further owner.

The bounds of the other models are `MaxBatch`, `MaxDecisions`, `MaxCrashes`
(`DecisionLoop`: five decisions pass both phases with one refused answer, a run of
three decisions can meet the no-progress limit before its step limit, and a
crash between any two steps is reached), `MaxHistory` (`Conversation`; with six messages
two summaries follow each other), `MaxEntries`, `MaxRevision`, `MaxTries`, `MaxFaults`
(`Transcript`; a failed checkpoint, its replay and a fault inside the
replay), `MaxEvents` with `ChannelSize` and `PageLimit` (`EventStream`; the channel
fills and a page is full), `MaxCommits`, `MaxRecords`, `MaxLeases`, `MaxCrashes`, `MaxLosses`
(`Retention`; a run of three commits and two prunes, or a run, its reconciliation
and a prune; an export that more work makes useless, and another one). In the run `engine` the invalid-response count is exact as long as no process crashes; what
a crash does to it is finding 3. Symmetry is
used where the actors are interchangeable and only safety is checked. Deadlock
is not checked: when all requests are done, the models stop, as does the system.

**Fairness.** Safety needs none. `SessionStore!FairSpec`
assumes that a handler that is alive takes its next step (tokio schedules ready
tasks) and that an open transaction ends (the server answers or the connection
breaks). It does not assume that crashes, I/O errors, renewals or time happen.
`CommandLedger!FairSpec` assumes live tasks run, heartbeats included, and that the
clock moves. `DecisionLoop` assumes that the engine's task goes on (`EngineStep`). The
code justifies this for requests to the model, which have a timeout (`engine.rs:669`); of
the environment it assumes that PostgreSQL answers and that the client of a stream
reads or leaves, since `emit` waits for room in the channel (finding 10 is a client
that does neither). Tools have no timeout (`tools.rs`, `actions.rs`), so `ToolReturns` is
not fair, and `RunEnds` says that a run ends or stays in one tool call for good.
`Conversation` assumes that `compact` goes on (`CompactStep`; it only calls the model).
Neither assumes a run is started, resumed or cancelled. `EventStream`
assumes that the worker and the watcher run, and for `StreamEnds` that a client
which does not leave reads; `SlowSpec`, used by finding 10, is without the latter.
`RowLocks` assumes that the server goes on with every transaction it can go on with.

## 4. Proofs

Every safety and action property and both refinements that the passing runs check
are proved, in modules that extend the component and TLAPS. Every theorem is about the specification TLC runs and holds
for every value of the constants: any number of writers, requests, workers,
activations, operators and streams, any workflow, any lease length, any bound.
What is assumed of the constants are the named assumptions of the modules, which
TLC evaluates on every run. Each proof has the same shape: an invariant `IInv`,
`InitIInv` for the initial states, one lemma per action (or per group
of actions that touch the same variables), the theorem `Inductive`, and then the
properties that follow from it (`LockInductive` and `TInv`, `TranscriptInductive` in
the two modules that prove about a second model). The `IInv` was checked by TLC on the instances
of section 3 before it was proved.

| Module | Properties of the runs that are proved | Further theorems |
| --- | --- | --- |
| `SessionStoreProofs` | `SnapshotIsHistory`, `OutcomeTruth`, `FencesNeverRegress`, `FencedCommit`, the refinement `RefinesRevisionLog` | `TypeOK` |
| `CommandLedgerProofs` | `EffectOnce`, `SuccessIsRecorded`, the refinement `RefinesIdempotentCommand` | `TypeOK` |
| `ActionLedgerProofs` | `CallsAreRecorded`, `NoUnsafeRepeat`, `ResultIsReal`, `OutcomesStable` | `TypeOK` |
| `RunLifecycleProofs` | `OneRunningRun`, `SettledMeansEnded`, `ClosedRunsStayClosed`, `InterruptionReachesCommand` | `TypeOK` |
| `DecisionLoopProofs` | `PhaseOfBatch`, `CompletionIsEarned`, `InvalidAgreesUnlessCrash`, `NoToolAfterTerminal` | `TypeOK`, `EvidenceIsKept` |
| `EventStreamProofs` | `StreamsInOrder`, `NoSpuriousCancel`, `StopsAtNextEvent` | `TypeOK`, `WithinCapacity` |
| `RetentionProofs` | `SessionLoads`, `OutboxContinues`, `HistoryIsKept`, `RecoveryEvidenceStays` | `TypeOK`, `ArchiveIsCurrent`, `NewestRemain` |
| `SessionStoreProofs`, about `RowLocks` | `CycleNeedsExpiry` | `LockTypeOK` |
| `HistoryProofs`, about `Conversation` | `IdsAreUnique`, `GroupingIsRight`, `HistoryIsGrouped` (with `CarefulClient`), `SummaryShrinksRequest` | `TypeOK`, `NewestAreKept` |
| `HistoryProofs`, about `Transcript` | `NeverRefused`, `TranscriptInOrder`, `CommittedLoads`, `SavedIsComplete` | |

### SessionStore

The invariants are not inductive. That the stored snapshot equals the history
says nothing about the copies writers hold or the transactions they left open.
`IInv` adds, beside the type invariant:

* `CopyInv`: a writer's copy is the prefix of the history it has seen, and a
  receipt it does not know of is that of the very next revision (so finding it
  brings the copy up to date);
* `OpenInv`: an open transaction is the only one, its base is the newest
  revision, its receipt does not exist, and its writer is still the owner under
  its fence: what the row lock protects, whatever the client has become;
* `ReceiptInv`, `ReportInv`: receipts belong to proposals made, under the fence
  their writer still has; a pending proposal has no report yet; a rejected one
  has no receipt;
* `FenceInv`, `PcInv`, `OrderInv`: fences are handed out once, after loading and
  before the first proposal, and are in order in the history.

The central steps are `TxCommit` (from `OpenInv` the new revision extends the
history by a commit that was not in it) and `SaveReject` (no transaction of the
same writer is open when a proposal is rejected, so it can never be applied
later). Each conjunct has its own step lemma with one case per action; frame
lemmas (`RowFrame`, `FenceFrame`, `MadeFrame`, `CopyFrame`, `ReportFrame`) say
which actions touch which variables.

### CommandLedger

`RowOK` ties the status of a key, its response, the content that owns it and its
effects together; `ReqOK` says what a request knows of its row at each position: the
row exists, the admission the request works with is the frozen one, and a success
that is on its way to a client is stored already. The second part is needed
because `Settle` runs after the claim may be lost: an "ok" is only there if the
commit of the handler has finished the row. The refinement maps the INSERT of a key
to `Register` and the commit of an outcome to `Decide`; every other step stutters.

### ActionLedger

The strengthening that carries the proof is in `CallInv`: the calls made *and* the
calls that are about to be made, by the owner or by workers it has replaced, are
at most the recorded dispatches, whose number the policy bounds. `CopyInv` says that the owner's copies are the
rows, `PcInv` what each of its positions presupposes of them (an open dispatch is the
last attempt when it calls). The proof does not use the checks of
`write_tool_executions` (`Acceptable`): they refuse nothing that `dispatch` asks for. Nor
does it assume that the workers are finitely many.

### RunLifecycle

The argument is about revisions. A handler whose copy has the revision of the
session row has the content of that row, up to what it has changed itself
(`MemInv`), and only such a handler saves; so it saves its own run, and the run the
row names is the one that may be running (`SessInv`). `RunInv` has the unique
`command_id` of `agent_runs`, `SettleInv` what an answer on its way to `settle` says of the
row. The proof needs the comparison of revisions, the command guard and that
unique key, and not the lease of the session.

### DecisionLoop

`Good` is a predicate on a session and on what tools have returned, and `IInv` has it
for the engine's session and for the committed one alike. A crash replaces one by
the other, a failed run the other by the one, and both keep the invariant for that
reason. `Good` says that a pending batch
belongs to the active phase, that evidence and artifacts are outputs of tools, that
a completed session has all its evidence and an answer from tools, and that an
active session is below the limit of invalid responses. `CountInv` relates the
counter to the refusals at every position, while no process has crashed; finding 3
is why it cannot say more. The workflow is any that `ConfigAssumption` admits.

### EventStream

What a client has received and what its channel still holds are read as one
sequence, `Sent`: receiving does not change it, a send extends it, and a
dropped body cuts it short. `SentUpTo` says for each place the worker can be at how
the last row sent stands to the rows committed (equal, or one behind while an event
waits to be sent; one or two behind when a failure does, as the event before it may
have been committed and not sent), which is what makes the next send follow. `LateInv` says that an
engine that has emitted after the request does not come back to its work. For a
reconnected stream `Continues` relates what was sent, the cursor and the rest of the
page. The theorems are about `SlowSpec`: no reading client is assumed.

### Retention

A prune verifies its own archive and those of the earlier receipts long before it
deletes. What makes this sound is the revision: a receipt that comes in between
moves it, and the commit is refused. `HistoryInv` says so (an operator that is still
at the stored revision has verified every receipt), `CurrentInv` that a sound archive
of the stored revision has the rows of the tables, `FileInv` that an incomplete
archive belongs to one exporting operator and that a verified one is the file unless
it was damaged since, `RowInv` what a load asks for and that what the owner's outbox
adds to the rows continues them. A save flushes the outbox, after which the rows reach
the worker's counters whether the outbox is then emptied or kept (`SaveKeeps`); so a
replay adds what was recorded since and nothing else. `ArchiveIsCurrent` follows from the revision alone.

### RowLocks

`HolderInv` says how far the holder of each row has come. From it, a wait is followed
through the order of the statements: nobody in a cycle waits for its own command
(`InCycle`); who holds the key waits for the session or the origin's command, who holds
the session for the origin's command, so a cycle contains an ender that waits
there, which it does only for an expired claim and which the origin holds
(`CycleFact`).

### HistoryGroups and Conversation

What `interaction_groups`, `split_history` and `single_call_wire` compute is written
with recursive functions over the indexes of a history. The induction over them is
done with a greatest counterexample: of the indexes at which a fact fails there is a
greatest one (`GreatestIndex`, from the well-foundedness of the naturals), and the
recursion goes on behind it. In this way `GroupingAlwaysRight` is shown for a
history of any length: a history has at most one cut into interactions
(`Cuts`, the definition without an algorithm), the grouping finds it when it exists
and refuses the history otherwise, `split_history` keeps at least
`raw_turns_to_keep` messages and would keep fewer with one more group, and on the
wire every call is followed by its result.

`IInv` of `Conversation` is `TypeInv`, `BatchInv` (a batch is open only while it is
settled, or after a run that ended then; `compact` never sees one), `SourceInv` (while
a summary is asked for, what would stay is complete, long enough and measured as it
will be sent), `RoleInv` (only assistant messages have calls), `IdInv` (every id
scheduled is in the call map, once, and a fresh one is larger than all before it) and
`SuffixInv` (the history is the end of everything ever said). `IdsAreUnique` follows
from `IdInv` whatever ids the provider repeats; its ids are numbers up to 100 and the
engine's own are above, as a UUID is none of the provider's. `HistoryIsGrouped` is not an
invariant of a client that sends content while calls wait (finding 1), so
`HistoryAlwaysGrouped` has `CarefulClient` as its hypothesis, as the run `history`
has it in its configuration; the induction is over the history together with the
results still to come.

### Transcript

`TInv` has four parts beside the types:

* `TableInv`: the rows are in order, the context is that of the revision, its
  messages and its ledger are rows;
* `EngineInv`: what the worker has is in the rows or on its way there (`Sound`):
  active messages are rows or outbox records, the sources of a summary are rows,
  its prior ledger is a row or an earlier summary of the session. While the worker
  is at the stored revision and need not reload, its outbox is `Fresh` (no record is
  saved, the numbers are those behind the table) or, after a failed emit, the
  staged outbox is `Stored` (all of it saved, under the numbers it was given);
* `SaveInv`: the same of the proposal of a save; once a try has a receipt, all of the
  proposal is in the rows;
* `CheckInv`: between the commit of a clone and its acknowledgement, everything the
  engine has is in the rows and the acknowledgement names only rows.

The all-or-nothing of `Fresh` and `Stored` is the reason why a replay is not refused:
`AcceptFact` derives each check of `save_inner` from it, `WriteFact` the rows that a
commit writes. A commit turns `Fresh` into `Stored`; the acknowledgement, or the
next commit, turns `Stored` into `Fresh` with an empty outbox. A takeover by another
process moves the revision past the worker's, after which nothing it holds is
written, and a lost answer leaves a receipt, which `FindReceipt` finds before the
checks are reached. That `Without` keeps all and only the unknown records, in order,
is again an induction by a greatest counterexample (`WithoutFact`). The proof
does not use the lease: the comparison of revisions is enough.

### Only model-checked

* Liveness (`RunEnds`, `StreamEnds`, `TransactionsEnd`, `SaveResolves`, `CompactEnds`): out
  of the prover's reach.
* `NumbersAgree` of `Transcript` for the numbers of messages that have been saved (the
  numbers of the outbox are part of `Fresh`) and `TranscriptTypeOK`, whose bounds on
  counters are those of the instance.

## 5. Findings

The first is the run `content_waits`, which TLC finds violated, with the sentence it
contradicts quoted in `PROJECT.json`. The others were met in the same way; their
configurations are named after the property and are refuted when they are run.

1. `HistoryIsGrouped` with any client (`ContentWaitsForCalls.cfg`, `main.rs:3547`):
   content added while calls are pending lands between a call and its result, and
   every later run of the session fails; `details.md:89` has such calls recovered
   first.
2. `RefusedDidNotRun` (`main.rs:3205`): `final_result` and `run_finished` are two
   commits. If the claim is lost in between, the next execution records a 409 as
   the definitive outcome of a command whose run completed (`contract.md:173`).
3. `InvalidAgrees` with a crash (`InvalidCountSurvives.cfg`, `engine.rs:816`): a refused
   answer is committed before it is counted, and a rejected call is counted by a
   local of the batch; a crash in between loses the count, or the reset of it
   ("durable progress/resume accounting must agree", `contract.md:61`).
4. `RefusalIsRecorded` (`commands.rs:273`): a handler that lost its claim still
   sends its 409, although the command succeeds in another execution and that is
   what the key replays (`contract.md:169`).
5. `StartedMeansWorking` (`main.rs:3738`): a stream whose last save fails leaves
   its command started; the heartbeat of `admit` renews it for ever, so no retry
   and no reconciliation can touch it (`contract.md:167`).
6. `ResumeInputOnce` (`main.rs:3557`): `resume` commits its message before it has
   a run; claimed again, it appends the message again (`contract.md:234`).
7. `CompletionIsKept` (`main.rs:3653`): a cancellation read after the commit of
   `final_result` turns the completed run into a cancelled one (`contract.md:89`).
8. `IdleAgrees` with a result check (`RepeatIsNotProgress.cfg`, `engine.rs:1636`): the
   fingerprint of progress contains the call id of each captured value, so
   repeating a call resets the no-progress counter; `README.md:45` says a new call id
   is not progress.
9. `LaterPassIsSmaller` (`engine.rs:2353`): the pass after one that gave up starts from
   the same source, not from the smaller one its comment announces, and stops.
10. `CancelEndsRun` (`CancelNeedsReader.cfg`, `sse.rs:18`): a client that keeps its stream
    and does not read holds the worker in a full channel, where no cancellation is
    seen; `design_update.md:467` has the run stop at its next checkpoint.
11. `ReconnectIsComplete` (`events.rs:74`): what is committed between the last page and
    the read of the run's status is never sent on a reconnected stream;
    `scripts/persistence_scenarios.py:169` requires all retained events.
12. `EventsCarryIds` (as an invariant of `MCEventStream`; `main.rs:3733`): the failure event of a stream is sent without the
    durable id `contract.md:213` promises, so a client that resumes gets it again.

## 6. Not modelled

* The three ports: the contract is the same, the code is not.
* Reading and parsing of profiles: it happens before any state exists. What
  `validate_config` requires is in the assumptions of `DecisionLoop` and `Conversation`.
* Canonical JSON, hashing and sealing: the models compare the hashed values.
* The fixture tools and the provider client with its log: I/O behind one call;
  the models keep success, an error and a lost answer.
* The read endpoints: they change no state.
* Texts: prompts, summaries, the rules of `validate_ledger` and the estimate of a
  token count are sizes and verdicts.

In `RunLifecycle` the in-process `session_lock` never refuses, because every
activation is in a process of its own; `SessionStore` has it.

## 7. Plan

Done: all models of section 2 with their runs, and the proofs of section 4: every
safety property, every action property and both refinements that the passing runs
check. What is left:

1. Auxiliary invariants of the proved modules that the engine's or a handler's
   code relies on and that no theorem states yet: `OneOpenAttempt` of `ActionLedger`,
   `TerminalClosesRun` of `DecisionLoop`, `NumbersAgree` of `Transcript`.
2. The liveness properties, should a prover for fairness be at hand; until then TLC
   checks them.
