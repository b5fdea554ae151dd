# moltis: a TLA+ verification project

Moltis is a personal AI gateway: one Rust process that holds chat sessions with
language models, runs their tools in sandboxes, receives messages from browsers,
messaging channels and webhooks, and wakes agents on a schedule. This directory
models the parts of it that have a protocol of their own: state shared by several
tasks, an order of steps that matters, a store that outlives the process.

* [Inventory](#inventory) of the system and of what is hard in it
* [Modules](#modules) and how they correspond to the code
* [Runs](#runs), their bounds, the fairness they assume
* [Proofs](#proofs)
* [Findings](#findings)
* [Plan](#plan) and what is not modelled

Paths below are relative to `src/crates/`.

## Inventory

| component | state it keeps | operations | what is hard | what makes it correct |
|---|---|---|---|---|
| **Chat turns** `chat/src/service` | per session: a permit (semaphore of one), a FIFO of messages with a `draining` flag, `active_runs`, `active_runs_by_session`, `terminal_runs`, the draft of the running turn | `send`, `send_sync`, `abort`, `cancel_queued`; the run task; `drain_and_replay` | abort against completion; several drainers of one queue; permits owned by a dozen early returns; cancellation that takes effect at an await; panics; request handlers dropped with their connection | one turn at a time; every message is run, refused or cancelled once, in order; a run ends once; every drain and abort ends |
| **Session history** `sessions`, `chat/src/compaction_run`, `gateway/src/session/voice.rs` | JSONL per session, metadata in SQLite | append, clear, replace by compaction or voice | readers that replace later, some without the session's permit; two appends per tool call; truncate, then write, either of which may fail; blocking jobs that outlive their task or request | an entry is in the history, in its summary, or lost for a known cause; calls and results stay paired |
| **Cron scheduler** `cron/src/service.rs` | job list in memory and in SQLite; running marks; timer deadline; a notification permit | add, update, remove, run, wake; timer loop; executions; start, stop | timer against updates; executions working on stale clones; forced runs; stuck jobs; store errors that are ignored; restart | no duplicate runs; a due job starts; the store holds what the list shows |
| **System events** `cron/src/system_events.rs` | ring of at most 20 events | enqueue, drain | full buffer | the documented events survive |
| **Webhooks** `webhooks` | deliveries in SQLite with a status, profile rate windows | ingress with deduplication, worker, re-queue at start-up | crash while processing, duplicates, a full channel | a delivery accepted is processed, once per key |
| **Channel acknowledgements** `gateway/src/channel_reactions.rs`, `chat/src/channel_acks.rs` | reactions pending per message and run | begin, hand over to a run, settle | messages merged in collect mode, queued and cancelled | every acknowledged message gets its final reaction |
| **Channels core** `channels` | fair queue, plugin registry, one-time codes | enqueue, take, approve | fairness between senders, expiry | no sender starves |
| **Provider chain** `agents/src/provider_chain.rs` | failures and last failure per provider, for one turn | complete and stream with failover | failure in the middle of a stream | a healthy provider is tried, no answer is spliced |
| **Hooks** `common/src/hooks.rs` | circuit breaker per handler | dispatch | concurrent dispatch, half-open | a broken hook cannot block |
| **Approvals** `tools/src/approval.rs`, `gateway/src/approval.rs` | pending requests, remembered commands | check, request, resolve by id or by list number, time-out | answer against time-out and abort; two operators; numbers of an old list | no run without a ground; a wait can be answered and ends |
| **Vault** `vault` | sealed, unsealed, uninitialised; wrapped key; encrypted files | initialise, unseal, seal, change password, migrate | crash between encrypting and renaming | no secret is lost, none stays in plain text |
| **MCP** `mcp` | server processes, health | start, stop, restart, poll | poll against restart | at most one process per server |
| **Pairing, authentication, OAuth** `gateway/src/pairing.rs`, `auth`, `oauth` | pending pairings, tokens | request, approve, expire | expiry races | one use per code |
| **Agent loop, streaming** `agents`, `chat` | none beyond one run | call model, call tools | retries, time-outs | appears as the outcome of a run |
| **Connectors, memory, code index** | files and indexes | synchronise, search | leases | data transformation |
| **Everything else** (providers, voice, browser, plugins of channels, CLI, web UI, apps, importers, configuration) | – | I/O and presentation | – | not modelled |

How they interact. The gateway's RPC methods and the channel plugins call
`ChatService::send`; it either spawns a run task, which owns the session's permit and
calls providers, tools (which may ask for approval) and the session store, or queues
the message. Events reach clients by `broadcast`. Cron jobs of kind `agentTurn` call
`send_sync`, those of kind `systemEvent` enqueue an event and wake the heartbeat job;
completed background commands wake it too. Webhook deliveries call `send_sync` on a session
of their own. Everything persistent is SQLite or JSONL.

The behaviours that are hard to test are listed, each at its line, under `hazards` in
`PROJECT.json`.

## Modules

| module | is | extended or used by |
|---|---|---|
| `ChatTurns`, `CronScheduler`, `WebhookDelivery`, `SessionHistory`, `ToolApprovals` | models, each with its properties and its mutants | `MC…` modules, `…Proofs` modules |
| `SerialTurns` | abstract specification of a session | `ChatTurns` (instance `Serial`) |
| `ChatTurnsProofs`, `ChatDrainProofs`, `CronSchedulerProofs`, `WebhookDeliveryProofs`, `SessionHistoryProofs`, `ToolApprovalsProofs` | theorems and proofs | |
| `SequenceFacts` | lemmas about sequences and numbers | the proof modules |
| `MCChatTurns`, … | instances for TLC | the `.cfg` files |

### ChatTurns

One session of `LiveChatService`. Sessions share nothing but the locks around the maps,
so one is enough. A step is what happens between two awaits; what runs under one guard
is one step.

| variable | code |
|---|---|
| `stage`, `cargo` | where a message is on its way from `send` to the end of its run, and whose text it carries after collection |
| `queue`, `slot` | `SessionMessageQueue.messages`; no entry, entry, entry with `draining` |
| `holder`, `waiters` | the permit of `session_locks` and tokio's fair wait queue, where only `abort` waits (everybody else uses `try_acquire`) |
| `runs`, `bySession`, `terminal`, `draft` | `active_runs`, `active_runs_by_session`, `terminal_runs`, `active_partial_assistant` |
| `cancel` | tasks whose `AbortHandle::abort` has been called |
| `abort` | the `abort` call that claimed a run |
| `drain`, `hand`, `replayer` | each call of `drain_and_replay`: its position, the batch it has taken (a dead one keeps what died with it), the send call it is in |
| `sent`, `history` | terminal events broadcast; the session's stored entries, each from the moment its caller has awaited the append |

| actions | code |
|---|---|
| `Arrive`, `ArriveSync`, `Admission`, `Enqueue` | `send_impl` up to the permit, `admit_queued_turn` |
| `StartRun`, `RegisterRun`, `FailSetup`, `FinishUnstarted` | the rest of `send_impl` up to the spawned task and `register_run_handle`; its early returns, which all call `finish_unstarted_turn` |
| `BeginRun` … `ReleaseRun` | the spawned task: commit (`commit_successful_turn`, or the insertion into `terminal_runs` on error), persist, broadcast, and the removal of its registrations, one lock at a time; the task of a `/sh` command has the same stages |
| `Kill`, `Panic`, `KillDrain` | what tokio does to a task |
| `DropSend`, `DropWait`, `DropCleanup`, `DropDrain` | what the server does to a request: `send` and `abort` of a GraphQL client are awaited in the HTTP handler (`httpd/src/graphql_routes.rs`, `graphql/src/mutations/resolvers.rs`), which is dropped at its await when the client goes away, in set-up, in the wait for the permit, in the clean-up, or in the drain that follows |
| `ClaimAbort`, `CleanupAbort`, `KeepPartial` | `claim_run_for_abort`, then the rest of `abort` with `persist_partial_assistant_on_abort` |
| `TakeBatch`, `TakeNothing`, `Replay`, `RefuseReplay`, `FinishDraining` | `drain_and_replay`, with `take_next`, `prepare_collected`, `settle_replay` and `finish_draining` |
| `CancelQueued` | `cancel_queued` |

Abstractions. A turn is named by the message that leads it. What a model answers is the
choice between `CommitSuccess`, `CommitError` and `EndSilently`. `ReleaseRun` joins three
removals, since after `Unmap` no abort can name the run. `LateCancel`, `Panics` and `Remote`
are constants: tokio cancels a task only when it returns Pending, so an aborted task may take
further steps (`LateCancel = TRUE`); `Remote` are the messages whose send, and whose run's
abort, may be requests that are dropped (requests over a WebSocket run in tasks of their own
and are not). What a dropped request had in hand dies with it: the permit is released by its
drop, a taken message is `lost`, and a queue entry it had marked draining stays marked. An
append that was in flight goes on in the blocking pool; `ChatTurns` takes it as stored at the
drop or never, `SessionHistory` lets it land later (`Land`).

### CronScheduler

`CronService`: `now`; the list `mem` and the store `disk`; `pending` add and remove calls
(both touch store and list in two steps); `exec`, the executions of each job with the
clone they work on; `timer`, the loop of `timer_loop` (compute the deadline, sleep,
process, clear stuck marks); `permit`, the notification stored in `wake_notify`; `dirty`,
the jobs that a failed write left changed in memory only.

| actions | code |
|---|---|
| `Start`, `Stop`, `Crash` | `start` (recomputes every next run), `stop`, the end of the process |
| `AddSave`/`AddPush`, `RemoveDelete`/`RemoveRetain` | the two halves of `add` and `remove` |
| `Update`, `RejectUpdate`, `UpdateNotStored` | `update` and its failures: the list is patched before anything can fail; a call dropped in its store write may have reached the store or not |
| `RunClone`, `RunMark` | `run`, which reads and marks under two locks |
| `Look`, `Notified`, `Expired`, `Process`, `ClearStuck` | `ms_until_next_wake`, the `select!` of `timer_loop`, `process_due_jobs`, `clear_stuck_jobs` |
| `Finish`, `SettleDelete`, `SettleRetain`, `Settle`, `WakeAfterRun` | `execute_job` after its callback, lock by lock; the errors of its `update_job` and `remove` are ignored, so with `Rejections` either may fail and the list moves on |
| `CommandCompleted`, `Wake` | `wake`, with the cooldown of the exec completion |
| `NextRun` | `compute_next_run`; a cron expression is the set of instants it matches |

Payloads, names and notifications are left out. A callback may return at any time or
never. An add or remove that its caller drops half way is one that takes no further step.

### SerialTurns

What a session promises without queues, drainers, locks and tasks: it works for one message
at a time, for none twice, and cleans up after an aborted run once and alone. `ChatTurns`
implements it under the mapping `Serial` (a stage is a phase of a message, an abort call a
phase of its cleanup); `WorksSerially` is the refinement. A step of `ReleaseRun` or
`FailSetup` that hands the permit to a waiting abort is one `Close` with its cleanup.

### WebhookDelivery

From an HTTP request to the end of its delivery. `call` is the ingress handler of
`httpd/src/server/gateway.rs` (`Receive`, `Refuse`, `Dedup`, `Insert`, `Send`, one per
await), which the server drops if the client goes away (`Disconnect`); `row` is the status
in `webhook_deliveries`; `channel` the bounded channel to the worker; `phase`, `todo`,
`job`, `step` are `WebhookWorker::run` and `process_delivery` (`Scan`, `TakeFound`, `Listen`,
`TakeSent`, `Mark`, `Skip`, `Execute`, `Finish`, `Abandon`). `Delete` removes a webhook and
its rows; `Crash` and `Restart` keep the rows only. `Panic` ends the worker task, which
nothing starts again: the channel is closed, and the handler logs that and answers 202 all the
same. A failing store operation is the choice
`StoreFails`. Authentication, event filter and both rate limiters are the choice `Refuse`;
what the agent does is the choice between completed and failed.

### SessionHistory

The file of one session as a sequence of messages, and all that write it. A message carries
the items it stands for, so that a summary or an "N messages were elided" marker accounts
for what it replaced.

| actions | code |
|---|---|
| `Begin`, `AutoCompact`, `PersistUser`, `FinishRun`, `FailRun` | `send_impl` and its run task, one turn at a time (that is `ChatTurns`) |
| `ToolCallEnd`, `ToolCallRejected`, `ContextOverflow` | the agent loop's events, and its one retry after a compaction |
| `PersistToolCall`, `PersistToolResult`, `FailToolAppend` | the event forwarder, a task beside the run, with two appends per call |
| `Abort`, `AbortCleanup`, `DropRequest`, `Land` | `chat.abort`; a send or abort dropped with its connection; an append or replacement in `spawn_blocking` still lands after its task or request is gone |
| `JobFails`, `Truncate`, `Write`, `WriteFails` | each replacement of the file, by a turn, by `chat.compact`, by voice: read, think, `replace_history`, which truncates and then writes; a write that fails, like a crash, leaves a prefix (`Torn`) |
| `ManualCompact`, `GenerateVoice`, `Clear`, `Crash` | writers that take no permit; the end of the process |

The compaction algorithm is translated as operators that keep the source's names
(`sanitize_tool_pairs`, `align_boundary_forward_past_tool_group`, `recency_preserving`,
`run_compaction`); a token budget is the choice of any tail cut the floor allows. `Mode`
covers the four modes by what they keep: `replace` for deterministic and llm_replace,
`recency` for recency_preserving and structured. `Repaired` is what the passes of
`sanitize_tool_pairs` do to one message. `InOrder` says of a history that each call is the
first message about itself; overlapping replacements can leave another.

### ToolApprovals

The approval manager. `call` is a tool call in `require_approval`, in
`require_fs_mutation_approval` or in an external agent's permission handler; `pending` the
table, kept in the order of its random ids, `inbox` the oneshot channel, `approved` the
remembered commands; `op` is an operator's `resolve`, which holds the table's write lock over
`Remember` and `Send`. `Verdict` is `check_command`; which commands are dangerous, safe or
listed is part of the configuration `setup`. `ChannelDecides` and `ChannelResolves` are
`/approve N` and `/deny N`, which list and resolve in two steps; `seen` is the list the
operator read. A request that timed out or was aborted stays in `pending`, as in the code.
Commands in a sandbox with a file system of its own skip all this and are not modelled.

## Runs

The `MC` modules hold the instances' definitions.

| run | instance | checks |
|---|---|---|
| `turns_collect` | collect mode, 2 contexts, 3 messages, one without text, one whose requests may be dropped | `ExactlyOnce`, `OneContextPerTurn`, `HistoryAlternates`, `EndsHandOver`, and the refinement `WorksSerially` |
| `turns_live` | 2 messages, one synchronous and droppable, aborted tasks run on, panics, `FairSpec` | `TypeOK`, `PermitExclusion`, `AnnouncedIsUnclaimed`, `AbortFinishes`, `DrainEnds` |
| `cron_timer` | 1 job, also woken as the heartbeat, 2 executions at a time, a one-shot, an interval and an anchored interval, 5 instants, `FairSpec` | `NoDuplicateRuns`, `DueStarts`, `WakesInTime` |
| `cron_store` | 1 job, a cron and an invalid expression, with and without deletion after the run, forced runs, executions that return late, store writes that fail | `TypeOK`, `StoreFollowsList` |
| `webhook_delivery` | 3 requests, two of them one event, a channel of one place, a crash, a store error, a panic of the worker, `FairSpec` | `TypeOK`, `OneDeliveryPerEvent`, `NoDeliveryForgotten`, `ExecutedOncePerLife`, `AcceptedEnds` |
| `session_history` | 2 turns of up to one tool call, any two disruptions | `TypeOK`, `DanglingHasCause`, `CompactionRepairsPairs`, `LossHasCause`, `IndexIsRight` |
| `tool_approvals` | 3 calls, two of one command, 12 configurations, a client, a chat, 2 decisions, `FairSpec` | `TypeOK`, `RunHasGround`, `WaitIsReachable`, `RememberedWhenRun`, `NumberNamesRequest`, `AsksEnd` |
| `turns_winner`, `turns_stranded`, `cron_duplicate`, `cron_oneshot`, `history_index` | | violated: see [Findings](#findings) |

Properties that name exceptions (`ExactlyOnce`, `EndsHandOver`, `StoreFollowsList`,
`NoDeliveryForgotten`, `LossHasCause`, `DanglingHasCause`, `WakesInTime`) say completely what
can go wrong in that way among what is modelled: the exceptions happen in the code, and no
other step of it does that.

Each property of a passing run has a mutant in `PROJECT.json`: a definition of the module
marked `Bug:`, named after the one it changes (`ClaimAbort_DoesNotQueue`), with which TLC
finds the property violated.

**Bounds.** Three messages are the least with which two drainers, a message in the hand of
one of them and a fresh arrival meet, and nothing in the code counts further. Collection of two messages of one
context beside one of another needs three as well. For liveness two suffice: one that is
aborted and one that is queued behind it. One of them has requests that may be dropped: its
send, the abort of its run, and the drain after either. What late cancellation adds is checked
with two messages, and proved for any number. `MaxTime` of 2 to 4 instants with a stuck
threshold of 1 lets a job become due, be started, hang, be given up and be started again;
`Slots` bounds the executions of one job alive at a time, and two are what a duplicate
needs. With `Poll` of 2 or 3 the timer really oversleeps when it is not told. A job id is
added once, because ids are UUIDs. Two requests of one event and one of another fill a
channel of one place with the worker busy; one crash in any state is enough for a delivery
to be found by the scan, and what follows a second is the same. Two turns let a detached job
or append of the first meet the second; with one tool call each, a protected head of one and
a tail of two, histories reach the length where the middle is cut between a call and its
result; two disruptions, of eight kinds (manual compaction, voice, clear, failing append,
failing write, dropped request, abort, crash), let two replacements overlap, or a crash hit one. Two calls of one
command and one other, and two decisions, let two operators meet at one request and a third
request come between list and number.

**Symmetry** of turns is used in `session_history` and `history_index`, whose properties are
invariants or speak of single steps and treat all turns alike.

**Deadlock** is checked in the chat runs, where the step `Idle` stands for a session with
nothing under way; so a deadlock would be a permit or a drain that cannot go on. The cron
model can always crash and restart. The other three end when their bounded requests, turns
or calls have ended, so deadlock is not checked there; that nothing waits for ever is said
by `AcceptedEnds` and `AsksEnd`.

**Fairness.** `turns_live` assumes weak fairness of each admitted turn, abort clean-up and
drain: they are spawned tasks, or calls that tokio polls as long as nobody drops them, and to
be dropped is a step of its own (`Drop…`) that may come at any time; hence the "unless it is
dropped" of `AbortFinishes`. Arrivals, aborts, cancellation and panics are owed nothing. The
model's run always ends, which in the code rests on the time limits of the run. `cron_timer` assumes weak
fairness of the clock, of the timer task, and of what follows a callback, and none of the
callback itself, which may hang for ever, nor of add and remove calls, which may be dropped
between their two halves. What follows a callback runs in a task of its own except after a
forced run, and `cron_timer` has none. `DueStarts` leaves out the end of the modelled time
(`now + Stuck < MaxTime`) and a timer that already oversleeps, which `WakesInTime`
confines to two causes.

`webhook_delivery` assumes weak fairness of each handler, of the worker and of a restart after
a crash; clients that go away, panics and store errors are owed nothing.
`tool_approvals` assumes that a call waiting for the table or for its decision is polled, that
its timer fires, and that a `resolve` which has the lock goes on; it does not assume that the
announcement of a request to a channel ever returns, nor that operators decide.
`session_history` has no liveness property.

## Proofs

A run shows a property of one small instance; the theorems show it for every value of the
constants: any number of messages, jobs, requests, turns, calls and operators, any bounds.
Every invariant and every action property that a passing run checks is proved, the refinement
of `SerialTurns` included. Each theorem has the same shape: an inductive invariant that implies the property, one lemma per action (or
per group of actions that leave the same variables alone) saying that it is kept, and a last
step that puts them together. Those of `SessionHistory`, the longest proof, were also
checked by TLC on the instance of its run.

The assumptions on constants are the `ASSUME`s of the modules. They type the constants, keep
`Nobody`, `None`, `Absent` and the like out of the sets they are used beside, and say in
`SessionHistory` that the compaction and voice jobs are no turns. One theorem about chat and
two about cron take further hypotheses, given below with the reason; all others hold for every
value of the constants.

### Chat turns: `ChatTurnsProofs`, `ChatDrainProofs`

| theorem | property | hypotheses | inductive invariant |
|---|---|---|---|
| `TypesHold` | `TypeOK` | | `PermitInv` |
| `PermitSafe` | `PermitExclusion` | | `PermitInv` |
| `AnnouncedStaysUnclaimed` | `AnnouncedIsUnclaimed` | | `AnnounceInv` |
| `SessionsAreSerial` | `WorksSerially` | | `DrainInv` |
| `ContextsNeverMix` | `OneContextPerTurn` | | itself, with `PermitInv` |
| `QueueIsHandedOver` | `EndsHandOver` | | `DrainInv`, `CancelInv`, `ReservedInv` |
| `NothingLostOrDoubled` | `ExactlyOnce` | | `DrainInv`, `CargoInv` |
| `TurnsAreStoredInOrder` | `HistoryAlternates` | `~LateCancel`, `~Panics` | `WinInv`, `HistoryInv` |

`PermitExclusion` is not inductive. `FailSetup`, `ReleaseRun` and the rest release the
permit to the first waiter, which must be an abort that is really waiting and not yet
served; a replay turns the message in a drainer's hand into the permit's holder, so that
message must not be a turn already; a batch turns queued messages into one in hand. Hence
`PermitInv` adds:

* `QueueInv`: the queue holds exactly the queued messages, once each;
* `HandInv`: hands hold messages in that stage, no message is in two hands, a drainer about
  to replay has one, and a replayed turn is one in set-up;
* `WaitInv`: the wait queue holds exactly the waiting aborts, once each, and only while
  somebody holds the permit;
* `ClaimInv`: the run that the session names, and whatever is not a run yet, has not been
  claimed.

`ReleaseFacts` says once what a release does. `AnnounceInv` carries the second argument:
until it is told to abort, a run that has not finished is listed and unclaimed; it commits
before it announces; and it leaves `active_runs_by_session` before its terminal mark is
removed. The order of the last two removals in the code is exactly what the proof needs;
swapping it is the mutant `Unlist_ForgetsTerminal`.

The refinement `SessionsAreSerial` maps every action to one of `SerialTurns` or to a stutter.
It needs `DrainInv`: a drainer has a message in hand while it is about to replay it, and for
ever if it died with it (`HandsInv`); it is in its send call exactly while that turn is set up;
nobody drains before its turn or abort has ended. Otherwise a drainer could work for a message
that the abstract session has already closed. `DieFacts` says once what the death of a drainer
does in each of its positions, whether by a kill or with its request.

`EndsHandOver` follows from two facts about who is left. `CancelInv`: a run that was told to
abort and has not ended yet has an abort waiting for its permit, or one that was dropped; so a
kill hands the permit to that abort, and the kill of a run whose abort is gone is an exception.
`ReservedInv`: a queue entry is marked draining only while somebody drains or after a drainer
died; so an arrival that queues behind a mark has somebody to wait for, or meets the mark of a
dead drainer, the other exception. `WhoStrands` goes through the actions. For `ExactlyOnce`
`CargoInv` says who carries the text of a merged message. Neither theorem has a hypothesis:
late cancellation, panics and dropped requests are all in.

`HistoryInv` says that the last stored entry is the user's from the start of a run until its
answer is stored or its draft kept, for which the abort of a claimed run must be the next to
hold the permit. A task that has been told to abort and runs on may store its answer and leave a
draft that its abort stores after it, hence the first hypothesis, which enters through `WinInv`
(a claimed run has announced nothing, has not committed and, if its task could still commit, has
been told to abort). A panic leaves a run registered whose task is gone, and an abort of it may
keep the draft behind later turns, hence the second. Dropped requests are excluded by the
property itself (`CallDropped`).

### Cron: `CronSchedulerProofs`

| theorem | property | hypotheses | inductive invariant |
|---|---|---|---|
| `TypesHold` | `TypeOK` | | itself |
| `StoreKeepsUp` | `StoreFollowsList` | | `StoreInv` |
| `RunsAreSingle` | `NoDuplicateRuns` | `~ForceRuns`, `~LateFinish` | `RunInv` |
| `TimerWakesInTime` | `WakesInTime` | the same, `~Rejections` | `NextInv` |

`StoreInv` adds to the property what is known of a job by how far its life has gone (`LifeOf`),
whichever writes of executions and updates fail:
an id that was not given out is nowhere, one being added has no execution, and whoever is about
to drop a job from the list has deleted it from the store, so that two removals of one job, by
a user and by its own last run, meet in any order. `RunInv` says that the mark in the list is the start of the
one live execution; a forced run overwrites the mark, and an execution that returns late clears
its successor's, which is the finding `cron_duplicate` and the reason for both hypotheses.
`NextInv` says that while a job runs with the schedule it has, its entry starts no later than
the schedule's next instant: what `Finish` writes then cannot be earlier than what the timer
knows. It rests on the lemma `NextRunGrows`: `compute_next_run` is monotone in the time it is
asked at, for anchored intervals, cron expressions and one-shots alike. `cron_timer` has the
same constants as the hypotheses.

### Webhooks: `WebhookDeliveryProofs`

| theorem | property | inductive invariant |
|---|---|---|
| `TypesHold` | `TypeOK` | `CoreInv` |
| `EventsRunOnce` | `OneDeliveryPerEvent` | `EventInv` |
| `DeliveriesKept` | `NoDeliveryForgotten` | itself, with `CoreInv` |
| `ExecutionsBounded` | `ExecutedOncePerLife` | `ChanceInv` |

`CoreInv` says who can know of a delivery: the channel holds accepted ones, once each; before
its insert only the handler does; before the scan the worker has done nothing; a dead worker has
nothing in hand. `EventInv` adds
the unique index and that what was ever executed keeps its row as long as its webhook exists;
without the latter an event could be stored again after its row had gone. For
`ExecutedOncePerLife` an execution must be counted before it happens: `ChanceInv` bounds the
executions a delivery has had together with the ways it can still be executed (about to be
sent or in the channel, in the scan's list, in the worker's hand).

### Session history: `SessionHistoryProofs`

| theorem | property | inductive invariant |
|---|---|---|
| `TypesHold` | `TypeOK` | `TypeInv` |
| `AnnouncedIndexIsRight` | `IndexIsRight` | `TurnInv`, `IndexInv` |
| `CompactionPairs` | `CompactionRepairsPairs` | `JobInv` |
| `DanglingCallsHaveCause` | `DanglingHasCause` | `DanglingInv` |
| `LossesHaveCause` | `LossHasCause` | `LossInv` |

The compaction algorithm comes first, as facts about any history: `SanitizePairs` (a history
in order comes out with every call answered and every tool message below its call),
`SanitizeItems` (only results that have lost their call are dropped), `CompactionFacts` (the
same of each mode's whole output, with the alignment of the cut past tool groups). They go by
where `sanitize_tool_pairs` puts each message (`SanitizePlaces`). `JobInv` then says that what
a replacement is about to write is what compaction made of what it read, or nothing. `IndexInv`
is an account of the file's length: the user message, two messages per call that was neither
rejected nor is still with the forwarder, one more if the forwarder is half way; it needs that
turns are one at a time and that the forwarder's queue belongs to one (`TurnInv`). `LossInv`
says that a compaction which a turn waits for, begun with no other replacement under way, has
read all that has been said, and so has every replacement begun meanwhile: that is why the
exceptions of `LossHasCause` are enough. What was said excludes an append that outlived its
request and lands at any time (`Said`); `TornFacts` says what a crash or a failing write leaves
of a replacement.

### Approvals: `ToolApprovalsProofs`

| theorem | property | inductive invariant |
|---|---|---|
| `TypesHold` | `TypeOK` | `ApprovalInv` |
| `RunsHaveGround` | `RunHasGround` | `ApprovalInv` |
| `WaitsAreReachable` | `WaitIsReachable` | `ApprovalInv` |
| `RemembersBeforeRun` | `RememberedWhenRun` | `ApprovalInv` |
| `NumbersNameRequests` | `NumberNamesRequest` | `SeenInv` |

`ApprovalInv` adds that a request in the table is undecided and unanswered; that a call which
has not asked has no request, decision or answer; that a resolve in progress is alone and holds
the one request it took out, approved and unanswered; that a decision in a channel is the one
given; and that every remembered command was approved. Without the first two a second decision
could overrule the first, or a decision reach a call that never asked. `SeenInv` says that what
an operator has seen is in the order of the table although requests come and go: requests are
inserted at any place (ids are random) and never reordered. Two lists of the same requests in
the order of one table are then the same list (`SortedUnique`).

### Sequences: `SequenceFacts`

Appending, pushing to the front, dropping a prefix, inserting and removing, and what
`FlattenSeq` does place by place. The library's induction theorems take an operator as a
parameter, which the provers cannot instantiate; `LeastNumber` and `SetInduction` state
induction about *sets* of numbers instead, from the well-foundedness of the natural numbers,
and with them the recursive function inside `FlattenSeq` is unfolded for all lengths
(`FlattenFacts`).

### What the proofs found

* The unconditional forms of `CompactionRepairsPairs` and `DanglingHasCause`, which all runs
  had passed, could not be proved: a file that overlapping replacements left with a result
  above its call, or with a call twice, stays so through `sanitize_tool_pairs`, which compares
  ids and not places. TLC finds such files with larger bounds than the run's: two tool calls
  in a turn and a protected head of six, or three disruptions, where a manual compaction, a voice
  replacement and a clear overlap. The properties now name that case (`InOrder`).
* In the code only the first copy of an unanswered call gets a stub, since its id then counts
  as satisfied; the model had given one to each copy.
* `TypeOK` of `SessionHistory` now types every message in file, jobs and flight.

### Only model-checked

Liveness (`AbortFinishes`, `DrainEnds`, `DueStarts`, `AcceptedEnds`, `AsksEnd`): the prover has
neither fairness nor `ENABLED`. The five violated properties have counterexamples, not proofs.
No module declares a recursive operator.

## Findings

* `turns_winner`. The comment at `types.rs:596` calls abort against success a single-winner
  race. The task's cancellation is applied only where a poll returns Pending, and
  `commit_successful_turn` does not look whether the run was claimed: a task that is past its
  last such await when the abort claims it stores its answer and broadcasts `final`, and the
  abort broadcasts `aborted` for the same run. `AnnouncedIsUnclaimed` says what remains true: a
  run that announced its result before it was told is not claimed afterwards.
* `turns_stranded`. `take_next` marks an existing but empty entry as draining. A message
  that arrives before `finish_draining` is queued because of the mark, and stays there: the
  permit is free, no drainer is left, and every later message queues behind it until
  some later end of a turn drains the queue, or `cancel_queued` empties it.
* `cron_duplicate`. `run` marks a job as running without looking whether it is. The same
  happens without forced runs when an execution returns after the stuck threshold: it
  clears the mark of its successor (`LateFinish` with `NoDuplicateRuns`).
* `cron_oneshot`. An update of a one-shot job in the window between its time and the
  timer's pass leaves it enabled with no next run.
* `history_index`. The `messageIndex` of an answer counts two stored messages per tool call of
  the run, but a call that the runner rejects before execution is counted and not stored: the
  index is past the answer's place. `IndexIsRight` says that this is the only deviation as long
  as nobody else changes the file.

Seen while modelling and in no run:

* a client that goes away during its GraphQL `send` or `abort` takes the drain with it: queued
  messages wait for the end of the next turn, and a message the drain had taken is lost. If the
  drain had marked the queue entry, the mark stays. Unless another turn or abort is already under
  way, whose end drains, the session then does nothing more until the process restarts: messages
  queue behind the mark, synchronous sends are refused as busy, and `cancel_queued` empties the
  queue and leaves the mark. A run task killed inside its drain does the same. These are exceptions of
  `EndsHandOver` and `ExactlyOnce`;
* with two drainers of one queue, the first `finish_draining` ends the reservation of both, and a
  new message can pass the one the other drainer holds;
* `execute_job` looks at `delete_after_run` only when the schedule has no next run, while
  `docs/src/scheduling.md` promises removal after the first execution; `SystemEventsQueue`
  drops the oldest event when it is full, while the same page says the oldest are preserved;
* `docs/src/webhooks.md` says that deduplicated events do not count against rate limits and
  are logged as `deduplicated`; the handler consults the limiters before the duplicate check and
  stores no row for a duplicate. It also says that deliveries in progress use the
  configuration active when they were received; the worker loads the webhook when it
  processes the delivery;
* a tool call without result, left by an abort or a crash, is not repaired when the history is
  loaded: only results without call are filtered there, and the next compaction adds the stub.
  The index of the user message (`send.rs:922`) is stale after an auto-compaction;
* an approval request that timed out stays in the table and in the list; approving it is
  answered as if it took effect, and then lets the next call of the same command run
  unasked. `/approve N` after another request came or went names another request than the one
  listed.

## Plan

1. *Done:* `ChatTurns`, `SerialTurns` and the refinement, `CronScheduler`,
   `WebhookDelivery`, `SessionHistory`, `ToolApprovals`, and the proofs of all safety
   properties of their runs.
2. Proofs still worth having: what remains true of `HistoryAlternates` with late cancellation,
   panics and dropped requests, and of `NoDuplicateRuns` with forced runs; `AnswerAtIndex` for runs without rejected
   calls.
3. Further modules, if the runs they need can be spared: the reactions of channel messages
   composed with `ChatTurns`; the vault's migration; the fair queue; the provider chain; the
   hooks' circuit breaker; the MCP manager; pairing.

The number of runs is kept to a dozen, each asking several questions of one instance.

Left out of modelled components: what a `/sh` turn stores, fork and branch, media and audio, and the
message counts in the session metadata; the creation rate limiter of cron; the webhook
limiters' counters; the classification of commands; the text of summaries.

Components that stay outside: I/O adapters (channel plugins, providers, voice, browser,
connectors), text assembly (prompts, configuration, templates), user interfaces, importers
and generated code have no protocol state a model checker could explore; the cryptography
of the vault is assumed. `PROJECT.json` lists every component with its reason.
