# FusionWorkspace in TLA+

FusionWorkspace runs language-model agents behind a gateway. A person talks to
an agent over a channel (WebSocket, webhook, WeChat, Feishu); the agent runs a
loop that asks a model what to do and executes tool calls; calls that could do
damage are put to the person, and run only after an approval. The program is
single-threaded JavaScript: nothing runs in parallel, but every `await` lets any
other handler, timer or turn run, and the state that turns share (one store of
grants, one map of waiters, one gateway) is changed in between. That is what the
modules here are about.

A step of every model is one synchronous run of code, from one `await`, timer,
inbound message or call to the next. Paths below are relative to `src/src/`.

## 1. The system

| Component | State | Operations | Interacts with |
|---|---|---|---|
| Approval of tool calls (`agent/taorLoop.ts` executeToolCall, `permissions/approvalService.ts`, `protocol/loopController.ts`, `protocol/approvalEventBus.ts`, `start.ts`) | where each turn stands, waiters by request id, paused states and resolvers by loop id, timers | execute, wait, answer, time out, retry, give up | store, gate, gateway |
| Permission workflow store (`permissions/permissionWorkflow.ts`) | grants, requests, audit log, the state file | match, register, create, resolve, prune, log, persist, load | gates of every session |
| Permission gate, risk scorer, policy engine and audit (`permissions/*.ts`, `tools/toolExecutor.ts`) | mode, policy rules, a bounded audit | check, checkAsync, execute, executeWithoutPermission, reload | store, tools |
| Gateway (`gateway/gateway.ts`) | running flag, start and stop promises, channels, three maps of sessions, the webhook queue | start, stop, sendToSession, heartbeat, processQueue | channels, workspace |
| Adapter factory (`gateway/adapterFactory.ts`) | adapters built from a configuration | registerAll | gateway |
| Workspace (`start.ts`) | gateway, sessions' loops, initialised flag, health | initialize, start, stop, handleMessage, getHealthReport | everything |
| TAOR main loop (`agent/taorLoop.ts`) | window, budgets, snapshot | run, retry a stream, trim, snapshot | providers, tools, memory |
| TAOR reliability (`agent/taorReliability.ts`) | checkpoints, tool transactions, session contexts with locks and quotas | checkpoint, record, acquire, release, clean up | loop |
| External channels, dead letter queue (`gateway/externalChannel.ts`, `feishuChannel.ts`, `wechatChannel.ts`) | access token, queue in memory and on file | sendWithRetry, enqueue, replay, flush, refresh | gateway |
| External ingress guard (`gateway/externalIngressGuard.ts`) | seen messages, rate windows | accept or refuse a message | external channels |
| Flame breaker (`reliability/flameBreaker.ts`), antibody rules (`antibody/*.ts`) | breaker state and counts; rules and their status | record success or failure, evaluate; propose, approve, activate, expire | loop, Phoenix audit |
| Phoenix core and audit (`orchestrator/*.ts`) | audit entries, snapshots on disk | record, save, rotate, restore | workspace, breaker |
| DuoAgent and its reviewer (`agent/duoAgent.ts`, `externalReviewer.ts`) | review cycles, two trails | review, accept, reject, defer | providers, governance core |
| Memory (`memory/*.ts`) | rows, text and vector index, cache, four layers, session snapshots | store, search, delete, evict, save, compress | loop |
| Skills (`skills/*.ts`) | skills, their files, evaluations, patches, the lifecycle files | create, execute, delete, save, load, evolve | loop |
| Providers (`llm/*.ts`) | a registry; calls being put together from a stream | register, stream, convert | loop |
| Monitoring (`runtime/*.ts`), protocol types (`protocol/*.ts`) | a status, active sessions, counters | report, count | workspace |

What makes each correct, in the order of their weight:

- **Approval**: a call that needs a confirmation runs only after a client said
  yes to that call, and once for each yes; a turn is told yes only to its own request; no turn waits for ever; a
  timeout of one turn does not decide for another that still waits for its own.
- **What may run**: neither a grant, nor the event mode, nor a policy that was
  replaced meanwhile lets a tool run that mode, policy or a person did not allow.
- **Workflow store**: the file is what memory is, whenever a crash comes; a grant
  covers as many calls as it says; a decision once made stays.
- **Gateway and workspace**: one start or stop at a time, flags that tell the
  truth, nothing left up by a failed start, every call returns, and a health report
  that says all is well only when it is.
- **Main loop**: budgets are kept across retries, the model is shown the most
  recent messages, every turn ends.
- **Messages in and out**: let in once, within the rate, for a session that has a
  socket; kept in one place until delivered or given up, across replays, retries
  and stale tokens.
- **What is stored**: files and indexes agree with memory once writes have settled,
  and a restart brings back what was there, after a crash at any point.
- **Breaker and rules**: a breaker that runs by the clock, rules that agree.
- **Isolation and review**: locks, calls and verdicts stay with their session.
- **Providers**: a tool call that is handed on is the one the model asked for, and
  every provider shows its model the same conversation.

`PROJECT.json` lists each hazard at its line, with the properties that cover it.

## 2. Modules and the code they model

| Module | Models |
|---|---|
| `ApprovalContract` | what both modes of approval promise a turn: it asks, it is granted or refused, and the call runs at most once for a grant |
| `ApprovalRequests` | what both modes do to the requests of the store and how a call is fingerprinted |
| `PromiseApproval` | promise mode: executeToolCall with a confirmation handler, ApprovalService, the approval messages of start.ts |
| `EventApproval` | event mode: executeToolCall without a handler, DefaultLoopController, resolvePendingApproval |
| `PermissionWorkflow` | the whole of PermissionWorkflowStore with its clock, its file and restarts |
| `GatewayLifecycle` | Gateway.start, Gateway.stop, startChannels, stopChannels |
| `WorkspaceLifecycle` | FusionWorkspace.start, stop and initialize, with the channels of the gateway and AdapterFactory.registerAll |
| `TaorTurn` | one message through FusionWorkspace.handleMessage and TAORLoop.run: steps, budgets, streams, retries, the window |
| `BreakerContract` | what a circuit breaker promises, seen by someone with a clock |
| `Services` | the components below and `Reliability`, in one model |
| `Reliability` | FlameBreaker with the handler of start.ts, AntibodyPolicy and AntibodyRepository |
| `PhoenixSnapshots` | PhoenixAuditStore and PhoenixAuditSnapshotStore with their directory |
| `ToolPermissions` | ToolRegistry.execute, PermissionGate.check and checkAsync, the policy engine's decision, both ways an approved call runs |
| `ApprovalWaits` | ApprovalWaitManager |
| `ExternalIngress` | webhook handlers, handleInboundMessage, ExternalIngressGuard, MessageDeduplicator |
| `GatewaySessions` | sessions of the WebSocket channel, the gateway and the monitor |
| `WorkspaceHealth` | getHealthReport and the state it reads |
| `DeadLetters`, `AccessTokens` | sendWithRetry, the dead letter queue and its file; the access token and its refreshes |
| `WebhookQueue` | the webhook channel's send and processQueue |
| `MemoryStore` | FTS5Memory under MemoryManager's cache |
| `FileStores` | eleven stores that write all of a list to one file |
| `SkillFiles`, `SkillEvolution` | SkillManager: skills and their files; evaluations, patches and evolve |
| `SessionIsolation` | SessionIsolationManager |
| `ReviewCycles` | DuoAgent and ExternalReviewer |
| `TrajectoryCompression` | TrajectoryCompressor over a growing conversation |
| `ProviderStreams`, `PromptMessages`, `ProviderRegistry` | streamed tool calls of both providers; the conversion of a conversation; the registry |
| `Lists` | what filter, splice and flatMap make of a list |
| `*Proofs` | the theorems about the module of that name |
| `AgentServicesProofs` | the theorems about the agent's parts of `Services` |
| `MC*` | the instances TLC checks |

Composition. `PromiseApproval` and `EventApproval` put the turns, the waiters and the
requests of the store together and implement `ApprovalContract`; `WorkspaceLifecycle`
composes the workspace with its memory, the channels of its gateway and the adapters;
`Reliability` composes the breaker, the audit that refuses it, the policy and the
rules, and implements `BreakerContract`; `WorkspaceHealth` and `GatewaySessions` compose
the parts that keep the same fact in different places.

`Services` is the model of the components that share no state with each other. It
extends `Reliability` and has an instance of each other component, over variables of
its own; constants that several components share have one value. Its initial states
pick a component (`part`) and give the variables of the others the value `Unused`;
each step is a step of the one that was picked. What the theorems assume about the
constants stands there as one assumption for each component (`LettersAssumption`,
`DuoAssumption`, ...). `MCServices` only gives constants their values.

### Approval: `PromiseApproval`, `EventApproval`

`pc[t]` is where turn `t` stands in `executeToolCall`: `idle`, `sending` (awaiting
the delivery of `confirmation_required`), waiting, `approved` or `denied` (its
continuation is queued). `Call` is the model's request for a tool; `Execute` is
`ToolRegistry.execute` up to its answer: the policy refuses the call (`Allows`), or the
gate consumes a matching grant and the tool runs, or a request is filed. `Sent`, `SendFails`, `Answer`,
`Timeout`, `Retry` and `GiveUp` are the continuations and callbacks that follow;
`Restart` loses turns, waiters and timers and keeps what the store has on file.

- `ApprovalService.waiters` (and the resolvers of the loop controller) are maps
  by id; the models keep the set of the turns whose entry is in the map, with at
  most one turn for an id. Entering over an older entry removes the older turn
  from the set, and the older turn goes on waiting: only its own timer can
  release it. `EntriesFollowWaits` and `WaitEnds` say that this timer is there.
- A fingerprint is the call and its working directory. The loop registers the
  grant with `createToolCall(name, input)`, which has no working directory, while
  the shipped tools ask with one. `Cwd` is what the tools pass: `PromiseMode.cfg`
  sets it to `""` (tools that pass none, where the retry finds its grant), and
  `PromiseRetry.cfg` and both event runs to a directory.
- The policy is evaluated before the gate (`tools/toolExecutor.ts:460`) and
  `ReloadPolicy` may put another in force at any time, so a call that was approved may
  be refused when it is retried. The grant registered for it is then not consumed. With
  a working directory no call finds it; without one it stays usable, and a later equal
  call that the policy allows runs on it unasked. `StoreIsPaidFor` says how far that
  goes: the runs of a call, the grants a call could use and the approved turns that
  will still register one are never more than the approving answers given for that
  call. `ApprovalContract` has `KeepGrant` and `RunOnKept` for this: a run without a
  question uses up a grant of the same call that a turn was given and could not use.
- Grants made by the loop have one use and no lifetime, so they are counted by
  fingerprint. Requests are a sequence whose index is the id. `createPendingRequest`
  returns the pending request of an equal call of the session, which is how two
  turns come to wait on one id.
- An answer names any request on file, pending or not, as `resolvePendingRequest`
  looks at no status. `cancel()` of the loop controller is `resume` with a refusal.
- `ToolRegistry.execute` catches what a tool throws, so the branch of
  `executeToolCall` that catches a thrown NeedConfirmationError is not reached.

### The store: `PermissionWorkflow`

One action per public method. `disk` is the contents of `workflow-state.json`,
written by `persist()` at the end of every method that calls it; a prune writes
only when a list got shorter. `Tick` moves the clock, `Restart` replaces memory
by the file. Grants keep their scope, caller, expiry and uses; the list of them is a
set ordered by id, which is the order they are pushed in. The audit log is
reduced to its length. `writeFileSync` is one step: a crash in the middle of a
write, which leaves a file that does not parse, is not modelled.

### The gateway: `GatewayLifecycle`

`start()` and `stop()` are asynchronous functions that await channels one after
the other and join each other by `startPromise` and `stopPromise`. A promise is
named by the caller that made it. When it settles, the `finally` of its owner
runs first, since the owner awaited first; callers that joined return; callers
that only waited for it to be over (`await this.startPromise.catch(...)`) become
`startOver` or `stopOver` and continue one by one, in any order. `Quiet` says
that queued continuations run before the event loop takes another call from
outside. A channel's start or stop may throw, `MaxFailures` times in all.

### The workspace: `WorkspaceLifecycle`

`start()` and `stop()` of the workspace have the same two promises as the
gateway, but check them again after each wait. Here a promise is not a variable:
`startPromise` is defined while some caller stands in one of `StartPlaces`, and
`stopPromise` while one stands in one of `StopPlaces`. When a promise settles its
owner and all who joined it return in that step, and one who waited for it to be
over is queued.

- A start runs `initializes`, `loadsConfig`, `registers`, `startsGateway`. Each may
  throw; a failed channel is followed by `rollsBack`, a failed adapter by
  `unregisters`, and both by `fails`, which closes the memory manager. `at` is the
  channel that the loop under way awaits.
- Every start makes a new gateway. Its channels are `1..size`, the own ones first
  (`NumOwn` may be 0, as in agent mode), then the adapters. `up` are those that
  serve; a channel that serves after its gateway or its server object was replaced
  is `lost`, and keeps its port (`PortTaken`), so that a new channel of that number
  cannot start. The stdio channel has no port; giving it one only adds failures.
- `registerAll` starts the adapters that `Gateway.start` then starts again. `auto` is
  whether it does anything.
- `stuck` records the channels a stop of which threw: those, and only those, may be
  up when everything is down.

The promises of the gateway inside are not modelled again: the workspace makes
one call at a time on it (`OneAtATime`), so nothing ever waits for them.

### The main loop: `TaorTurn`

`pc` is what the turn awaits. The messages of a turn are numbered in the order in
which they are pushed: the prompt is 0, then the results, then the answer; `kept`
is the window and `systems` the summaries at its head. `shown` is what the call to
the model under way was given. `Push` is `SlidingContextWindow.push` with its trim.
`EntersStep` is the head of the loop and part of each action that leads to it.

Token counts are left out: at the head of any step the input budget may turn out
to be spent. `AlwaysDone` is whether every stream ends with a `done` chunk, as those
of both real providers do; with FALSE a stream may also end bare, as those of the
callers in the tests and of the demo mode do. `EndsSilently` is an end without a
final text: an error of the model, a limit of steps or tokens. `handleMessage`
sends the client nothing then. What the tools and their approvals do is in the
approval modules; here a call runs and returns.

### What may run: `ToolPermissions`, `ApprovalWaits`

A call is its tool and what the scorer and the gate read off its parameters: how bad
a command is, whether it leaves the host or the trusted directories. `Check` is
`PermissionGate.check`, grants first and then the mode; `AsksFirst` and `CheckAsync` what
`checkAsync` adds; `Allows` is the engine's decision for the channel. `Call` is
`ToolRegistry.execute` inside the loop, `Approve` and `Deny` the answers in either
approval mode, `Reload` puts another policy in force between a question and a run.
The mode is a choice of the initial state. `ran` remembers what ran, by which way and
under which policy, so that `RunsAreWarranted` can say it of the whole history.

`ApprovalWaits` keeps the last wait registered for each request; one that was replaced
has only its own timer left, which finds the entry of the newer wait.

### The breaker and the rules: `Reliability`, `BreakerContract`

`breaker[k]` is a record as in the code; `RecordFailure` and `RecordSuccess` refresh the
cooldown first. Where the refresh is reported to an audit store that throws
(`Refused`), that use ends there. `BreakerContract` is a breaker with a clock; the
refinement reads a breaker whose cooldown is over as half open before it is used.
Rules are created by observed transitions or by hand and change status by
`ApproveRule`, `RejectRule`, `ActivateRule` and `ExpireDueRules`.

### The audit on disk: `PhoenixSnapshots`

A save opens a temporary file, fills it, renames it and deletes what is over the limit,
one file after the other (`BeginSave`, `FinishWrite`, `Rename`, `Rotate`); the process may die
between any two of these. A file is named after the id and the millisecond; the
model saves one snapshot a millisecond, and two saves that share a name
(`orchestrator/phoenixAudit.ts:626`) are left out. `kept` remembers the entries of the snapshot that was renamed
last, and `Start` restores what the configuration says, or throws.

### In: `ExternalIngress`, `GatewaySessions`, `WorkspaceHealth`

A delivery is in `open` from its acceptance until its turn has ended. A delivery is
known by its id: WeChat events without a MsgId get a new random one each time
(`gateway/wechatChannel.ts:215`, `:371`, `:488`), so a repeat of one of those is a new message
to the code and to the model, and nothing recognises it. `accepted` is
every acceptance with its time, from which `AcceptedWithinLimits` computes what the
guard, which prunes and slides, must have refused. Time is in ticks, the windows are
`Window` and `RateWindow`.

In `GatewaySessions` a connection is a socket, an entry in each of three maps and the
turns of its session. A socket that was terminated is `dying` until its close event;
`sendToSession` may make an entry `auto` for a session that is gone, as the code does.

`WorkspaceHealth` takes one start or stop at a time, which `OneAtATime` of
`WorkspaceLifecycle` allows, and adds what that module leaves out: the monitor, whose
status a late failing turn may set, the parts made by `initialize`, the errors of the
gateway. The report is the operator `Report`. It may say "ok" while a start is still
opening channels, so the property speaks of a workspace with nothing under way.

### Out: `DeadLetters`, `WebhookQueue`, `AccessTokens`

`DeadLetters` has sends with a context (`letters` may come of them) and the queue, with
replays that hold letters in hand, writes of the file that overlap, the read of the
file at start and crashes. `raced` records what the code does not promise: use of the
queue before its file was read. In `WebhookQueue`, `flying` are messages whose delivery
is awaited by `send` or by any of several overlapping `processQueue`. In `AccessTokens`
the API may drop older tokens when it issues one, or at any other time, and its answers
arrive in any order. One message and the timer are enough there: other sends act on the token only
by refreshing it, as the timer does.

### Storage: `MemoryStore`, `FileStores`, `SkillFiles`, `SkillEvolution`

`MemoryStore` has the three tables by row number, and deletions (`Statements`) that a
throwing statement may cut short (`CutShort`); a process that dies in one leaves the
tables in the same way, so a crash is such a deletion and a `Restart`. `deleteMemory` and `cleanup`
ignore an error of the statement on the vector index and delete the row all the same
(`memory/fts5Memory.ts:346`, `:684`), and they leave the index alone where vector search is
off: `stale` are the row numbers where that happened, whose next row may inherit the
vector. The property excuses those numbers for the vectors alone; text entries and
the cache it excuses nowhere. `arriving` are memories that are stored and not yet
cached, since `addMemory` awaits in between. The JSON file that `FTS5MemoryStore` falls
back to without SQLite is not modelled.

`FileStores` is one model of eleven stores: each has its own way to add, drop and change
items (`First` is which item goes: the front of the list, or, where the code sorts first,
the oldest), and all write the whole list without waiting for the write before, so
`writes` may overlap and leave a mix. A write may fail before it touched the file or in
the middle (`Fail`): `skills/skillLifecycle.ts:671` and `:756` ignore that, the other
stores throw, and all keep the change in memory. A restart then does lose it. What holds
is that the next change which is written alone and whole makes everything good:
`intact` is whether the last one was, `unsaved` whether memory changed without a write.
`Date.now` is taken not to go back: the cut lists are ordered by it for that reason only.

In `SkillFiles` operations hold a file from their `await` to its end. `suspect` are the
files where two operations met on the file or on the skill, that two skills share, or
that a failing save cut; what becomes of those the code leaves open, a skill that a save
brings back after its deletion included, and the property says that it happens to no
others. `undeleted` are the files whose unlink failed, which `deleteSkill` ignores
(`skills/skillManager.ts:626`): their skills come back with the next start. `ReadAs` is
what `parseFrontmatter` makes of a name that `generateFrontmatter` wrote (quotes go, `true`,
`12` and `[x]` become values of other types), so that a skill may come back under
another name. The other fields of the front matter are read by the same function and
decide nothing here.

`SkillEvolution` has evaluations that outlive their skill, the lifecycle file and
`evolve()` with its awaits, one call of it at a time. Two comments
(`skills/skillManager.ts:114`, `:846`) have it that skills used less than the threshold are
retired. In the code that takes a low success rate or a declining trend as well, and a
trend takes `TrendFrom` calls, so that with the defaults, where both are 10, no skill is
ever retired; `RetiredWereUsed` says which calls a retired skill can have had.

### Sessions of the agents: `SessionIsolation`, `ReviewCycles`, `TrajectoryCompression`

In `SessionIsolation` what a user holds is tagged with the life of the session it was
taken in; `clean` are the sessions created when nobody used them, of which alone the
code can promise anything. In `ReviewCycles` suggestions are named by the millisecond and
their place, as their ids are, and several sessions share one reviewer.
`TrajectoryCompression` has a message as the interval of messages it stands for.

### Models and what they are told: `ProviderStreams`, `PromptMessages`, `ProviderRegistry`

`ProviderStreams` lets the API send the pieces of several calls in any order and cut or
break the stream anywhere; `given` are the calls yielded. `PromptMessages` builds every
conversation of the shapes the loop makes, and compares what the conversions, which
are operators, make of it. `ProviderRegistry` has every method of the registry.

## 3. Runs

| Run | Instance | Distinct states | Shows |
|---|---|---|---|
| `PromiseMode` | two turns of one session over one tool call, made three times, three answers, no working directory, a policy that changes at any time | 355,930 | timers and waiters follow the turns, unique requests, runs and grants paid for by approvals, own verdicts, the contract, every wait ends |
| `PromiseRetry` | the same with a working directory | violation | the approved retry asks again |
| `EventMode` | as PromiseMode, in event mode with a working directory | 150,761 | timers, resolvers and paused states follow the turns, own verdicts, the contract, every pause ends |
| `EventAnswer` | the same | violation | an answer leaves a waiting turn asleep |
| `WorkflowStore` | a session's gate and the registry's own gate, two grants, two requests, three ticks | 351,994 | the file is current, counted uses, unique requests, decisions stay |
| `GatewayOneStopper` | two starters, one stopper, two channels, three failures | 8,975 | one call at a time moves channels, the flag is true of them, every call returns |
| `GatewayTwoStoppers` | one starter, two stoppers, no failures | violation | two calls of stop() both stop the channels |
| `WorkspaceStartStop` | two starters, two stoppers, two own channels, two adapters, two failures | 10,454 | one caller at a time, running means serving, what is down is released, every call returns |
| `WorkspaceAdapters` | one starter, one stopper, one own channel, one adapter, no failures | violation | a start that fails leaves an adapter listening |
| `TaorBudgets` | three steps, three tool calls allowed, five made, two retries, a window of two | 6,942 | budgets, the window is recent and shows the prompt, every turn ends |
| `TaorAnswer` | the same with streams that always end with `done` | violation | an answer before the model saw the tool's result |
| `Services` | twenty components, one at a time (below) | 1,176,489 | what comes in and goes out, what may run, what is stored and survives, what a model is told |

The parts of `Services`, each explored from its own initial states:

| Part | Module | Instance | States | Property |
|---|---|---|---|---|
| breaker | `Reliability` | one operation, threshold 2, cooldown 2, two probes, three ticks, two rules of two recommendations that live one tick | 66,716 | `BreakerKeepsContract`, `NoConflictingAdvice` |
| phoenix | `PhoenixSnapshots` | two records, one entry kept, two snapshots, two times, saves with and without an id | 279,829 | `RestartHasLastSave` |
| ingress | `ExternalIngress` | three messages of two users, windows of 2 and 3, rate 2, four ticks, two deliveries at once, with and without a guard | 70,093 | `InboundIsOrderly` |
| sockets | `GatewaySessions` | three connections, a turn each | 38,753 | `InboundIsOrderly` |
| health | `WorkspaceHealth` | two channels, one with a guard, two failures, two starts, a turn | 8,868 | `InboundIsOrderly` |
| letters | `DeadLetters` | two messages, one retry, room for one, two replays, two writes, one crash | 96,228 | `OutboundIsKept` |
| webhooks | `WebhookQueue` | three messages, one retry | 2,272 | `OutboundIsKept` |
| tokens | `AccessTokens` | a message and the timer, two tries, four tokens, WeChat and Feishu | 64,872 | `OutboundIsKept` |
| permissions | `ToolPermissions` | four calls, one of risk nine, two policies, seven modes, both approval modes | 8,968 | `RunsAreWarranted` |
| waits | `ApprovalWaits` | three waits for two requests | 2,415 | `RunsAreWarranted` |
| isolation | `SessionIsolation` | two sessions, two users, room for one, one call at once and a minute, two lives | 92,522 | `SessionsKeepTheirOwn` |
| duo | `ReviewCycles` | two sessions, two reviews of up to three suggestions, two iterations, two milliseconds | 152,830 | `SessionsKeepTheirOwn` |
| trajectory | `TrajectoryCompression` | 14 messages, head, tail and segments of 0 to 2 turns | 1,737 | `SessionsKeepTheirOwn` |
| memory | `MemoryStore` | three memories, two rows, a cache of one | 53,907 | `StorageIsConsistent` |
| stores | `FileStores` | eleven stores, two groups, a limit of one, three changes, two writes at once, one crash | 109,149 | `StorageIsConsistent` |
| skills | `SkillFiles` | three names on two files, one of them read as another, a limit of one skill, two operations, one crash | 66,855 | `SkillsAreKept` |
| evolution | `SkillEvolution` | one skill, four calls, thresholds scaled to them | 46,368 | `SkillsAreKept` |
| streams | `ProviderStreams` | three calls of two pieces, both providers | 9,006 | `ProvidersAreFaithful` |
| registry | `ProviderRegistry` | three ids, four calls | 420 | `ProvidersAreFaithful` |
| prompts | `PromptMessages` | every conversation of four messages | 4,681 | `ProvidersAreFaithful` |

Why the bounds are enough. Two turns that share a request are all an overwritten
waiter takes; a third would overwrite the second as the second did the first.
With three calls one turn can time out, ask again and meet the other's new
request, and with three answers a request can be decided, decided again and a
later one decided. In the store a grant of two uses and a second grant of any
kind exercise the removal of the first and of the last; `Expiry` 1 with three
ticks has a request fresh, stale and reset by a restart. Two channels have a
first and a last, so a failure of the second rolls back the first; a third
failure lets the stop that is part of a rollback throw too, and a later one
again. Two own channels and two adapters do the same for the workspace, whose
two failures are the one that fails the start and a stop that throws while the
start is rolled back. A window of two that five results and an answer go through
is trimmed in the middle of a step and across retries; with three of five calls
allowed the budget is used up within one stream or over several attempts.

In `Services` each limit (entries, snapshots, sessions, a cache, a queue, a rate) is one
or two, so that it is reached and exceeded within the bound; two writes or replays are
what an overlap takes, and one crash what a restart takes; clocks run past the longest
window, cooldown or life at least once; two files of three names have one shared and
one not, and two creations at once get past a limit of one skill; three pieces of the argument order (two calls alternating and a third in
between) are what could mix the assembly of a stream up. The scale of
`SkillEvolution`, 2, 3, 3, 3 and 2 for 10, 20, 50, 10 and 5, keeps the order in which a
skill crosses its thresholds, except that the declining and the rising trend meet.
The calls leave `write_file` out, which differs from the others by a flag of the policy
only; the theorem `RunsAreAlwaysWarranted` speaks of every call.
The parts share no state, so no behaviour is lost by not interleaving them.

The runs of the approvals and of the store come to an end when their bounds are used
up, a turn of the main loop when it is over, and a part of `Services` when its bounds
are, so these do not check for deadlock; those of the gateway and the workspace do.

Each property of a passing run has a mutant in `PROJECT.json`: a definition of
the model changed as a plausible bug would change the code (`ArmedOverOlder` keeps
one timer for a request, `BeginInPlace` saves a snapshot under its own name), under
which TLC finds that property violated. The mutants are defined
beside the definitions they replace.

### Fairness

A channel's send, start and stop settle (the code awaits them without a timeout
of its own, as a channel that never settles would hang any caller), due timers
fire, and queued continuations run: that is what an event loop does. In event
mode the consumer of the loop's events goes on pulling them, as the `for await`
in start.ts does. In `TaorTurn` a stream ends
or breaks: the loop sets no timeout of its own for the client library, and a
model that streams for ever would hang the turn. Nothing obliges a client to
answer, a model to ask for a tool or anyone to call start or stop: no fairness is
assumed of those. The properties of
`Services` are safety properties and assume none.

### Where the code and its documents disagree

Five disagreements are runs that end in a violation:

1. **The grant of an approval is not found by its own retry**
   (`agent/taorLoop.ts:540`, run `PromiseRetry`). The fingerprint covers the
   working directory; the grant is registered without, the tools ask with one.
   Every approval leads to the same question again, while
   `permissionGate.ts:762` and `tests/testPermissions.ts:400` say a registered call
   is approved.
2. **An answer resumes one of two waiting loops** (`protocol/loopController.ts:70`,
   run `EventAnswer`). The resolver of the second replaces that of the first; the
   first waits until its timeout and refuses the call that was approved.
   `docs/PROTOCOL.md:346` has the answer resume the loop.
3. **stop() is not single-flight during a start** (`gateway/gateway.ts:879`, run
   `GatewayTwoStoppers`). `stopPromise` is read before the wait for the start and not
   after. `tests/testGatewayStartup.ts:216` asserts that concurrent calls stop the
   channels once. The passing run and the proofs therefore assume one stopper.
   The workspace never makes the two calls: its own `stop()` joins them.
4. **Adapters are started twice** (`gateway/adapterFactory.ts:93`, run
   `WorkspaceAdapters`). registerAll starts each adapter and leaves it in the
   gateway, whose start makes it listen again on the port it already holds. The
   start fails, and the first server, to which nothing refers any more, keeps the
   port, so the next start fails as well. `docs/PHOENIX_RUNTIME.md:104` has a failed
   startup recoverable and leak-resistant. `DownMeansReleased` therefore speaks of
   channels only for a workspace that registers no adapters.
5. **A stream that asks for tools ends the turn** (`agent/taorLoop.ts:1072`, run
   `TaorAnswer`). The loop takes any `done` chunk for the final answer, and both real
   providers end every stream with one, with a stop reason of `tool_use` as well.
   No model sees the result of its tool call. `README.md:57` and the comment at
   `taorLoop.ts:370` have the loop go back to thinking, and
   `tests/testTAORReliability.ts:281` asserts that it continues after a tool result.

The others were met while translating and are quoted with their lines in
`PROJECT.json`. In the models the code's side of them is what runs, and the properties
say what holds all the same:

| Code | What it does |
|---|---|
| `reliability/flameBreaker.ts:82` | a probe that fails may end in the audit's refusal and not reopen the breaker |
| `orchestrator/phoenixAudit.ts:579` | the newest snapshot of an id that was saved twice is restored as the oldest |
| `orchestrator/phoenixAudit.ts:405` | a hash chain whose oldest entries were dropped verifies as tampered |
| `gateway/wechatChannel.ts:269`, `feishuChannel.ts:346` | failed messages of both adapters are never queued |
| `gateway/externalChannel.ts:420`, `:436` | a replay and a load fill the queue beyond its maximum |
| `permissions/permissionGate.ts:342` | a grant lets a tool run in plan mode |
| `permissions/permissionPolicyEngine.ts:291` | the approval threshold of a policy has no effect |
| `llm/openaiCompatProvider.ts:257` | fragments of arguments without a type are dropped |
| `llm/claudeProvider.ts:284` | a call cut short by the token limit is handed on without parameters |
| `llm/openaiCompatProvider.ts:102` | system messages after the first are dropped |
| `agent/taorLoop.ts:1381` | the MiniMax caller drops arrays of blocks and the ids of results |
| `memory/memoryWritePolicy.ts:97` | a Chinese preference does not match its pattern |
| `agent/duoAgent.ts:126` | the trail of a session takes over entries of others |
| `agent/externalReviewer.ts:220` | severities in the format that was asked for are not read |
| `protocol/approvalEventBus.ts:145` | nothing waits through the manager |
| `memory/trajectoryCompression.ts:178` | the tool calls to preserve are collected and dropped |
| `memory/layeredMemory.ts:624` | two configured maxima are ignored |
| `gateway/gateway.ts:143` | nothing dispatches through the message router |

## 4. Proofs

The theorems hold for every value of the constants that satisfies the named
assumptions of the modules; TLC checks the same formulas on the instances above.

**`PromiseApprovalProofs`.** The invariant `IInv` is the conjunction of what the run
checks and what it takes to keep it. `TimerIffWaiting` alone is inductive; `VerdictIsOwn` is
not: that a turn is told only what was said to its request needs that a turn
that asks has a request on file (`Requested`), and an answer reaches only
waiters, which wait (`WaiterStillWaits`). `AnswersPay` counts, for
each call, runs, grants and approved turns against approving answers: an answer adds
one to both sides, since it wakes one turn at most, and a retry turns an
approved turn into a grant and the grant into a run, or leaves it where the policy
refuses. For tools that pass a working directory there is no grant a call could find
(`FoundWithoutCwd`). From `Invariance` follow `TypeCorrect`, `WaitersAndTimersAgree`
(`EntriesFollowWaits`), `VerdictsAreOwn`, `RunsArePaidFor` (`StoreIsPaidFor`) and
`Refinement`: every step of promise mode is a step of the contract or a stutter, under
the map that sends `approved` to `granted` and a turn that asks or waits to `asked`.
The run has one call; that an approval of one call pays for no other is the theorem's.

**`EventApprovalProofs`.** The same argument with paused states beside resolvers.
Event mode leaves its grant in the store and executes without it; the contract
holds because `CwdAssumption` makes that grant one no call finds. For tools that
pass no working directory, the theorem would be false.

Both modules prove the lemmas they share, on what deciding, pruning and asking do to
the sequence of requests, from `ApprovalRequests`.

**`PermissionWorkflowProofs`.** For any calls, callers, lifetimes, uses and limits, all
that the run checks. `FileIsCurrent` needs what a prune can change without writing:
requests that turn expired (`PrunedIsCurrent`), which the next write brings to the file.
`CountedUses` needs that grants are known by their ids and that nothing was covered by
a grant not made yet (`IdsAreOwn`). `OnePendingPerCaller` speaks of memory and of the file,
since a restart puts the one in the place of the other. `DecisionsStay` is an action
property and follows from the invariant, step by step.

**`GatewayLifecycleProofs`.** Under `OneStopper` (`Stoppers` has one member), for any
number of starters, channels and failures. `OneStartRun` is not inductive: a
caller that starts must own the start promise, and one that stops the stop
promise (`PromisesMatch`); the two promises exclude each other while channels
move (`PhasesExclude`); a loop at channel `i` has dealt with the channels before
it (`LoopProgress`); what is up when nothing moves is `AtRest`. `Invariance` proves
the conjunction inductive; `TypeCorrect`, `StartIsSingleFlight` (`OneAtATime`) and
`RunningIsTruthful` (`FlagIsTrue`) follow.

**`WorkspaceLifecycleProofs`.** For any number of starters, stoppers, channels and
failures, with no assumption of one stopper. `OneAtATime` is not inductive: it
holds because each promise has one owner (`OneOwner`: no two callers stand in
`StartPlaces`, no two in `StopPlaces`, and a stop that is past its wait has no start
beside it), which is what the second look at the promise after each wait
preserves. `RunningMeansServing` needs that a loop at channel `at` has started those
before it (`Loops`), and what `running` and `stopped` are at each place (`Flags`).
`DownMeansReleased` is not inductive either, since a workspace is not down while it
opens and closes things. `Released` says what is up, lost or open at each place of a
start and of a stop: what a start that fails from there still has in hand to release.
Its step lemmas follow the hands it goes through: those of the starter alone, of the
end of a start, of a stop. The theorems are `TypeCorrect`, `StartAndStopExclude`,
`RunningIsServing` and `DownIsReleased`.

**`TaorTurnProofs`.** For any limits and any window size from 1. `Budgets` needs a
count that each retry keeps: the attempts so far are at most those of the steps
before, `Retries + 1` each (`PerStep`), and those of the attempt under way
(`AttemptsCounted`). `WindowIsRecent` needs that the window is consecutive from the
number of summaries on, and full when there are any (`Consecutive`). The type
invariant bounds every count by a constant, which follows only from both (`Bounded`,
`TypeInv`). The theorems are `TypeCorrect`, `TurnsKeepBudgets` and `WindowStaysSound`
(`WindowIsSound`).

**`ServicesProofs`, `AgentServicesProofs`.** All that the run `Services` checks is proved
for every value of its constants. A behaviour of `Services` is one of the component that
it picked (`PartStarts`, `PartMoves`), so each component has an inductive invariant of its
own, named after its instance, with a lemma for its initial states and one for its steps
(`LettersInit`, `LettersNext`), and the theorems put these together. `TypesAreKept` is the
type invariant of all of them.

What makes each invariant inductive, for the theorems of `ServicesProofs`:

- `InboundIsAlwaysOrderly` (`InboundIsOrderly`). The guard counts what is left in a bucket
  after it slid, the property counts acceptances. `IngressInv` has them meet: every
  acceptance in the window is on record (`OnRecord`), and for each user there is an
  injective map from the recent acceptances to entries of the bucket with their times
  (`Counted`), so that no more were accepted than the bucket has room for. `SocketsInv` is the
  property itself. `HealthInv` adds that what failed shows: in the monitor, or in the
  errors of the gateway (`FailuresShow`).
- `OutboundIsAlwaysKept` (`OutboundIsKept`). `LettersInv`: the queue, the hands of replays
  and what is gone share no letter (`InOnePlace`), and what is a letter, in memory, in a
  write under way or in the file, is no message that is still being sent
  (`OfSendsThatAreOver`); both as long as the queue was not used before its file was read.
  `WebhooksInv` counts failures and retries of each message.
  `TokensInv` follows a send through its two attempts (`SendInOrder`): the second has a
  token that the API accepts unless something disturbed it.
- `SkillsAreKeptThroughout` (`SkillsAreKept`). `SkillSetInv`: an operation on a file that
  is not suspect has it and its skill to itself, so that the skill, the file and what is
  written in it agree before and after it (`Undisturbed`), whether it ends or fails. `EvolutionInv` has the
  same `Lifecycle` hold of memory, of the file and of the save under way, since a restart
  puts the second in the place of the first and the third becomes the second.
- `StorageIsAlwaysConsistent` (`StorageIsConsistent`). `MemoryInv`: a memory has
  one row, an entry of an index is of the row of its number, for vectors outside `stale`,
  and nothing that was deleted is in a row, in the cache or on its way into it. `StoresInv`
  has two parts: after a change that had the file to itself and no failure, either its
  write is the only one and of the list as it is, or the file is that list (`Settled`); and
  what a limit dropped is no newer than what was kept, nor than what can still come
  (`DroppedInv`), which needs that a list whose front is cut off is in the order of time
  (`InTime`).
- `PhoenixRestartHasLastSave` (`RestartHasLastSave`, an action property). `PhoenixInv`:
  a listed file is whole, a name is one file's, and the newest listed file has the entries
  that were saved last (`DirInv`), through every step of a save (`JobInv`).

And for those of `AgentServicesProofs`:

- `RunsAreAlwaysWarranted` (`RunsAreWarranted`). `PermissionsInv`: every grant was
  approved, and no call is asked about that the gate refuses outright. `WaitingInv`: a wait
  that was not registered was told nothing.
- `SessionsAlwaysKeepTheirOwn` (`SessionsKeepTheirOwn`). `IsolationInv`: what anybody has
  of a session created when nobody used it is of its present life (`OfTheirLife`), one
  user has the lock and the calls are counted (`Isolated`). `DuoInv`: every id was
  made by an answer (`EveryIdIsMade`), and what was blocked is in nobody's hands and only
  rejected, in the trails and at the reviewer (`BlockedAlone`, `BlockedOnTrail`).
  `TrajectoryInv`: the messages stand for all that was said, in order and each part once
  (`InOrder`), and the last two and the head stay word for word (`EndsStay`).
- `ProvidersAreAlwaysFaithful` (`ProvidersAreFaithful`). `StreamsInv`: each call that is
  being put together has the pieces that were sent, or fewer if one came without its type
  (`PendingOK`); Claude's calls are handed on one by one as they stop, the others' all at
  the end (`GivenOK`). `RegistryInv`: each provider is listed once, and
  the default is among them when there are any. `PromptsInv` has no use for the messages
  that were said before: the conversions go message by message, so it says of the whole
  what a further message adds to, that OpenAI is shown the texts, the calls and the results
  that Claude is shown (`Shown`), that the first system prompt begins Claude's (`Prompted`),
  and that each message of one block arrives by the MiniMax caller (`Flattened`). That
  each kind of message adds the same on both sides are the lemmas `PlainShows`,
  `ResultsShow` and `StringShown`.
- `AdviceAgrees` and `Refinement`, of the reliability monitor. `BreakerInv` says what the
  counts of a breaker may be in each of its states; rules agree (`RulesInv`) because an
  activation looks at every active rule of its pattern, and no other change makes a rule
  active. `Refinement` is `Contract!Spec` as a whole, of which the run checks
  `BreakerKeepsContract`, what the steps of the breakers themselves do: a use of a
  breaker is a use of the contract's (`UseMaps`), where the refresh before it is hidden
  by the refinement mapping, which reads a breaker past its cooldown as half open
  (`RefreshIsHidden`); a use that ends in the audit's refusal is a stutter; a tick is
  time passing for all (`TickMaps`). While another component moves, both the breakers
  and the contract's rest.

`ServicesProofs` begins with lemmas about lists that the library does not have and both
modules use: which elements of a list a filter leaves and in which order (`Rank`, `Nth`,
`Picked`), and that picking, mapping and joining go piece by piece over two lists in a row
(`PickedConcat`, `MappedConcat`, `JoinedConcat`). `Joined` is a recursive function, as
`Lists` says; what is proved of it goes by the least place at which two of its runs would
differ.

Every safety property that a passing run checks is therefore proved. Only model-checked:
liveness (`WaitEnds`, `PauseEnds`, `CallsReturn`, `TurnEnds`), which rests on fairness and
`ENABLED`, out of the prover's reach; and the five violations, which are counterexamples.

## 5. Not modelled

Left out for good: wire formats, HTTP, SQL, signatures and encryption, terminal and
file tools, logging, metrics and secrets, which keep no state the rest depends on;
scores, embeddings and confidences, which are floating-point arithmetic; matching a
skill to a task, parsing a review, and the patterns of the risk scorer, which are text.
What the code exports and nothing uses: `RetryExecutor`, `MemoryWritePolicy`,
`MemoryInjector`, `MessageRouter`. The command line, the simulated model callers, the
stdio channel, the validation and the templates of adapter configurations, and the hash
chain of the Phoenix audit.

A write of the workflow store is one step (`writeFileSync`): a crash inside it, which
leaves a file that does not parse, is not modelled. What a turn remembers of the turns
before it is not either: `FileStores` has the snapshot as a file, `TaorTurn` starts from
a fresh window. The mode of the permission gate stays as it is at the start, although
`setMode` could change it; no code of the program calls that while turns run.

What could come next, in this order: two turns of one session over one session
snapshot, as a module that composes `TaorTurn` with `FileStores`; and
liveness of the delivery queues under the fairness of their timers.
