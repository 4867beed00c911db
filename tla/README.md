# A verification project for firebase-swift

firebase-swift is a port of the Firebase Apple SDK to Swift for Apple platforms,
Linux and Android. Its largest part, and the one in which concurrency, failure
and persistence meet, is Firestore: a C++ core (`Sources/Firestore/core/src`)
below a Swift API. The second is the Realtime Database
(`Sources/FirebaseDatabase`), in Swift. This directory holds TLA+ models of
Firestore's write path, watch path and transactions and of the Realtime
Database's connection, the TLC runs that check them and TLAPS proofs about them.
Paths below are relative to `src/Sources/Firestore/core/src` unless they begin
with `Sources`.

## 1. Inventory of the system

### How a Firestore client works

Every client has one *worker queue* (`util/async_queue.cc`). API calls, stream
events, timers, credential changes and connectivity changes all become tasks on
it, and one task runs at a time. That makes a task the natural atomic action of
the models. What is concurrent is the order of the tasks: an answer can be under
way while the application changes its mind, the user signs out, a timer fires,
the network goes, or the process dies and starts again from what LevelDB holds.

    Swift API -> bridge -> FirestoreClient -> EventManager -> SyncEngine
                                                  |              |     \
                                             QueryListener     View    LocalStore -> LevelDB
                                                                 |          |
                                                     RemoteStore ----------+
                                                      /        \
                                              WatchStream   WriteStream -> GrpcStream -> backend

| Component | State | Operations | What is hard, and what makes it correct |
|---|---|---|---|
| Write path: `SyncEngine`, `RemoteStore`, `WriteStream`, mutation queue | durable queue per user, pipeline of at most ten batches, stream and handshake, callbacks | `WriteMutations`, `RegisterPendingWritesCallback`, `HandleCredentialChange`, `EnableNetwork`, `DisableNetwork`, the stream's open, handshake, result and close | responses are matched by position only; lost acknowledgements; crashes; user changes. Writes are settled once, in order, as success only if committed |
| Watch path: `RemoteStore`, `WatchStream`, `WatchChangeAggregator`, `LocalStore`, `View` | listen targets, target states, resume tokens in memory and on disk, synced keys | `Listen`, `StopListening`, `OnWatchStreamChange`, `RaiseWatchSnapshot`, `ProcessTargetError`, `ApplyRemoteEvent` | messages of a target's earlier life; tokens and keys persisted apart; filters that disagree. A current view shows exactly what matched at a version |
| Limbo resolution: `SyncEngine`, `View` | limbo references, active and queued resolutions | `UpdateTrackedLimboDocuments`, `PumpEnqueuedLimboResolutions`, `RemoveLimboTarget`, `HandleRejectedListen` | a limit on active resolutions, several views sharing a document. Every limbo document is resolved or leaves limbo |
| Stream lifecycle: `Stream`, `ExponentialBackoff`, credentials | state, close count, backoff, idle timer | `Start`, `Stop`, `Close`, `MarkIdle`, `InhibitBackoff` | credentials that arrive after a close. No assertion on the state fails |
| gRPC layer: `GrpcStream`, `GrpcCompletion`, `GrpcConnection` | write buffer, completions under way | `Start`, `Write`, `FinishImmediately`, `WriteAndFinish` | completions on another thread, blocking waits. Every completion is handled once or dropped after a finish |
| Event manager and online state | listeners with their views' snapshots, failures, timer | `AddQueryListener`, `OnViewSnapshots`, `UpdateState` | first snapshot from cache or after ten seconds |
| Transactions: `TransactionRunner`, `Transaction`, the bridge's executor | attempts left, read versions, buffered mutations, the update block's thread | `Run`, `Lookup`, `Set`, `Update`, `Delete`, `Commit`, `HandleTransactionError` | update blocks run off the worker queue, on threads that all instances share; lost answers; termination. A committed transaction read what it replaces |
| Client and worker queue | mode, schedule, tasks, running task | `Enqueue`, `EnterRestrictedMode`, `Dispose`, `TerminateAsync` | dispose racing with tasks and with itself. Nothing runs afterwards and nobody waits for ever |
| Persistence: LevelDB and memory | rows of queues, targets, documents, overlays, globals | transactions | batch ids derived from the rows; migrations |
| Local views, query engine, indexes, garbage collection, bundles | overlays, index entries, sequence numbers, bundle metadata | reads, backfill, collection, loading | limbo-free versions, live targets against sequence numbers |
| Queries, filters, pipelines, values, serializer | none | evaluation and conversion | total order of values, limits |
| Swift bridge (`api/firestore_bridge.cc`, `Sources/Firestore/Swift`) | instances, Auth and App Check observers | `SetAuthUser`, token callbacks, terminate | the user handed over at creation against the observer's |
| Auth (`Sources/FirebaseAuth`) | current user, listeners, refresh task under a lock | sign-in, sign-out, `getToken`, refresh | the lock is released during network calls |
| App Check (`Sources/FirebaseAppCheck`) | cached token, shared request | `getToken`, refresh | concurrent callers share one request |
| Realtime Database's connection (`Sources/FirebaseDatabase`): `FPersistentConnection`, `FIRRetryHelper`, `FConnection` | connection state, interrupt reasons, scheduled retry, token and fetch, outstanding puts, gets and listens | `putInternal`, `getDataAtPath`, `listen`, `unlisten`, `restoreState`, `tryScheduleReconnect`, `interruptForReason`, `purgeOutstandingWrites` | puts sent again after a lost connection, transactions never; tokens that arrive late, are rejected or revoked. Every put is settled, once and truly |
| The rest of the Realtime Database: `FRepo`, `FSyncTree`, `FWriteTree` | write tree, sync tree, transactions per path | events, local writes, transactions | events computed from two trees |
| Storage, Functions, Core (`Sources/Firebase*`) | tasks and their state, apps | upload, download, call | pause, resume and cancel of uploads |

`Sources/old` is an earlier copy of the Firestore core; protocol buffers,
nanopb output and third-party code carry no logic of this program. They and the
components without a module are listed, with the reason, in `PROJECT.json`.

### What is hard to test here

`PROJECT.json` lists each hazard at its line. In short: answers that carry no id
and are matched by position; acknowledgements lost between commit and delivery;
the process dying between two steps of one task; a user change while callbacks
and tokens of the old user are alive; batch ids handed out twice; timers that
fire after the reason for them has gone; messages of a previous life of the same
target; resume tokens and matching keys written at different times; the backend ending a
stream in a way the client takes for its own doing; update blocks of transactions
that block threads shared by all instances; commits whose answer is lost; puts
sent again on a new connection among puts called meanwhile; and token fetches
that end after the attempt they belong to.

## 2. Modules

| Module | What it models |
|---|---|
| `DurableWrites` | The promise about writes, without streams or batch ids: a user's writes wait in a durable queue and leave it in order, committed or rejected; the application is told at most once. |
| `WritePipeline` | The write path in detail. |
| `WatchTargets` | The watch path: listens, the aggregator, snapshots, the target cache and views. |
| `TransactionRunner` | Firestore's transactions: attempts, update blocks on shared threads, buffered writes, commits and retries, termination. |
| `RealtimeConnection` | The Realtime Database's connection: reconnecting, tokens, operations, listens, and what is sent again. |
| `WritePipelineInvariant`, `WatchInvariant`, `TransactionInvariant`, `RealtimeInvariant` | The inductive invariants, in named parts. |
| `WatchSnapshots` | One more of the watch path: what the responses under way make of what a target holds. |
| `WriteOrder` | Two more inductive invariants of the write path: the order of writes, and the stream token. |
| `RealtimeOrder` | More of the connection: the order of puts on the wire and at the backend, and that listens reach the backend. |
| `WritePipelineProofs`, `WriteOrderProofs`, `WriteTokenProofs`, `WatchProofs`, `WatchSnapshotProofs`, `TransactionProofs`, `RealtimeProofs`, `RealtimeOrderProofs` | The TLAPS proofs. |
| `MCWritePipeline`, `MCWatchTargets`, `MCTransactionRunner`, `MCRealtimeConnection` | Instances for TLC. |

`WritePipeline` holds the refinement mapping to `DurableWrites`. Definitions
marked "Fault:" are deliberate mistakes that stand next to the definition they
could be made in. Nothing refers to them: they are there to be put in its place,
to show that a property notices.

### WritePipeline

`rs` is the `RemoteStore` with its `WriteStream` and the call below it: whether
the network is enabled, the stream's state (`Initial`, `Starting`, `Backoff`,
`Open`, `Error`; `Healthy` behaves like `Open` here), whether the handshake is
complete, the idle timer, the write pipeline, and the requests and responses
under way. `queue` and `storedToken` are the durable rows of the mutation
queues; `callbacks` and `waits` are `SyncEngine`'s tables; `committed`,
`refused` and `lingering` belong to the backend. The history variables record
who wrote what and what the application was told.

One action is one task. A result received (`ReceiveResult`) is the whole of
`OnWriteStreamMutationResult`: the front leaves the pipeline, the user callback
runs, waits are resolved, the batch is removed, the token is stored, the
pipeline is filled again. `Crash` is the death of the process between tasks. A
death inside a task leaves something else behind in two tasks only, because each
of the others changes the database or tells the application at most once:
`CrashBeforeAcknowledge` is the death inside `HandleSuccessfulWrite`, after
`NotifyUser` or after `TriggerPendingWriteCallbacks`, with the batch still
durable; `CrashAfterReject` the one inside `HandleRejectedWrite`, after the
transaction of `RejectBatch` or after `NotifyUser`, with the application or its
waiters not told.

A write's response carries no identity in the protocol, so the model's responses
carry the write only so that `ResponsesCorrelate` can say which it was.
`ConnectionLost` is an immediate failure of the call; `StatusArrives` is the
path on which gRPC has a status while responses are still unread. `lingering`
holds requests of a call the client has given up on, which the backend may still
serve: a late duplicate.

`HARD_ASSERT`s that guard the write path are kept as a field `fault`; a failed
one is remembered rather than stopping the model, and `NoHardAssertFails` says
none does.

### WatchTargets

`cs` is the listen side of the `RemoteStore`: `tokens` is `listen_targets_`
(target to resume token), `states` and `resets` are the aggregator's
`target_states_` and `pending_target_resets_`, and `requests` and `responses`
are what is under way on the call. `memory` is
`LocalStore::target_data_by_target_`, `cache` the durable target row with its
matching keys, `views` the synced documents and current flag of each view.

`truth` is the backend's history: which keys match which target at each version.
A snapshot version is an index into it, and the resume token issued at a version
is that version, so what a token stands for can be said exactly:
`ResumeTokensDescribeCache`. `ReceiveChange` is one message of the stream through
`OnWatchStreamChange`, and when it carries a version, all of `RaiseWatchSnapshot`
and `SyncEngine::ApplyRemoteEvent`: the event is taken out of the aggregator,
tokens are updated, failed targets are unwatched and watched again, keys are
stored, and the target row is stored if `ShouldPersistTargetData` says so. Time
is not modelled: where that function compares times, both answers are possible.

The backend (`ServerTakesRequest`, `ServerCatchesUp`, `ServerRemovesTarget`) is
external. It acknowledges requests in order, brings all targets of a call to one
version with the messages the protocol allows (changes; a reset followed by all
documents; for a resumed target only some of the deletes followed by an
existence filter, with or without Bloom filter), then sends the version. A new
call may be served by a replica that is behind (`StreamOpens` picks the version),
but not behind the tokens it is sent.

### TransactionRunner

One record per call of `runTransaction`: where it is (`pc`: a task in the worker
queue, the backoff timer, the update block waiting for a thread, running or
waiting for a lookup, the commit under way, the outcome reported), the attempts
left, and the attempt's `Transaction` with `read_versions_`, the buffered
mutations with their preconditions, `written_docs_` and `last_write_error_`. The
backend is `docs`, key to version: the number of the commit that last wrote it.
An update block is any sequence of reads and writes that ends by returning or by
throwing; it may ignore the errors of its reads, as a Swift block can with `try?`.
Between two of its steps run the blocks of other calls, other clients' writes,
the worker queue and the termination of the client.

`HandleTransactionError` and `DispatchResult` are what the runner does with a
status; `Enqueued` is what becomes of a task that meets a queue that no longer
runs: it is dropped, and with it the callback it was to call. `Failing` and
`Applied` are the backend's side of a commit, each mutation checked after those
before it. `BackendCommits` either answers or loses the answer, which the runner
then sees as a transient error and retries.

### RealtimeConnection

`connectionState`, `interruptReasons`, `forceTokenRefreshes`, `authToken` and
`unackedListens` are the fields of `FPersistentConnection`; `realtime` is the
state of its `FConnection`, `scheduledRetry` the block held by `FIRRetryHelper`,
`fetch` the token fetch of the latest attempt and `staleFetches` the earlier ones
that may still fail. `operations` stands for `outstandingPuts`,
`outstandingGets`, `onDisconnectQueue` and `putsToAck`: each operation has a
kind and a place, and how often and with what its completion was called.
`requests` and `responses` are what is under way on the connection; the backend
answers in order. `accepted` is what the backend remembers of a connection: the
listens it has accepted there, which end with the connection. A token is a number,
and the backend accepts those above the last one revoked.

`Init` is the state after the task that the initializer starts, which interrupts the
connection until it is opened; `FRepo.deferredInit` opens it in a later task, and the
model supposes that order.

Everything runs on one actor, and an action is what runs between two awaits.
`Disconnects` is the whole of `onDisconnect`: the transactions' puts that were
sent are canceled, the count of listens is reset, and a retry is scheduled.
`RestoreState` sends the listens in any order, then the puts by index, the gets
and the `onDisconnectQueue`. `PurgeOutstandingWrites`, interrupts, a changed
system clock and the return to the foreground are actions of their own. The
release build drops Swift's assertions, so a failed one does not stop the model;
`ConnectionAssertions` states the important ones.

## 3. Runs

All runs finish in about three minutes or less on two cores.

| Run | Question and bounds |
|---|---|
| `write_pipeline` | All safety properties of the write path. Two users, so a change of user and back is possible; three writes with a pipeline of two, so the pipeline is full and refilled; one lingering call; two disruptions, so a failure can follow a failure. Also that the write path implements `DurableWrites`: every step is a step of it or changes nothing it sees. |
| `write_liveness` | Every write settles (`WritesSettle`), with two writes and a pipeline of one. |
| `watch_one_target` | All safety properties of the watch path for one query: two documents, so an existence filter can be wrong about one and right about the other; three versions, so a token can be two steps behind; three listens; two disruptions; one rejected target. |
| `watch_two_targets` | The deep invariants, and that a query that stays listened to catches up (`ListenersCatchUp`), for two queries that share a call, a snapshot version and `lastRemote`, with an update sent while another is unread. |
| `transactions` | All properties of a transaction: two documents, so that one can be read and the other written; three reads and writes in an attempt, so that a document can be read and written twice; two attempts, so that a retry can be the last; one write of another client, one fault, one termination. Liveness is included (`OutcomesReported`). |
| `realtime_connection` | All properties of the Realtime Database's connection: two operations of any of the four kinds, so that one can overtake the other; one listen; two disturbances, so that the second can meet the recovery from the first. Liveness is included (`PutsSettle`). |
| `write_wrong_reject`, `watch_rejected_listen`, `watch_stop_in_reset`, `watch_bloom_count`, `transactions_threads_lost`, `realtime_stale_fetch` | Disagreements between the code and what it says of itself, section 6. TLC finds a counterexample. |

The bounds in the `.cfg` files. Write path: `MaxWrites`, `MaxPendingWrites` (10
in the code), `MaxLingering`, `MaxDisruptions`. Watch path: `MaxVersions`,
`MaxListens`, `MaxDisruptions`, `MaxRejections` (targets the backend ends with an
error) and `MaxInFlight` (responses unread when the backend sends an update).
Transactions: `CallsPerClient`, `MaxAttempts` (5 by default in the code),
`Threads` (4 in the code), `MaxOperations` per attempt, `MaxForeignWrites`,
`MaxFaults`, `MaxTerminations`. Realtime Database: `MaxOperations`, `MaxListens`,
`MaxDisturbances`.

Some constants switch on situations instead of counting. `Modifications`
(documents change without leaving the query), `Collisions` (a Bloom filter claims
a document that has gone), `SplitResets` (a failed filter and its snapshot come
apart: a listener stops between them, or the filter is of a version older than
the last remote snapshot, which raises none) and `StaleFailures` (a token fetch
fails after a later attempt has begun). With the last three the code misses its
properties, which is what three of the runs show; the passing runs have them off,
and their results hold only outside these situations. A rejected target breaks
the count of outstanding responses (`watch_rejected_listen`), and what relies on
the count with it: `watch_one_target` therefore checks the three deep invariants
up to a rejection (`SoundUntilRejection`) and the other properties after it too.

With one call of `runTransaction`, `transactions` leaves the interleaving of two
modelled calls to the proofs, which hold for any number of clients, calls and
threads; what other transactions do to a call is a foreign write. With two
clients and one attempt, `transactions_threads_lost` shows what calls do to each
other through the shared threads.

Symmetry is used in safety runs only: users in the write path, targets and keys
in the watch path. No definition distinguishes the members of these sets; where
an order is needed for a set of messages it is `SetToSeq`'s, and the properties
do not depend on it. Only the write runs check for deadlock: when
nothing is listened to, every transaction is told or every put is settled, and
the bounds are reached, the other systems rightly have nothing to do.

### Fairness

Write and watch path: weak fairness of what the worker queue does with something
it already has (a stream that was told to start opens or fails, a response that
arrived is handled, a backoff delay passes) and of the backend, which answers a
request or ends the call. The queue is first-in first-out and runs every task,
and gRPC reports an end of every call, so these steps happen.
Transactions: weak fairness of the worker queue and executor for each call, of
the end of an update block (one that never ends keeps its thread, but that is
the application's doing), of the backend's answers and of the termination task.
Realtime Database: weak fairness of opening, of scheduled retries and token
fetches, which end in success or failure, of the handshake, of the backend's
answers and of the actor's handling of them, and of the timers of gets.

There is no fairness of anything the application, the network or a user does:
writing, listening, signing in, disruptions. Disruptions are bounded, which
stands for "the network eventually stays up long enough". `WritesSettle` allows
for a network that is disabled and for an author who never comes back;
`ListenersCatchUp` for a listener that stops or a network that is disabled;
`OutcomesReported` for a client that is terminated; `PutsSettle` supposes that
the connection is not interrupted for ever, and takes a put in `putsToAck` as
answered, though its completion is still to be called.

## 4. Properties

Write path:

- `ResponsesCorrelate`: the response the client is about to handle belongs to the
  write it will pair it with.
- `PipelineIsQueueFront`: the pipeline is a front of the user's mutation queue.
- `PendingWritesHaveStream`: pending writes on an allowed network have a stream.
- `SuccessMeansCommitted`, `CommitsInOrder`, `SettlesInOrder`: what the
  application is told is true, and order is kept over resends.
- `CallbacksMatchQueue`: a registered callback is for a batch still queued,
  although ids are reused.
- `WaitsCanResolve`, `WaitCoversEarlierWrites`: a `waitForPendingWrites` waits for
  a batch that is still queued; when it succeeds, what the user wrote earlier is
  settled and the last write is applied by the backend or rejected. That last
  write may still be queued: the waiters are told before the batch is removed, and
  if the process stops in between, it is sent again after the restart.
- `TokensBelongToUser`: no stream token of one user is used by another.
- `NoHardAssertFails`, `TypeOK`, `IInv` and `OrderInv` (section 5),
  `ImplementsDurableWrites`, `WritesSettle`.

Watch path:

- `ResumeTokensDescribeCache`: a token anywhere, in memory or on disk, is of a
  version at which exactly the cached keys matched. This is what makes resuming
  safe after any crash.
- `CurrentViewsAreSnapshots`: a current view shows exactly one version.
- `OutstandingResponsesCounted`: the counter that tells a target's lives apart
  equals the answers still to come.
- `ChangesApplyToView`: gathered changes are changes to what the view holds.
- `ListenedTargetsHaveStream`, `SoundUntilRejection`, `TypeOK`,
  `ListenersCatchUp`.

Transactions:

- `Serializable`: whenever the backend applies a transaction, every document it
  read is at the version it was read at, however often it was written.
- `ConflictsAreReal`: a transaction is refused for a conflict only if a document
  it read has changed, never for its own second write of a document.
- `OutcomeIsTrue`: OK means that the last attempt was applied; an error after an
  applied attempt means that the answer was lost.
- `RetriesExhausted`: all attempts are made before a retryable error is reported,
  and no more.
- `OutcomesReported`, `TypeOK` (`attempts_remaining_` is never negative), `IInv`.

Realtime Database:

- `OutstandingOnTheWire`: while connected, every outstanding put is on the wire
  exactly once, no get or `onDisconnect` waits unsent, and every listen is on the
  wire or was accepted by the backend on this very connection.
- `LaterPutWins`: once a put is accepted no earlier one is applied after it,
  although puts are sent again.
- `TransactionsAppliedOnce`: a transaction's put is never applied twice.
- `ToldOnceAndTruly`: a completion is called once at most (a continuation that is
  resumed twice traps), and with success only for what the backend applied.
- `ListensCounted`: `unackedListentsCount` is the number of listens on the wire,
  never negative and never of a connection that is gone. It does not say that every
  put in `putsToAck` is told: one that is there when the connection is lost may wait
  for ever (section 6).
- `ConnectionAssertions`, `TypeOK` (no auth without a token), `WireInv`,
  `PutsSettle`.

## 5. Proofs

Eight modules hold the proofs. Their theorems hold for every value of the
constants: users, queries, keys and clients, any pipeline limit, any number of
attempts, threads and operations. The inductive invariants `IInv`, `OrderInv`
and `WireInv` are also checked by TLC, in the passing run of their module; those of
`WatchTargets`, `IInv`, `CountInv` and `SnapInv`, can be added to any `.cfg` of
`MCWatchTargets`, which extends `WatchSnapshots`. `SnapInv` chooses a sequence of
sets for every target, so it needs bounds smaller than those of `watch_one_target`
(two versions, two listens and one disruption take four minutes).

| Module | Theorem | Property |
|---|---|---|
| `WritePipelineProofs` | `InvariantHolds` | `IInv` |
| | `TypeCorrect` | `TypeOK` |
| | `PipelineIsFront` | `PipelineIsQueueFront` |
| | `ResultsMatchWrites` | `ResponsesCorrelate` |
| | `PendingWritesServed` | `PendingWritesHaveStream` |
| | `NoAssertFails` | `NoHardAssertFails` |
| | `SuccessIsCommit` | `SuccessMeansCommitted` |
| | `CallbacksQueued` | `CallbacksMatchQueue` |
| `WriteOrderProofs` | `OrderHolds` | `OrderInv` |
| | `CommitsOrdered` | `CommitsInOrder` |
| | `SettlesOrdered` | `SettlesInOrder` |
| | `WaitsResolvable` | `WaitsCanResolve` |
| | `WaitsCover` | `WaitCoversEarlierWrites` |
| | `WritesAreDurable` | `ImplementsDurableWrites` |
| `WriteTokenProofs` | `TokensStayWithUser` | `TokensBelongToUser` |
| `WatchProofs` | `WatchInductive` | `IInv` and `CountInv` |
| | `WatchTypeOK` | `TypeOK` |
| | `ListenedTargetsServed` | `ListenedTargetsHaveStream` |
| | `GatheredChangesApply` | `ChangesApplyToView` |
| | `OutstandingCounted` | `OutstandingResponsesCounted`, until a rejection |
| `WatchSnapshotProofs` | `SnapshotsInductive` | `SnapInv` |
| | `TokensDescribeCache` | `ResumeTokensDescribeCache`, until a rejection |
| | `ViewsAreSnapshots` | `CurrentViewsAreSnapshots`, until a rejection |
| | `ListeningIsSound` | `SoundUntilRejection` |
| `TransactionProofs` | `InvariantHolds` | `IInv` |
| | `TypeCorrect` | `TypeOK` |
| | `OutcomesAreTrue` | `OutcomeIsTrue` |
| | `AllAttemptsMade` | `RetriesExhausted` |
| | `ConflictsHaveACause` | `ConflictsAreReal` |
| | `TransactionsAreSerializable` | `Serializable` |
| `RealtimeProofs` | `ConnectionTypes` | `TypeOK` |
| | `AssertionsHold` | `ConnectionAssertions` |
| | `NoTransactionTwice` | `TransactionsAppliedOnce` |
| | `EveryListenCounted` | `ListensCounted` |
| | `CompletionsTrue` | `ToldOnceAndTruly` |
| `RealtimeOrderProofs` | `WireInvariantHolds` | `WireInv` |
| | `LaterPutsWin` | `LaterPutWins` |
| | `PutsOnTheWire` | `OutstandingOnTheWire` |

### Write path

Assumptions: `ConstantsAssumption`, and that the backend does not end a Write
call with status OK (`"OK" \notin ServerStatuses`), because the code fails an
assertion when it does (section 6).

The properties are not inductive by themselves. That a response belongs to the
front of the pipeline follows from where the request was put when it was sent,
and that the pipeline can be refilled at all from its being a front of the queue
whose ids increase. `IInv` puts these together: queues increase (`Increasing`)
and their ids stay below the next one (`IdsBounded`, which holds although ids
are reused); between tasks the remote store is `Sound`, that is `Consistent`
(pipeline is a front of the queue, an open call's responses and requests are the
pipeline in order, a stream that is not open holds nothing) and `Complete` (the
pipeline is as full as it can be and has a stream); callbacks match the queue;
and unread results are of committed writes. `Consistent` is separate from
`Complete` because within one task, for instance after the front has been
removed and before the pipeline is filled, only the former holds. The proof has
a lemma for each operator on the remote store (what `FillWritePipeline`,
`Closed`, `EnableNetworkInternal` and the others preserve) and one for each
action of `Next`.

The order of writes is proved relative to `IInv`. `IInv` speaks of one moment;
order is about history, and what endangers it are calls the client has given up
on, which the backend may still serve after later calls have committed more. So
`OrderInv` adds that the queues hold exactly the writes that are not settled, in
the order they were issued (`QueuesHoldPendingWrites`), and that in every such
call a request comes after those of all earlier writes of its user, unless they
are committed or rejected already (`LingeringInOrder`). That holds when a call
is given up because its requests were the pipeline in order, by `IInv`, and the
pipeline is a front of the queue; and it stays true because commits and
rejections are never undone. The proof first
classifies the tasks: `NextEffects` says that each of them issues a write,
commits one, acknowledges or rejects the front of the current user's queue, only
tells the application something, or does nothing that the order could notice. A
lemma for each of these effects preserves `OrderInv`. `WritesAreDurable` uses
the same effects: each is a step of `DurableWrites` or a stutter, and
`OrderInv` supplies what its guards ask, for instance that a write is committed
only after those before it.

The stream token is kept in three places: in memory, on the stream and in the
database. `TokenInv` says that they agree on whose it is, and that an open call
uses the current user's. That the writes of the call are this user's too follows
from `IInv`, which makes them batches of the user's queue, and `OrderInv`, which
says who wrote those.

### Watch path

Assumption: `WatchConstants`, by which there are finitely many targets and
documents. For the four properties of `WatchProofs`, `SplitResets`, `Collisions` and
`Modifications` may have any value: they hold in the situations in which the
deeper ones fail too, and all but the count after a rejected target as well. The
theorems of `WatchSnapshotProofs` assume that neither `Collisions` nor `SplitResets`
is set, and speak of the time before the first rejection. The code gives no better
promise: `watch_bloom_count`, `watch_stop_in_reset` and `watch_rejected_listen` show
what goes wrong with each of the three.

`ChangesApplyToView` relates the aggregator to the views of active targets, and
is not inductive: the state of a target that is not active may have changes too,
and not every way of becoming active clears them (after a rejection a count can
be below zero, and the next request then raises it to zero). `IInv` therefore
speaks of every target state and of the durable cache, which outlives the listeners: the changes of a target state are changes to the keys cached for
the target (`ChangesFitCache`), whether it is listened to or not, and a view has
exactly the cached keys (`ViewsFromCache`). This survives because keys are cached
for the very targets whose changes are taken out of the aggregator (an active
state with changes is always `dirty`, the last part of `Fits`), because releasing a target leaves its keys alone, and because the end of a call drops all
target states (`CallOver`). `Typed` has the tables of the three components list the
same targets and every token be of a version the backend has had, which is what
lets a token be used as an index into `truth`. `StreamAsNeeded` strengthens
`ListenedTargetsHaveStream`: no idle timer runs while a target is listened to.

`CountInv` says, until a rejection, that no error is under way and that
each count is the number of requests and answers under way on the call. The
backend moves a request to an answer, receiving an answer subtracts one
from both sides, and `Ask`, the one operator behind a listen, an unlisten, the
opening of a stream and the listening again of failed targets, adds as many
requests as it counts. How many those are takes the lemmas at the
beginning of the module: which elements a concatenation of any number of
sequences has and where (`FlattenParts`, `InOrder`, `InOrderCount`), and how
the places of a sequence change when it grows or shrinks (`PlacesConcat`,
`PlacesAppend`, `PlacesTail`). The prover cannot use an induction theorem that has
a predicate as parameter; where these lemmas need induction over a length, they
use one about sets of natural numbers (`Climb`), which follows from the
well-foundedness of `<`.

For the client's side of a message, `Touches` and `Gathers` say what each operator
of the aggregator may change: the state of one target or of all, in a way that
fits the cache, leaving the count and the rest of the client alone. There is one
lemma for each of these operators and one for each action of `Next`.

That a resume token describes the cache is about a moment in which the token and
the keys are written together, but what makes it true was sent long before, when
the backend worked out what it had to send from what it believed the client to
have. `SnapInv` follows a listened target from one to the other. On an open stream
(`AskedOrFollowed`) either the last request about it is still to be taken and asks
to resume from its token (`Pending`), or the backend serves it and nothing more is
asked (`Followed`). Then there is a place in the responses from which the client
listens to it, the last answer for it or, once that has been received, now; and
from there on a trace: the set of keys the client holds after each response
(`Traces`), beginning with the cached ones, or with those plus what the aggregator
has gathered. At each `NoChange` on the way the trace is what matched at the
version announced, and at its end it is what the backend has sent (`Announced`).
A trace may break off at an existence filter that fails; from there the client
ignores what comes, until the snapshot that resets the target. For this, nothing
but `Current` may be said of the target between the filter and a snapshot that is
raised (`FiltersFirst`, `ResetsClosing`), which is what `SplitResets` gives up; and
versions have to be announced in order (`InOrderAnnounced`), so that the snapshot
is not one the client ignores. A filter that removes what its Bloom filter does
not name leaves exactly what matched only if the filter claims nothing that has
gone; `Collisions` gives that up. A rejection spoils the count by which the client
tells what was sent for an earlier life of a target from what is sent now.

The proof is in four layers. The first is about traces alone: two that follow
each other are one, and one goes on after its first response. The second shows
that each of the updates the backend may choose (`IsUpdate`: changes, a reset, or
new documents with a filter) takes the set sent before to the new one, or breaks
off at the filter. The third compares a response's step in the trace with what
the aggregator does when it takes it, for a target it follows and for one whose
answer is still to come, in which case it must ignore it: this is where `CountInv`
is needed. The last goes through the actions; the snapshot that is raised is the
longest, since it writes tokens and keys, sets views current and listens again to
the targets to be reset, all in one task.

### Transactions

Assumption: `TransactionConstants`. `IInv` says for each call, whatever the
others do: what the buffered mutations say of the versions read (`Guarded`: a
precondition with a version is on the first write of its document and is the
version read; every document that was read and is written has one), how
attempts made and left add up at each place (`AttemptsCounted`), and which
attempts have been applied, given what is known of the answer (`Known`, `Told`).
`Serializable` is an action property: a step that applies a transaction finds no
failing precondition, and by `Guarded` every document read then has the version
it was read at, either by a mutation's precondition or by the verification that
`Commit` adds.

### Realtime Database

Assumptions: `ConnectionConstants`, and that the fetch of a token does not fail
after a later attempt has begun (`StaleFailures = FALSE`); `realtime_stale_fetch`
shows what happens otherwise, and it makes the theorems about transactions and
listens false too. `IInv` consists of: what the connection's state says of the
`FConnection`, and that a connection that is not open has no requests
(`ConnectionInv`); that the auth request of a new connection is the first on the
wire, and there while authenticating only (`AuthFirst`), since its answer sends
everything again; that a transaction's put is on the wire or applied only once it
was sent, only on the connection it was sent on, and once (`TransactionsInv`);
what each completion has been called with (`ToldInv`); and the count of listens.
Lemmas about cardinalities say how many listens a wire has after a request is
appended, answered or received, and after everything is restored. A step is
either one of the connection alone, one that moves operations on
(`OperationsMoveOn`), one that sends, answers or receives a single request, or
one that drops or restores all of them; a lemma treats each kind, and
`StepIInv` applies them to the actions of `Next`.

`IInv` follows single requests; the order of puts needs an invariant about all of
them together, `WireOrderInv` (with `IInv` and `ListensInv`, below, it makes up `WireInv`). The puts on the
wire are in the order they were called (`PutsOnWireInOrder`), for a new
connection because `restoreState` sorts them, and later because a put that is
called comes after all others (`CalledInOrder`) and is sent at once only if
nothing waits (`NothingWaits`). The backend answers the wire from its front, so
when the answer to a put arrives, every earlier put has been answered on this
connection: what precedes an accepted put is not outstanding and is never sent
again (`NothingEarlierFollows`). That argument has to survive the time between
the backend's answer and its arrival, when the connection may still be lost:
`AnswersAreLatest` says that every accepting answer under way is, for now, the
latest word about the puts up to its own. Two copies of an outstanding put on
one wire would be out of order, which gives the part of `OutstandingOnTheWire` about
puts. Its part about listens is `ListensReachBackend`, which needs to know that an
accepting answer under way is to a listen the backend has accepted
(`AnswersAccepted`); together they are `ListensInv`, the third part of `WireInv`. The
proof of `WireOrderInv` first shows that every action has one of seven effects on the wire, the
operations and the backend's log (`WireRests`, `WireDropped`, `OtherSent`,
`Called`, `Restored`, `Answered`, `Received`), and then that each effect preserves
the invariant. `ListensInv` is preserved by each action: what sends, answers or
receives keeps a listen on the wire or accepted, and `RestoreState` puts all of them
on the new wire.

### Only model-checked

Every safety property of the passing runs is proved. Liveness under fairness is
beyond the prover and stays with TLC: `ListenersCatchUp`, `WritesSettle`,
`OutcomesReported` and `PutsSettle`. The theorems say nothing of what their
assumptions exclude: an `OK` status on the write stream, stale failures of token
fetches, and for the snapshots of the watch path collisions, split resets and what
follows a rejection. There the counterexamples of section 6 are TLC's.

## 6. Where the code and what it says disagree

The first six have a run that finds them and an entry under "findings".

1. `write_wrong_reject`: a permanent error of the stream rejects the write at the
   front of the pipeline even when the error has another cause, such as a
   response that could not be decoded; that write may have been committed.
2. `watch_rejected_listen`: `ProcessTargetError` ignores an error for a target
   that is no longer listened to, without counting it as the answer it is. The
   target's counter stays too high, and when it is listened to again on the same
   call, everything the backend sends for it is dropped. The same loss of the
   count, in the other direction, happens when an error removes a target with
   requests under way.
3. `watch_stop_in_reset`: `pending_target_resets_` outlives a listener. If the
   listener stops and comes back before the next snapshot, the full update the
   reset was to bring is applied without the removals the reset had gathered, and
   deleted documents stay in a view that is current. The same happens without a
   listener stopping if the failed filter is of a version behind the last remote
   snapshot, as a backend may send that is behind: no snapshot is raised for it,
   a later one is raised with what the backend has sent meanwhile, and the
   target is then listened to again with the keys of both. It takes four versions
   to see it; `SplitResets` allows both.
4. `watch_bloom_count`: the check for false positives of a Bloom filter compares
   counts, but counts documents as removed that had been removed already. A false
   positive can then pass for a success.
5. `transactions_threads_lost`: the update block of a transaction waits for its
   lookup on one of four threads that all instances share. Terminating its client
   ends the lookup without calling back, the block waits for ever, and after four
   of them no transaction of any instance of the process runs again.
6. `realtime_stale_fetch`: the catch clause of `tryScheduleReconnect` does not ask
   whether the attempt that failed is the latest. A late failure marks an open
   connection as disconnected and schedules another one beside it; transactions
   can then be applied twice, and puts wait for answers to listens of a
   connection that is gone.

Met while modelling, without a run of their own:

- A backend that ends the write stream with status OK while writes are pending
  trips the assertion meant for the client's own graceful stop
  (`remote/remote_store.cc:492`). Adding `"OK"` to `ServerStatuses` makes TLC
  violate `NoHardAssertFails`.
- A transaction whose reads find a document changed between two reads of one
  attempt is not retried, although the documentation of `runTransaction`
  (`Sources/Firestore/Swift/Source/AsyncAwait/Firestore+AsyncAwait.swift:73`)
  promises it: the bridge marks every error the block throws as permanent.
- A lost answer of a commit leads to a retry, so the writes of one call can be
  applied twice, with the second application reading the first. The model allows
  it (`applied` is a set of attempts).
- The backoff timer of a transaction is not canceled by `TerminateInternal`, and
  uses the destroyed `RemoteStore` when it fires (`Undefined` in the model).
- A get of the Realtime Database that was sent is neither answered nor sent again
  when the connection is lost, so its caller waits for ever
  (`FPersistentConnection.swift:766`). So does the caller of a put in
  `putsToAck` when the connection is lost and the listen it waits for is removed.
- A token fetched before the user signed out overwrites the nil that
  `refreshAuthToken` has set (`FPersistentConnection.swift:551`), and a sign-out
  is passed on in a task of its own (`DatabaseConnectionContextProvider.swift:59`).
- The completion of an `onDisconnect` function is called only if the answer has a
  reason (`FPersistentConnection.swift:718`), which successes lack, as the
  comment at line 741 says of puts.
- `enteringForeground` replaces a scheduled retry by one that does not force a
  token refresh, even if the other was to (`FPersistentConnection.swift:566`); the
  rejected token is then sent, and rejected, once more.
- `FRepo.restoreWrites` (`FRepo.swift:179`) waits for the answer to each put
  before it applies the put locally, so the acknowledgement finds no write; does
  not acknowledge restored merges; and sets `writeIdCounter` across these waits,
  so that a new write can take an id below a restored one, which
  `FWriteTree.swift:55` asserts cannot happen.

## 7. Plan

Done: the write path, its refinement of `DurableWrites`, transactions and the
Realtime Database's connection, and the watch path, all with the proofs above. What
would come next, in this order:

1. `LimboResolution`, composed with the views and targets of `WatchTargets`;
   an abstract specification of a query's contents.
2. The worker queue with `Dispose` and `TerminateAsync` on several threads.
3. `FRepo`: the write tree with its acknowledgements and restored writes, on top
   of `RealtimeConnection`; its transactions per path.
4. `StreamLifecycle` with `ExponentialBackoff` and credentials, and `GrpcStream`
   with its completions, refining the streams the two paths assume.
5. `OnlineState` with `EventManager`'s listeners.
6. `CredentialsBridge`, Auth's token refresh, App Check's shared request,
   `LruGarbageCollector`.

Theorem to state next: what of `SnapInv` survives the rejection of a target for the
other targets of the call.

## 8. Not modelled, and why

Document contents, field transforms, overlays and the order of query results:
data the properties here do not distinguish. Encoding, persistence formats and
migrations: conversions without interleaving. A backend that ends a watch call
with OK: it meets the same assertion as on the write path. Single-document
targets have a branch of their own in `HandleExistenceFilter`, which comes with
limbo resolution. Garbage collection of targets, which gives a query a new target
id and so a fresh cache row. LevelDB transactions are taken to be atomic and
durable. Of the Realtime Database: the pushes that carry data and the trees they
update, the WebSocket's frames and keep-alives, and the App Check token, which
travels beside the Auth token without affecting the order of requests. What the
plan above does not name (Functions, Storage, Core, the Swift API wrappers) has
little state or none; `PROJECT.json` gives the reason for each.
