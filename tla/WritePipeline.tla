---------------------------- MODULE WritePipeline ----------------------------
(***************************************************************************)
(* The write path of the Firestore client: a mutation handed to            *)
(* SyncEngine::WriteMutations is queued durably (LevelDbMutationQueue),    *)
(* copied into the RemoteStore's write pipeline, sent over the WriteStream *)
(* and finally acknowledged or rejected.  Everything below runs as tasks   *)
(* of the one worker AsyncQueue, so one task is one action; what           *)
(* interleaves are API calls, credential and connectivity changes, timers, *)
(* stream events, the backend, and process crashes.                        *)
(*                                                                         *)
(* A write is a natural number, in the order writes are issued; batch ids  *)
(* are kept apart from it because LevelDB hands them out again.  Of a      *)
(* stream token only the user it was issued to is kept.  The watch stream, *)
(* the document caches and the views are not part of this module.          *)
(***************************************************************************)
EXTENDS Integers, Sequences, FiniteSets, SequencesExt

CONSTANTS
  Users,            \* credentials::User values, each with its own mutation queue
  NoUser,           \* the token value "no stream token"
  MaxWrites,        \* bound: writes issued in one behaviour
  MaxPendingWrites, \* kMaxPendingWrites, 10 in the code
  MaxLingering,     \* bound: closed calls whose requests may still reach the backend
  MaxDisruptions,   \* bound: failures, restarts, network and credential changes
  ServerStatuses    \* the statuses the backend ends a call with; one of "OK" with writes
                    \* pending fails an assertion (NoHardAssertFails)

ErrorCodes == {"Transient", "Aborted", "Permanent"}

ASSUME ConstantsAssumption ==
  /\ NoUser \notin Users
  /\ MaxWrites \in Nat
  /\ MaxPendingWrites \in Nat \ {0}
  /\ MaxLingering \in Nat
  /\ MaxDisruptions \in Nat
  /\ ServerStatuses \subseteq ErrorCodes \cup {"OK"}

VARIABLES
  currentUser,  \* SyncEngine::current_user_
  rs,           \* the RemoteStore with its WriteStream and the stream's call
  callbacks,    \* mutation_callbacks_: user -> registered batches
  waits,        \* pending_writes_callbacks_
  nextBatchId,  \* next_batch_id_ of the current mutation queue
  queue,        \* durable: user -> mutation queue, in batch id order
  storedToken,  \* durable: user -> last_stream_token of the queue's metadata
  committed,    \* backend: the writes it has applied
  refused,      \* backend: the writes it has ended a call for, permanently
  lingering,    \* requests of closed calls the backend may still process
  issued,       \* history: number of writes issued
  author,       \* history: write -> the user that issued it
  fate,         \* history: write -> what the local store did with it
  told,         \* history: write -> what its user callback was told
  waited,       \* history: writes a successful waitForPendingWrites covered
  disruptions   \* history: disruptions so far

clientVars  == <<currentUser, rs, callbacks, waits, nextBatchId>>
durableVars == <<queue, storedToken>>
serverVars  == <<committed, refused>>
historyVars == <<issued, author, fate, told, waited>>
vars == <<clientVars, durableVars, serverVars, lingering, historyVars, disruptions>>

Writes == 1 .. MaxWrites
Handshake == 0         \* the request and response that open a write stream
kBatchIdUnknown == -1
Batches == [id : Nat, write : Writes]
Tokens == Users \cup {NoUser}

-----------------------------------------------------------------------------
(* The mutation queue.                                                     *)

\* The id of the last batch of s, kBatchIdUnknown if there is none.
LastBatchId(s) == IF s = <<>> THEN kBatchIdUnknown ELSE Last(s).id

\* NextMutationBatchAfterBatchId seeks the first row above the given id.
IndexAfter(q, id) ==
  CHOOSE i \in 1 .. Len(q) + 1 :
    /\ \A j \in 1 .. i - 1 : q[j].id <= id
    /\ i <= Len(q) => q[i].id > id

\* LoadNextBatchIdFromDb: one above the highest id of any user's queue.
LoadNextBatchId(queues) ==
  LET ids == UNION {{b.id : b \in Range(queues[u])} : u \in Users} IN
  1 + Max(ids \cup {0})

Queued(q, id) == \E i \in 1 .. Len(q) : q[i].id = id

\* RemoveMutationBatch deletes the row of the batch.
RemoveBatch(q, id) == RemoveAt(q, CHOOSE i \in 1 .. Len(q) : q[i].id = id)

-----------------------------------------------------------------------------
(* The write stream and the write pipeline, as functions on the record rs. *)

IsOpen(r) == r.state = "Open"
IsStarted(r) == r.state \in {"Starting", "Backoff", "Open"}
ShouldStartWriteStream(r) == r.enabled /\ ~IsStarted(r) /\ r.pipeline # <<>>

\* A failed HARD_ASSERT aborts the process: the first one is remembered.
HardAssert(r, holds, name) ==
  IF holds \/ r.fault # "None" THEN r ELSE [r EXCEPT !.fault = name]

\* Fault: a stream in Error goes straight to Healthy, a state this module merges.
StartStreamHealthy(r) ==
  IF r.state = "Error"
  THEN [r EXCEPT !.state = "Healthy"]
  ELSE [HardAssert(r, r.state = "Initial", "AlreadyStarted")
          EXCEPT !.state = "Starting"]

\* Stream::Start, with BackoffAndTryRestarting for a stream in Error.
StartStream(r) ==
  IF r.state = "Error"
  THEN [r EXCEPT !.state = "Backoff"]
  ELSE [HardAssert(r, r.state = "Initial", "AlreadyStarted")
          EXCEPT !.state = "Starting"]

\* Fault: the stream is not restarted.
StartNever(r) == r

StartIfNeeded(r) == IF ShouldStartWriteStream(r) THEN StartStream(r) ELSE r

MarkIdle(r) == IF IsOpen(r) THEN [r EXCEPT !.idle = TRUE] ELSE r

\* Stream::Write of some requests, in order; each cancels the idle timer.
Send(r, requests) ==
  IF requests = <<>> THEN r
  ELSE [r EXCEPT !.idle = FALSE, !.requests = @ \o requests]

\* WriteStream::WriteMutations of some batches: each carries the stream token.
MutationRequests(r, batches) ==
  [i \in 1 .. Len(batches) |-> [write |-> batches[i].write, token |-> r.token]]

\* Fault: the loop skips the next batch.
BatchesToAddSkippingOne(r, q) ==
  LET from == IndexAfter(q, LastBatchId(r.pipeline)) + 1
      room == IF r.enabled THEN MaxPendingWrites - Len(r.pipeline) ELSE 0
  IN  SubSeq(q, from, Min({from + room - 1, Len(q)}))

\* The batches FillWritePipeline's loop takes from q.
BatchesToAdd(r, q) ==
  LET from == IndexAfter(q, LastBatchId(r.pipeline))
      room == IF r.enabled THEN MaxPendingWrites - Len(r.pipeline) ELSE 0
  IN  SubSeq(q, from, Min({from + room - 1, Len(q)}))

\* Fault: batches are sent as soon as the stream is open, before the handshake.
FillWithoutHandshake(r, q) ==
  LET added == BatchesToAdd(r, q)
      full  == [r EXCEPT !.pipeline = @ \o added]
      sent  == IF IsOpen(r) THEN Send(full, MutationRequests(r, added)) ELSE full
      ready == IF r.enabled /\ full.pipeline = <<>> THEN MarkIdle(sent) ELSE sent
  IN  StartIfNeeded(ready)

FillWritePipeline(r, q) ==
  LET added == BatchesToAdd(r, q)
      full  == [r EXCEPT !.pipeline = @ \o added]
      sent  == IF IsOpen(r) /\ r.handshake
               THEN Send(full, MutationRequests(r, added)) ELSE full
      ready == IF r.enabled /\ full.pipeline = <<>> THEN MarkIdle(sent) ELSE sent
  IN  StartIfNeeded(ready)

\* Fault: handshake_complete_ survives the close.
ClosedKeepingHandshake(r, code) ==
  [HardAssert(r, IsStarted(r), "CloseNotStarted")
     EXCEPT !.state = IF code = "OK" THEN "Initial" ELSE "Error",
            !.idle = FALSE, !.requests = <<>>, !.responses = <<>>, !.status = "None"]

\* Stream::Close up to the notification of its delegate.  The delegate still
\* sees handshake_complete_, which is cleared after it returns.
Closed(r, code) ==
  [HardAssert(r, IsStarted(r), "CloseNotStarted")
     EXCEPT !.state = IF code = "OK" THEN "Initial" ELSE "Error",
            !.handshake = FALSE, !.idle = FALSE,
            !.requests = <<>>, !.responses = <<>>, !.status = "None"]

\* OnWriteStreamClose for status OK.
ClosedGracefully(r) ==
  LET closed == Closed(r, "OK") IN
  StartIfNeeded(HardAssert(closed, ~ShouldStartWriteStream(closed),
                           "StoppedWhileNeeded"))

\* Stream::Stop, idempotent.
StopStream(r) == IF IsStarted(r) THEN ClosedGracefully(r) ELSE r

InhibitBackoff(r) ==
  [HardAssert(r, ~IsStarted(r), "InhibitStarted") EXCEPT !.state = "Initial"]

\* Fault: the pipeline survives the stop.
DisableKeepingPipeline(r) == StopStream(r)

DisableNetworkInternal(r) == [StopStream(r) EXCEPT !.pipeline = <<>>]

\* Fault: the saved stream token is not loaded.
EnableKeepingToken(r, token, q) == FillWritePipeline([r EXCEPT !.enabled = TRUE], q)

EnableNetworkInternal(r, token, q) ==
  FillWritePipeline([r EXCEPT !.enabled = TRUE, !.token = token], q)

\* Fault: the streams are stopped before is_network_enabled_ is cleared.
DisabledAfterStop(r) == [DisableNetworkInternal(r) EXCEPT !.enabled = FALSE]

DisabledRemote(r) == DisableNetworkInternal([r EXCEPT !.enabled = FALSE])

RestartNetwork(r, token, q) ==
  EnableNetworkInternal(InhibitBackoff(DisabledRemote(r)), token, q)

\* A RemoteStore as constructed: streams created but not started.
NewRemote ==
  [enabled |-> FALSE, pipeline |-> <<>>, state |-> "Initial",
   handshake |-> FALSE, idle |-> FALSE, token |-> NoUser,
   requests |-> <<>>, responses |-> <<>>, status |-> "None", fault |-> "None"]

\* When a call is closed the requests the backend has not taken may be lost or
\* may still reach it: WriteAndFinish flushes, a cancellation races them.
Linger(r) ==
  LET left == [i \in 1 .. Len(r.requests) |-> r.requests[i].write] IN
  \/ UNCHANGED lingering
  \/ /\ left # <<>> /\ r.status = "None"
     /\ Cardinality(lingering) < MaxLingering
     /\ lingering' = lingering \cup {left}

Disrupt == disruptions < MaxDisruptions /\ disruptions' = disruptions + 1
NoDisruption == UNCHANGED disruptions
Alive == rs.fault = "None"

-----------------------------------------------------------------------------
Init ==
  /\ currentUser \in Users
  /\ queue = [u \in Users |-> <<>>]
  /\ storedToken = [u \in Users |-> NoUser]
  /\ rs = EnableNetworkInternal(NewRemote, NoUser, <<>>)
  /\ callbacks = [u \in Users |-> {}]
  /\ waits = {}
  /\ nextBatchId = 1
  /\ committed = {} /\ refused = {} /\ lingering = {}
  /\ issued = 0
  /\ author = [w \in Writes |-> NoUser]
  /\ fate = [w \in Writes |-> "None"]
  /\ told = [w \in Writes |-> "Nothing"]
  /\ waited = {}
  /\ disruptions = 0

-----------------------------------------------------------------------------
(* SyncEngine: user callbacks.                                             *)

Told(id, result) ==
  [w \in Writes |-> IF \E b \in callbacks[currentUser] : b.id = id /\ b.write = w
                   THEN result ELSE told[w]]

\* Fault: the callback is not erased.
NotifyKeepingCallback(id, result) ==
  /\ UNCHANGED callbacks
  /\ told' = Told(id, result)

NotifyUser(id, result) ==
  /\ callbacks' = [callbacks EXCEPT ![currentUser] = {b \in @ : b.id # id}]
  /\ told' = Told(id, result)

\* Fault: waiters for later batches are resolved too.
TriggerLaterCallbacks(id) ==
  LET done == {x \in waits : x.id >= id} IN
  /\ waits' = waits \ done
  /\ waited' = waited \cup {x.upTo : x \in done}

Resolved(id) == waited \cup {x.upTo : x \in {y \in waits : y.id = id}}

TriggerPendingWriteCallbacks(id) ==
  /\ waits' = {x \in waits : x.id # id}
  /\ waited' = Resolved(id)

\* Fault: the waiters of the previous user are kept.
KeepPendingWriteCallbacks == UNCHANGED waits

FailOutstandingPendingWriteCallbacks == waits' = {}

-----------------------------------------------------------------------------
(* LocalStore: one persistence transaction each.                           *)

\* LocalStore::WriteLocally, LevelDbMutationQueue::AddMutationBatch.
WriteLocally(batch) ==
  /\ queue' = [queue EXCEPT ![currentUser] = Append(@, batch)]
  /\ nextBatchId' = nextBatchId + 1
  /\ fate' = [fate EXCEPT ![batch.write] = "Queued"]

\* LocalStore::AcknowledgeBatch: the stream token of the result is stored and
\* the batch removed.
AcknowledgeBatch(batch, token) ==
  /\ storedToken' = [storedToken EXCEPT ![currentUser] = token]
  /\ queue' = [queue EXCEPT ![currentUser] = RemoveBatch(@, batch.id)]
  /\ fate' = [fate EXCEPT ![batch.write] = "Acked"]

\* LocalStore::RejectBatch.
RejectBatch(batch) ==
  /\ queue' = [queue EXCEPT ![currentUser] = RemoveBatch(@, batch.id)]
  /\ fate' = [fate EXCEPT ![batch.write] = "Rejected"]

\* LocalStore::HandleUserChange starts the other user's mutation queue.
StartMutationQueue(queues) == nextBatchId' = LoadNextBatchId(queues)

-----------------------------------------------------------------------------
(* API calls and external events, as worker queue tasks.                   *)

\* SyncEngine::WriteMutations: LocalStore::WriteLocally, then fill.
WriteMutations ==
  /\ Alive /\ issued < MaxWrites
  /\ LET w == issued + 1
         batch == [id |-> nextBatchId, write |-> w]
     IN  /\ issued' = w
         /\ author' = [author EXCEPT ![w] = currentUser]
         /\ WriteLocally(batch)
         /\ callbacks' = [callbacks EXCEPT ![currentUser] = @ \cup {batch}]
         /\ rs' = FillWritePipeline(rs, Append(queue[currentUser], batch))
  /\ UNCHANGED <<currentUser, waits, storedToken, serverVars, lingering, told, waited>>
  /\ NoDisruption

\* SyncEngine::RegisterPendingWritesCallback; with an empty queue the callback
\* runs at once and nothing is registered.
WaitForPendingWrites ==
  /\ Alive /\ queue[currentUser] # <<>>
  /\ LET last == Last(queue[currentUser]) IN
     waits' = waits \cup {[id |-> last.id, upTo |-> last.write]}
  /\ UNCHANGED <<currentUser, rs, callbacks, nextBatchId, durableVars, serverVars,
                 lingering, historyVars>>
  /\ NoDisruption

EnableNetwork ==
  /\ Alive
  /\ rs' = EnableNetworkInternal(rs, storedToken[currentUser], queue[currentUser])
  /\ UNCHANGED <<currentUser, callbacks, waits, nextBatchId, durableVars, serverVars,
                 lingering, historyVars>>
  /\ NoDisruption

DisableNetwork ==
  /\ Alive /\ Disrupt
  /\ rs' = DisabledRemote(rs)
  /\ Linger(rs)
  /\ UNCHANGED <<currentUser, callbacks, waits, nextBatchId, durableVars, serverVars,
                 historyVars>>

\* The connectivity callback registered in RemoteStore::Start.
ConnectivityChange ==
  /\ Alive /\ Disrupt
  /\ rs.enabled
  /\ rs' = RestartNetwork(rs, storedToken[currentUser], queue[currentUser])
  /\ Linger(rs)
  /\ UNCHANGED <<currentUser, callbacks, waits, nextBatchId, durableVars, serverVars,
                 historyVars>>

\* SyncEngine::HandleCredentialChange, LocalStore::HandleUserChange and
\* RemoteStore::HandleCredentialChange; also run when only the token changed.
HandleCredentialChange(u) ==
  /\ Alive /\ Disrupt
  /\ currentUser' = u
  /\ IF u # currentUser
     THEN /\ FailOutstandingPendingWriteCallbacks
          /\ StartMutationQueue(queue)
     ELSE UNCHANGED <<waits, nextBatchId>>
  /\ IF rs.enabled
     THEN rs' = RestartNetwork(rs, storedToken[u], queue[u]) /\ Linger(rs)
     ELSE UNCHANGED <<rs, lingering>>
  /\ UNCHANGED <<callbacks, durableVars, serverVars, historyVars>>

\* The process stops and FirestoreClient::Initialize runs again over the
\* database holding the queues q.
Restarted(u, q) ==
  /\ Disrupt
  /\ currentUser' = u
  /\ rs' = EnableNetworkInternal(NewRemote, storedToken[u], q[u])
  /\ callbacks' = [v \in Users |-> {}]
  /\ waits' = {}
  /\ StartMutationQueue(q)
  /\ Linger(rs)

Crash(u) ==
  /\ Restarted(u, queue)
  /\ UNCHANGED <<durableVars, serverVars, historyVars>>

-----------------------------------------------------------------------------
(* The write stream.                                                       *)

\* Stream::ResumeStartWithCredentials with tokens: the call is created, and
\* OnStreamStart notifies the RemoteStore, which writes the handshake.
StreamOpens ==
  /\ Alive /\ rs.state = "Starting"
  /\ rs' = Send([rs EXCEPT !.state = "Open"],
                <<[write |-> Handshake, token |-> NoUser]>>)
  /\ UNCHANGED <<currentUser, callbacks, waits, nextBatchId, durableVars, serverVars,
                 lingering, historyVars>>
  /\ NoDisruption

\* The timer of ExponentialBackoff fires.
BackoffElapses ==
  /\ Alive /\ rs.state = "Backoff"
  /\ rs' = StartStream([rs EXCEPT !.state = "Initial"])
  /\ UNCHANGED <<currentUser, callbacks, waits, nextBatchId, durableVars, serverVars,
                 lingering, historyVars>>
  /\ NoDisruption

\* The idle timer fires: Stream::Stop.
IdleTimeout ==
  /\ Alive /\ rs.idle
  /\ rs' = StopStream(rs)
  /\ Linger(rs)
  /\ UNCHANGED <<currentUser, callbacks, waits, nextBatchId, durableVars, serverVars,
                 historyVars>>
  /\ NoDisruption

\* WriteStream::NotifyStreamResponse for the first response of the stream, and
\* RemoteStore::OnWriteStreamHandshakeComplete, which sends the whole pipeline.
ReceiveHandshake ==
  /\ Alive /\ IsOpen(rs) /\ rs.responses # <<>> /\ ~rs.handshake
  /\ LET r == [rs EXCEPT !.responses = Tail(@), !.handshake = TRUE,
                         !.token = currentUser]
     IN  rs' = Send(r, MutationRequests(r, r.pipeline))
  /\ storedToken' = [storedToken EXCEPT ![currentUser] = currentUser]
  /\ UNCHANGED <<currentUser, callbacks, waits, nextBatchId, queue, serverVars,
                 lingering, historyVars>>
  /\ NoDisruption

\* A mutation result is next: the response is taken off the stream and
\* correlated to the first write of the pipeline.
ResultReady == IsOpen(rs) /\ rs.responses # <<>> /\ rs.handshake

WithResult ==
  HardAssert([rs EXCEPT !.responses = Tail(@), !.token = currentUser],
             rs.pipeline # <<>>, "ResultForEmptyPipeline")

\* NotifyStreamResponse, OnWriteStreamMutationResult, HandleSuccessfulWrite and
\* LocalStore::AcknowledgeBatch.
ReceiveResult ==
  /\ Alive /\ ResultReady
  /\ IF rs.pipeline = <<>>
     THEN /\ rs' = WithResult
          /\ UNCHANGED <<callbacks, waits, told, waited, queue, storedToken, fate>>
     ELSE LET batch == Head(rs.pipeline)
              q == RemoveBatch(queue[currentUser], batch.id)
              popped == [WithResult EXCEPT !.pipeline = Tail(@)]
              checked == HardAssert(popped, Queued(queue[currentUser], batch.id),
                                    "BatchDidNotExist")
          IN  /\ NotifyUser(batch.id, "Ok")
              /\ TriggerPendingWriteCallbacks(batch.id)
              /\ AcknowledgeBatch(batch, currentUser)
              /\ rs' = FillWritePipeline(checked, q)
  /\ UNCHANGED <<currentUser, nextBatchId, serverVars, lingering, issued, author>>
  /\ NoDisruption

IsPermanentError(code) == code \in {"Aborted", "Permanent"}
IsPermanentWriteError(code) == IsPermanentError(code) /\ code # "Aborted"

\* HandleHandshakeError: a permanent error resets the token, in memory and stored.
HandshakeFailed(code) ==
  LET reset == IsPermanentError(code) /\ rs.pipeline # <<>>
      closed == Closed(rs, code)
  IN  /\ rs' = StartIfNeeded(IF reset THEN [closed EXCEPT !.token = NoUser] ELSE closed)
      /\ storedToken' = IF reset THEN [storedToken EXCEPT ![currentUser] = NoUser]
                                 ELSE storedToken
      /\ UNCHANGED <<callbacks, waits, told, waited, queue, fate>>

\* HandleWriteError for a permanent write error: the first write of the
\* pipeline is blamed and rejected.
FrontRejected(code) ==
  LET batch == Head(rs.pipeline)
      q == RemoveBatch(queue[currentUser], batch.id)
      popped == InhibitBackoff([Closed(rs, code) EXCEPT !.pipeline = Tail(@)])
      checked == HardAssert(popped, Queued(queue[currentUser], batch.id),
                            "RejectNonexistentBatch")
  IN  /\ NotifyUser(batch.id, "Error")
      /\ TriggerPendingWriteCallbacks(batch.id)
      /\ RejectBatch(batch)
      /\ rs' = StartIfNeeded(FillWritePipeline(checked, q))
      /\ UNCHANGED storedToken

\* Stream::OnStreamFinish with an error or OK, Stream::Close and
\* RemoteStore::OnWriteStreamClose.
FinishStream(code) ==
  /\ Alive
  /\ IF code = "OK"
     THEN /\ rs' = ClosedGracefully(rs)
          /\ UNCHANGED <<callbacks, waits, told, waited, durableVars, fate>>
     ELSE IF ~rs.handshake THEN HandshakeFailed(code)
     ELSE IF IsPermanentWriteError(code) /\ rs.pipeline # <<>> THEN FrontRejected(code)
     ELSE /\ rs' = StartIfNeeded(Closed(rs, code))
          /\ UNCHANGED <<callbacks, waits, told, waited, durableVars, fate>>
  /\ Linger(rs)
  /\ UNCHANGED <<currentUser, nextBatchId, serverVars, issued, author>>

\* GetToken of the credentials provider fails, with kErrorUnknown.
CredentialsFail ==
  /\ rs.state = "Starting" /\ Disrupt
  /\ FinishStream("Transient")

\* The call breaks without a status of the backend.
ConnectionLost ==
  /\ IsOpen(rs) /\ Disrupt
  /\ FinishStream("Transient")

\* The status the backend ended the call with arrives: after the responses it
\* sent, or as soon as a write to the ended call fails, since
\* GrpcStream::OnOperationFailed finishes the call and cancels the pending read.
StatusArrives ==
  /\ IsOpen(rs) /\ rs.status # "None"
  /\ rs.responses = <<>> \/ rs.requests # <<>>
  /\ FinishStream(rs.status)
  /\ NoDisruption

\* A response cannot be decoded (NotifyStreamResponse): kErrorDataLoss.
ResponseUndecodable ==
  /\ IsOpen(rs) /\ rs.responses # <<>> /\ Disrupt
  /\ FinishStream("Permanent")

\* The process stops inside HandleSuccessfulWrite, after NotifyUser or after
\* TriggerPendingWriteCallbacks, before the transaction of AcknowledgeBatch.
CrashBeforeAcknowledge(u) ==
  /\ Alive /\ ResultReady /\ rs.pipeline # <<>>
  /\ LET batch == Head(rs.pipeline) IN
     /\ told' = Told(batch.id, "Ok")
     /\ waited' \in {waited, Resolved(batch.id)}
  /\ Restarted(u, queue)
  /\ UNCHANGED <<durableVars, serverVars, issued, author, fate>>

\* The process stops inside HandleRejectedWrite, for a status of the backend or
\* a response that cannot be decoded: after the transaction of RejectBatch, or
\* after NotifyUser too, before TriggerPendingWriteCallbacks.
CrashAfterReject(u) ==
  /\ Alive /\ IsOpen(rs) /\ rs.handshake /\ rs.pipeline # <<>>
  /\ IsPermanentWriteError(rs.status) \/ rs.responses # <<>>
  /\ LET batch == Head(rs.pipeline)
         left == [queue EXCEPT ![currentUser] = RemoveBatch(@, batch.id)]
     IN  /\ RejectBatch(batch)
         /\ told' \in {told, Told(batch.id, "Error")}
         /\ Restarted(u, left)
  /\ UNCHANGED <<storedToken, serverVars, issued, author, waited>>

-----------------------------------------------------------------------------
(* The backend, known only through the responses the client handles.       *)

\* The backend takes the next request of the call: it answers the handshake,
\* or commits the write and sends its result.
ServerAnswers ==
  /\ IsOpen(rs) /\ rs.status = "None" /\ rs.requests # <<>>
  /\ LET w == Head(rs.requests).write IN
     /\ rs' = [rs EXCEPT !.requests = Tail(@), !.responses = Append(@, w)]
     /\ committed' = IF w = Handshake THEN committed ELSE committed \cup {w}
  /\ UNCHANGED <<currentUser, callbacks, waits, nextBatchId, durableVars, refused,
                 lingering, historyVars>>
  /\ NoDisruption

\* The next request of the call is in error: the backend ends the call for it.
ServerRefuses ==
  /\ IsOpen(rs) /\ rs.status = "None" /\ rs.requests # <<>>
  /\ "Permanent" \in ServerStatuses
  /\ LET w == Head(rs.requests).write IN
     IF w = Handshake THEN Disrupt /\ UNCHANGED refused
                      ELSE NoDisruption /\ refused' = refused \cup {w}
  /\ rs' = [rs EXCEPT !.status = "Permanent"]
  /\ UNCHANGED <<currentUser, callbacks, waits, nextBatchId, durableVars, committed,
                 lingering, historyVars>>

\* The backend ends the call for a reason of its own.
ServerEndsCall(code) ==
  /\ IsOpen(rs) /\ rs.status = "None"
  /\ code \in ServerStatuses \ {"Permanent"}
  /\ Disrupt
  /\ rs' = [rs EXCEPT !.status = code]
  /\ UNCHANGED <<currentUser, callbacks, waits, nextBatchId, durableVars, serverVars,
                 lingering, historyVars>>

\* The backend takes the next request of a call the client has closed.
LingeringRequest(s) ==
  /\ LET rest == lingering \ {s} IN
     lingering' = IF Len(s) = 1 THEN rest ELSE rest \cup {Tail(s)}
  /\ committed' = IF Head(s) = Handshake THEN committed ELSE committed \cup {Head(s)}
  /\ UNCHANGED <<clientVars, durableVars, refused, historyVars>>
  /\ NoDisruption

\* The backend sees that call cancelled.
LingeringCallEnds(s) ==
  /\ lingering' = lingering \ {s}
  /\ UNCHANGED <<clientVars, durableVars, serverVars, historyVars>>
  /\ NoDisruption

-----------------------------------------------------------------------------
Next ==
  \/ WriteMutations
  \/ WaitForPendingWrites
  \/ EnableNetwork
  \/ DisableNetwork
  \/ ConnectivityChange
  \/ \E u \in Users : HandleCredentialChange(u)
  \/ \E u \in Users : Crash(u)
  \/ \E u \in Users : CrashBeforeAcknowledge(u)
  \/ \E u \in Users : CrashAfterReject(u)
  \/ StreamOpens
  \/ BackoffElapses
  \/ IdleTimeout
  \/ ReceiveHandshake
  \/ ReceiveResult
  \/ CredentialsFail
  \/ ConnectionLost
  \/ StatusArrives
  \/ ResponseUndecodable
  \/ ServerAnswers
  \/ ServerRefuses
  \/ \E code \in ServerStatuses : ServerEndsCall(code)
  \/ \E s \in lingering : LingeringRequest(s)
  \/ \E s \in lingering : LingeringCallEnds(s)

Spec == Init /\ [][Next]_vars

\* The worker queue runs what is enqueued on it (StreamOpens, BackoffElapses and
\* the stream's events), and a backend that is sent requests serves them or fails.
Fairness ==
  /\ WF_vars(StreamOpens)
  /\ WF_vars(BackoffElapses)
  /\ WF_vars(ReceiveHandshake)
  /\ WF_vars(ReceiveResult)
  /\ WF_vars(StatusArrives)
  /\ WF_vars(ServerAnswers \/ ServerRefuses)

FairSpec == Spec /\ Fairness

-----------------------------------------------------------------------------
Requests == [write : Writes \cup {Handshake}, token : Tokens]

Faults == {"None", "AlreadyStarted", "CloseNotStarted", "StoppedWhileNeeded",
           "InhibitStarted", "ResultForEmptyPipeline", "BatchDidNotExist",
           "RejectNonexistentBatch"}

\* Healthy, the state of a stream that has been open for a while, is Open here.
Remotes ==
  [enabled : BOOLEAN, pipeline : Seq(Batches),
   state : {"Initial", "Starting", "Open", "Error", "Backoff"},
   handshake : BOOLEAN, idle : BOOLEAN, token : Tokens,
   requests : Seq(Requests), responses : Seq(Writes \cup {Handshake}),
   status : ErrorCodes \cup {"OK", "None"}, fault : Faults]

TypeOK ==
  /\ currentUser \in Users
  /\ rs \in Remotes
  /\ callbacks \in [Users -> SUBSET Batches]
  /\ waits \subseteq [id : Nat, upTo : Writes]
  /\ nextBatchId \in Nat
  /\ queue \in [Users -> Seq(Batches)]
  /\ storedToken \in [Users -> Tokens]
  /\ committed \subseteq Writes /\ refused \subseteq Writes
  /\ lingering \subseteq Seq(Writes \cup {Handshake}) \ {<<>>}
  /\ issued \in 0 .. MaxWrites
  /\ author \in [Writes -> Tokens]
  /\ fate \in [Writes -> {"None", "Queued", "Acked", "Rejected"}]
  /\ told \in [Writes -> {"Nothing", "Ok", "Error"}]
  /\ waited \subseteq Writes
  /\ disruptions \in 0 .. MaxDisruptions

Settled(w) == fate[w] \in {"Acked", "Rejected"}

\* The writes issued by one user, w1 before w2.
Precedes(w1, w2) == w1 < w2 /\ author[w1] = author[w2] /\ w2 <= issued

-----------------------------------------------------------------------------
(* Safety.                                                                 *)

\* The writes on the current call, in the order the backend sees them.
OnCall(r) == r.responses \o [i \in 1 .. Len(r.requests) |-> r.requests[i].write]
InPipeline(r) == [i \in 1 .. Len(r.pipeline) |-> r.pipeline[i].write]

\* A mutation result is correlated to the first write of the pipeline
\* (remote_store.cc:471) by position only: at any time the responses and
\* requests on an open call are exactly the pipeline once the handshake is
\* complete, and nothing but the handshake before that.
ResponsesCorrelate ==
  IsOpen(rs) => OnCall(rs) = IF rs.handshake THEN InPipeline(rs) ELSE <<Handshake>>

\* While the network is enabled the pipeline is a full copy of the front of the
\* current user's queue, and empty while it is not: no batch is skipped, kept
\* from another user, or left out while there is room (FillWritePipeline).
PipelineIsQueueFront ==
  rs.pipeline = SubSeq(queue[currentUser], 1,
                       IF rs.enabled
                       THEN Min({MaxPendingWrites, Len(queue[currentUser])}) ELSE 0)

\* Pending writes of the current user always have a stream that is started or
\* backing off to restart, and no idle timer that would stop it.
PendingWritesHaveStream ==
  rs.enabled /\ queue[currentUser] # <<>> => IsStarted(rs) /\ ~rs.idle

\* No HARD_ASSERT of the write path fails: no stream is started twice, closed or
\* inhibited in the wrong state or stopped while needed, and every batch that is
\* acknowledged or rejected still exists.
NoHardAssertFails == rs.fault = "None"

\* A write is reported successful, to the user or to the local store, only after
\* the backend has committed it, whatever calls, users and restarts lie between.
SuccessMeansCommitted ==
  \A w \in Writes : told[w] = "Ok" \/ fate[w] = "Acked" => w \in committed

\* The backend never applies a write before an earlier write of the same user,
\* unless that one was rejected, even when closed calls are still being served.
CommitsInOrder ==
  \A v, w \in Writes :
    Precedes(v, w) /\ w \in committed => v \in committed \/ fate[v] = "Rejected"

\* The local store settles the writes of a user in the order they were issued.
SettlesInOrder ==
  \A v, w \in Writes : Precedes(v, w) /\ Settled(w) => Settled(v)

\* A registered user callback belongs to the batch queued under its id, though
\* batch ids are handed out again after a user change: it can neither be called
\* for another write nor be left behind when its batch is gone.
CallbacksMatchQueue ==
  \A u \in Users : callbacks[u] \subseteq Range(queue[u])

\* A pending waitForPendingWrites waits for a batch that is still queued for the
\* current user, so it is resolved when that batch settles.
WaitsCanResolve ==
  \A x \in waits : [id |-> x.id, write |-> x.upTo] \in Range(queue[currentUser])

\* When waitForPendingWrites succeeds, every write its user had issued before is
\* settled, but for the last, which the backend has applied or the local store
\* rejected: if the process stops before AcknowledgeBatch, that one is still
\* queued and sent again.
WaitCoversEarlierWrites ==
  \A w \in Writes :
    w \in waited => /\ w \in committed \/ fate[w] = "Rejected"
                   /\ \A v \in Writes : Precedes(v, w) => Settled(v)

\* A stream token is only stored for, held in memory for, and sent by the user
\* it was issued to.
TokensBelongToUser ==
  /\ \A u \in Users : storedToken[u] \in {u, NoUser}
  /\ rs.enabled => rs.token = storedToken[currentUser]
  /\ \A i \in 1 .. Len(rs.requests) :
       LET m == rs.requests[i] IN
       m.write # Handshake => author[m.write] = currentUser /\ m.token = currentUser

-----------------------------------------------------------------------------
(* Refinement: the queues of batches, seen as queues of writes, implement   *)
(* the abstract specification of durable writes.                           *)

PendingWrites ==
  [u \in Users |-> [i \in 1 .. Len(queue[u]) |-> queue[u][i].write]]

Durable == INSTANCE DurableWrites WITH pending <- PendingWrites

\* The write path implements DurableWrites: writes leave the queue from its head,
\* acknowledged only when committed, commits keep the order of each user, and the
\* application hears of each write at most once.
ImplementsDurableWrites == Durable!AbsSpec

-----------------------------------------------------------------------------
(* Liveness, under FairSpec.                                               *)

\* Every write is settled, as long as the network is not disabled for ever and
\* its author stays or comes back: failures are bounded by MaxDisruptions.
WritesSettle ==
  \A w \in Writes :
    w <= issued ~> (Settled(w) \/ ~rs.enabled \/ currentUser # author[w])

-----------------------------------------------------------------------------
(* What a comment of the code says, and the model refutes.                 *)

\* remote_store.cc:549: "If this was a permanent error, the request itself was
\* the problem": the rejected write is one the backend refused.
RejectedMeansRefused ==
  \A w \in Writes : fate[w] = "Rejected" => w \in refused
=============================================================================
