-------------------------- MODULE TransactionRunner --------------------------
(***************************************************************************)
(* Firestore transactions: FirestoreBridge::RunTransaction starts a        *)
(* TransactionRunner on the client's worker queue; every attempt gives the *)
(* update block a new Transaction and runs it on one of the threads of     *)
(* TransactionUserExecutor, which all clients of the process share.  The   *)
(* block reads documents, waiting for each lookup, buffers writes, and     *)
(* returns or throws; then the runner commits, or retries with backoff.    *)
(*                                                                         *)
(* Between the steps of a block run other blocks, other clients' writes,   *)
(* the worker queue and the termination of the client.  An update block is *)
(* any sequence of reads and writes, which may ignore the errors of its    *)
(* reads.  Of a document only its version is kept: the number of the       *)
(* commit that last wrote it, Missing if there is no document.             *)
(***************************************************************************)
EXTENDS Naturals, Sequences, FiniteSetsExt

CONSTANTS
  Clients,          \* Firestore instances of the process
  CallsPerClient,   \* bound: calls of runTransaction for each
  Keys,             \* document keys
  MaxAttempts,      \* max_attempts, 5 unless the application sets it
  Threads,          \* threads of TransactionUserExecutor, 4 in the code
  MaxOperations,    \* bound: reads and writes in one run of an update block
  MaxForeignWrites, \* bound: writes of others
  MaxFaults,        \* bound: failed lookups and commits
  MaxTerminations   \* bound: calls of terminate()

ASSUME TransactionConstants ==
  /\ MaxAttempts \in Nat \ {0}   \* TransactionOptions.maxAttempts refuses 0
  /\ {CallsPerClient, Threads, MaxOperations, MaxForeignWrites, MaxFaults,
      MaxTerminations} \subseteq Nat

VARIABLES
  docs,          \* backend: key -> version
  clock,         \* backend: number of commits
  calls,         \* the calls of runTransaction, with their TransactionRunners
  mode,          \* client -> mode of its worker queue, or "ShutDown"
  foreignWrites, faults, terminations   \* history: how many so far

vars == <<docs, clock, calls, mode, foreignWrites, faults, terminations>>

Calls == Clients \X (1 .. CallsPerClient)
Missing == 0
Versions == Nat

\* The modes of AsyncQueue; TerminateInternal ends the restricted one.
Modes == {"Running", "Restricted", "ShutDown"}
Mode(c) == mode[c[1]]

\* Status codes, as IsRetryableTransactionError tells them apart.  "Conflict" are
\* Aborted, AlreadyExists and FailedPrecondition.
Retryable == {"Conflict", "Transient"}
Statuses == Retryable \cup {"OK", "Permanent"}
NoReply == [status |-> "None", version |-> Missing]
Replies == [status : Statuses \cup {"None"}, version : Versions]

\* Preconditions, by the versions they admit.  Exists(false) is UpdateTime(Missing).
None == [kind |-> "None", version |-> Missing]
Exists == [kind |-> "Exists", version |-> Missing]
UpdateTime(v) == [kind |-> "UpdateTime", version |-> v]
Preconditions == [kind : {"None", "Exists", "UpdateTime"}, version : Versions]
Admits(pre, v) ==
  CASE pre.kind = "None" -> TRUE
    [] pre.kind = "Exists" -> v # Missing
    [] pre.kind = "UpdateTime" -> v = pre.version

-----------------------------------------------------------------------------
(* core::Transaction: one attempt's reads and buffered mutations.          *)

\* read_versions_ is "version", on the keys in "read".
NewTransaction ==
  [read |-> {}, version |-> [k \in Keys |-> Missing], mutations |-> <<>>,
   written |-> {}, lastWriteError |-> FALSE, error |-> "None", operations |-> 0]

Mutations == [deletes : BOOLEAN, key : Keys, pre : Preconditions]
Transactions ==
  [read : SUBSET Keys, version : [Keys -> Versions], mutations : Seq(Mutations),
   written : SUBSET Keys, lastWriteError : BOOLEAN,
   error : Statuses \cup {"None"}, operations : 0 .. MaxOperations]

\* Fault: the read version goes with every write of the document but the first.
PreconditionOfLater(txn, k) ==
  IF k \in txn.written /\ k \in txn.read THEN UpdateTime(txn.version[k]) ELSE None

\* Only the first write of a document that was read has a precondition.
CreatePrecondition(txn, k) ==
  IF k \notin txn.written /\ k \in txn.read THEN UpdateTime(txn.version[k]) ELSE None

\* Fault: written_docs_ is not kept.
UnrecordedMutation(txn, deletes, k, pre) ==
  [txn EXCEPT !.mutations = Append(@, [deletes |-> deletes, key |-> k, pre |-> pre])]

WriteMutation(txn, deletes, k, pre) ==
  [txn EXCEPT !.mutations = Append(@, [deletes |-> deletes, key |-> k, pre |-> pre]),
              !.written = @ \cup {k}]

SetDocument(txn, k) == WriteMutation(txn, FALSE, k, CreatePrecondition(txn, k))
DeleteDocument(txn, k) == WriteMutation(txn, TRUE, k, CreatePrecondition(txn, k))

\* An update of a document read as missing is an error, kept for Commit.
UpdateDocument(txn, k) ==
  CASE k \in txn.written \/ k \notin txn.read ->
         WriteMutation(txn, FALSE, k, Exists)
    [] k \in txn.read \ txn.written /\ txn.version[k] = Missing ->
         [txn EXCEPT !.lastWriteError = TRUE, !.written = @ \cup {k}]
    [] OTHER -> WriteMutation(txn, FALSE, k, UpdateTime(txn.version[k]))

\* RecordVersion keeps the first version read; another one is an error.
RecordVersion(txn, k, v) ==
  CASE k \notin txn.read ->
         [txn EXCEPT !.read = @ \cup {k}, !.version[k] = v]
    [] k \in txn.read /\ txn.version[k] # v -> [txn EXCEPT !.error = "Conflict"]
    [] OTHER -> txn

\* What Commit verifies: what was read and is not written.  The verifications come
\* after the mutations, each for another document, so their order is immaterial.
Unwritten(txn) ==
  txn.read \ {txn.mutations[i].key : i \in DOMAIN txn.mutations}

-----------------------------------------------------------------------------
(* The backend: a commit is applied as a whole, each mutation after those  *)
(* before it, or not at all.                                               *)

Earlier(muts, i) == {j \in 1 .. i - 1 : muts[j].key = muts[i].key}
VersionAfter(mutation) == IF mutation.deletes THEN Missing ELSE clock + 1
VersionBefore(muts, i) ==
  IF Earlier(muts, i) = {} THEN docs[muts[i].key]
  ELSE VersionAfter(muts[Max(Earlier(muts, i))])

\* The preconditions of a commit that its documents do not meet.
Failing(txn) ==
  {txn.mutations[i].pre : i \in {j \in DOMAIN txn.mutations :
     ~Admits(txn.mutations[j].pre, VersionBefore(txn.mutations, j))}}
  \cup {CreatePrecondition(txn, k) : k \in {key \in Unwritten(txn) :
           ~Admits(CreatePrecondition(txn, key), docs[key])}}

Applied(txn) ==
  [k \in Keys |->
     LET on == {i \in DOMAIN txn.mutations : txn.mutations[i].key = k} IN
     IF on = {} THEN docs[k] ELSE VersionAfter(txn.mutations[Max(on)])]

-----------------------------------------------------------------------------
(* The worker queue.  A task enqueued while the queue is not running is    *)
(* dropped, and the callback it was to call is never called: the call ends *)
(* as "Dropped".  A field of a call that is not NoReply, and the states    *)
(* "Queued" and "Finished", are tasks in the queue.                        *)

NewCall ==
  [pc |-> "Idle", remaining |-> MaxAttempts, runs |-> 0, txn |-> NewTransaction,
   lookup |-> {}, reply |-> NoReply, status |-> "None", permanent |-> FALSE,
   applied |-> {}]

\* Where a call is: its task on the worker queue, its backoff timer, its update block
\* waiting for a thread, running, or waiting for a lookup, its commit under way, its
\* outcome reported.  "Undefined" is the use of a RemoteStore that is gone.
Places ==
  {"Idle", "Queued", "Backoff", "Waiting", "Running", "Lookup", "Finished",
   "Committing", "Done", "Dropped", "Undefined"}

CallRecords ==
  [pc : Places, remaining : 0 .. MaxAttempts, runs : 0 .. MaxAttempts,
   txn : Transactions, lookup : SUBSET Keys, reply : Replies,
   status : Statuses \cup {"None"}, permanent : BOOLEAN,
   applied : SUBSET (1 .. MaxAttempts)]

Init ==
  /\ docs \in [Keys -> {Missing, 1}]
  /\ clock = 1
  /\ calls = [c \in Calls |-> NewCall]
  /\ mode = [client \in Clients |-> "Running"]
  /\ foreignWrites = 0 /\ faults = 0 /\ terminations = 0

HasTask(call) == call.pc \in {"Queued", "Finished"} \/ call.reply # NoReply

\* Enqueue and EnqueueAfterDelay.
Enqueued(c, place) == IF Mode(c) = "Running" THEN place ELSE "Dropped"

\* TransactionRunner::Run: the timer is already due the first time.
Run(c, call) ==
  [call EXCEPT !.remaining = @ - 1, !.pc = Enqueued(c, "Backoff"),
               !.txn = NewTransaction, !.reply = NoReply, !.status = "None"]

Reported(call, status) ==
  [call EXCEPT !.pc = "Done", !.status = status, !.txn = NewTransaction,
               !.reply = NoReply]

\* Fault: the last attempt is not made.
GivesUpEarly(c, call, status) ==
  IF call.remaining > 1 /\ status \in Retryable /\ ~call.permanent
  THEN Run(c, call)
  ELSE Reported(call, status)

\* Fault: the attempts are not counted down before the next one.
RetriesForever(c, call, status) ==
  IF status \in Retryable /\ ~call.permanent
  THEN Run(c, call)
  ELSE Reported(call, status)

\* TransactionRunner::HandleTransactionError.
HandleTransactionError(c, call, status) ==
  IF call.remaining > 0 /\ status \in Retryable /\ ~call.permanent
  THEN Run(c, call)
  ELSE Reported(call, status)

\* Fault: a commit whose answer was lost is taken for done.
TransientIsSuccess(c, call, status) ==
  IF status \in {"OK", "Transient"} THEN Reported(call, "OK")
  ELSE HandleTransactionError(c, call, status)

\* TransactionRunner::DispatchResult.
DispatchResult(c, call, status) ==
  IF status = "OK" THEN Reported(call, status) ELSE HandleTransactionError(c, call, status)

\* Fault: Commit forgets to report the error of a write.
WriteErrorUnreported(c, call) ==
  CASE call.status # "OK" -> HandleTransactionError(c, call, call.status)
    [] call.status = "OK" /\ call.txn.lastWriteError -> [call EXCEPT !.pc = "Dropped"]
    [] OTHER -> [call EXCEPT !.pc = Enqueued(c, "Committing"), !.status = "None"]

\* TransactionRunner::ContinueCommit and Transaction::Commit.
ContinueCommitted(c, call) ==
  CASE call.status # "OK" -> HandleTransactionError(c, call, call.status)
    [] call.status = "OK" /\ call.txn.lastWriteError ->
         HandleTransactionError(c, call, "Permanent")
    [] OTHER -> [call EXCEPT !.pc = Enqueued(c, "Committing"), !.status = "None"]

Becomes(c, call) == calls' = [calls EXCEPT ![c] = call]
Backend == <<docs, clock, foreignWrites>>
Environment == <<mode, faults, terminations>>

-----------------------------------------------------------------------------
(* The application and the runner.                                         *)

\* FirestoreClient::Transaction; VerifyNotTerminated.
RunTransaction(c) ==
  /\ calls[c].pc = "Idle" /\ Mode(c) = "Running"
  /\ Becomes(c, [calls[c] EXCEPT !.pc = "Queued"])
  /\ UNCHANGED <<Backend, Environment>>

\* SyncEngine::Transaction.
Starts(c) ==
  /\ calls[c].pc = "Queued"
  /\ Becomes(c, Run(c, calls[c]))
  /\ UNCHANGED <<Backend, Environment>>

\* The timer of BackoffAndRun, which TerminateInternal does not cancel, though it
\* destroys the RemoteStore that creates the Transaction.
BackoffElapses(c) ==
  /\ calls[c].pc = "Backoff"
  /\ Becomes(c, IF Mode(c) = "ShutDown"
                THEN [calls[c] EXCEPT !.pc = "Undefined"]
                ELSE [calls[c] EXCEPT !.pc = "Waiting"])
  /\ UNCHANGED <<Backend, Environment>>

\* A thread of TransactionUserExecutor takes the block; one in a lookup keeps its own.
BlockStarts(c) ==
  /\ calls[c].pc = "Waiting"
  /\ Cardinality({d \in Calls : calls[d].pc \in {"Running", "Lookup"}}) < Threads
  /\ Becomes(c, [calls[c] EXCEPT !.pc = "Running", !.runs = @ + 1])
  /\ UNCHANGED <<Backend, Environment>>

Operates(c) ==
  /\ calls[c].pc = "Running" /\ calls[c].txn.operations < MaxOperations
  /\ UNCHANGED <<Backend, Environment>>

Counted(txn) == [txn EXCEPT !.operations = @ + 1]

\* TransactionBridge::GetDocument and Transaction::Lookup.
GetFails(c, error) ==
  Becomes(c, [calls[c] EXCEPT !.txn = Counted([@ EXCEPT !.error = error])])

GetDocument(c, k) ==
  /\ Operates(c)
  /\ \/ /\ calls[c].txn.mutations # <<>>
        /\ GetFails(c, "Permanent")
     \/ /\ calls[c].txn.mutations = <<>> /\ Mode(c) = "ShutDown"
        /\ GetFails(c, "Conflict")
     \/ /\ calls[c].txn.mutations = <<>> /\ Mode(c) # "ShutDown"
        /\ Becomes(c, [calls[c] EXCEPT !.pc = "Lookup", !.lookup = {k},
                                       !.txn = Counted(@)])

\* TransactionBridge::SetData, UpdateData and DeleteData.
Write(c, k) ==
  /\ Operates(c)
  /\ \E txn \in {SetDocument(calls[c].txn, k), UpdateDocument(calls[c].txn, k),
                 DeleteDocument(calls[c].txn, k)} :
       Becomes(c, [calls[c] EXCEPT !.txn = Counted(txn)])

\* The answer of a lookup arrives on the worker queue, which wakes the block.
LookupDone(c) ==
  /\ calls[c].pc = "Lookup" /\ calls[c].reply # NoReply
  /\ \E k \in calls[c].lookup :
       Becomes(c, [calls[c] EXCEPT
         !.pc = "Running", !.lookup = {}, !.reply = NoReply,
         !.txn = IF calls[c].reply.status = "OK"
                 THEN RecordVersion(@, k, calls[c].reply.version)
                 ELSE [@ EXCEPT !.error = calls[c].reply.status]])
  /\ UNCHANGED <<Backend, Environment>>

Returns(c) ==
  /\ calls[c].pc = "Running"
  /\ Becomes(c, [calls[c] EXCEPT !.pc = Enqueued(c, "Finished"), !.status = "OK"])
  /\ UNCHANGED <<Backend, Environment>>

\* The block throws its own error or that of a read, and the transaction is marked as
\* permanently failed.
Throws(c) ==
  /\ calls[c].pc = "Running"
  /\ \E error \in {"Permanent"} \cup ({calls[c].txn.error} \ {"None"}) :
       Becomes(c, [calls[c] EXCEPT !.pc = Enqueued(c, "Finished"), !.status = error,
                                   !.permanent = TRUE])
  /\ UNCHANGED <<Backend, Environment>>

ContinueCommit(c) ==
  /\ calls[c].pc = "Finished"
  /\ Becomes(c, ContinueCommitted(c, calls[c]))
  /\ UNCHANGED <<Backend, Environment>>

\* Where a call is told the answer of its commit: nowhere, if the queue has stopped.
CommitAnswered(c, call, status) ==
  Becomes(c, [call EXCEPT !.pc = Enqueued(c, "Committing"),
                          !.reply = IF Mode(c) = "Running"
                                    THEN [NoReply EXCEPT !.status = status] ELSE NoReply])

CommitDone(c) ==
  /\ calls[c].pc = "Committing" /\ calls[c].reply # NoReply
  /\ Becomes(c, DispatchResult(c, calls[c], calls[c].reply.status))
  /\ UNCHANGED <<Backend, Environment>>

-----------------------------------------------------------------------------
(* The backend, other clients, and termination.                            *)

AwaitsReply(c, place) == calls[c].pc = place /\ calls[c].reply = NoReply

LookupAnswered(c) ==
  /\ AwaitsReply(c, "Lookup") /\ Mode(c) = "Running"
  /\ \E k \in calls[c].lookup :
       Becomes(c, [calls[c] EXCEPT !.reply = [status |-> "OK", version |-> docs[k]]])
  /\ UNCHANGED <<Backend, Environment>>

Fault == faults < MaxFaults /\ faults' = faults + 1 /\ UNCHANGED <<mode, terminations>>

LookupFails(c) ==
  /\ AwaitsReply(c, "Lookup") /\ Mode(c) = "Running"
  /\ Fault
  /\ \E status \in {"Transient", "Permanent"} :
       Becomes(c, [calls[c] EXCEPT !.reply = [NoReply EXCEPT !.status = status]])
  /\ UNCHANGED Backend

\* An Update of a missing document is NOT_FOUND; what was read and has changed is
\* ABORTED, ALREADY_EXISTS or FAILED_PRECONDITION.
BackendRefuses(c) ==
  /\ AwaitsReply(c, "Committing")
  /\ \E pre \in Failing(calls[c].txn) :
       CommitAnswered(c, calls[c], IF pre = Exists THEN "Permanent" ELSE "Conflict")
  /\ UNCHANGED <<Backend, Environment>>

\* The commit is applied, and its answer arrives or is lost with the connection.
BackendCommits(c) ==
  /\ AwaitsReply(c, "Committing") /\ Failing(calls[c].txn) = {}
  /\ docs' = Applied(calls[c].txn) /\ clock' = clock + 1
  /\ LET call == [calls[c] EXCEPT !.applied = @ \cup {calls[c].runs}] IN
     \/ CommitAnswered(c, call, "OK") /\ UNCHANGED Environment
     \/ CommitAnswered(c, call, "Transient") /\ Fault
  /\ UNCHANGED foreignWrites

CommitFails(c) ==
  /\ AwaitsReply(c, "Committing") /\ Mode(c) = "Running"
  /\ Fault
  /\ \E status \in {"Transient", "Permanent"} : CommitAnswered(c, calls[c], status)
  /\ UNCHANGED Backend

ForeignWrite(k) ==
  /\ foreignWrites < MaxForeignWrites
  /\ foreignWrites' = foreignWrites + 1
  /\ clock' = clock + 1
  /\ \E version \in {Missing, clock + 1} : docs' = [docs EXCEPT ![k] = version]
  /\ UNCHANGED <<calls, Environment>>

\* FirestoreClient::TerminateAsync: EnterRestrictedMode, and a task that runs even then.
Terminate(client) ==
  /\ mode[client] = "Running" /\ terminations < MaxTerminations
  /\ mode' = [mode EXCEPT ![client] = "Restricted"]
  /\ terminations' = terminations + 1
  /\ UNCHANGED <<Backend, calls, faults>>

\* The task comes after those enqueued before it.  Remote calls end without a callback.
TerminateInternal(client) ==
  /\ mode[client] = "Restricted"
  /\ \A c \in Calls : c[1] = client => ~HasTask(calls[c])
  /\ mode' = [mode EXCEPT ![client] = "ShutDown"]
  /\ UNCHANGED <<Backend, calls, faults, terminations>>

-----------------------------------------------------------------------------

RunnerStep(c) ==
  Starts(c) \/ BackoffElapses(c) \/ BlockStarts(c) \/ LookupDone(c) \/ ContinueCommit(c)
    \/ CommitDone(c)
BlockEnds(c) == Returns(c) \/ Throws(c)
BackendStep(c) == LookupAnswered(c) \/ BackendRefuses(c) \/ BackendCommits(c)

Next ==
  \/ \E c \in Calls :
       \/ RunTransaction(c) \/ RunnerStep(c) \/ BlockEnds(c) \/ BackendStep(c)
       \/ LookupFails(c) \/ CommitFails(c)
       \/ \E k \in Keys : GetDocument(c, k) \/ Write(c, k)
  \/ \E k \in Keys : ForeignWrite(k)
  \/ \E client \in Clients : Terminate(client) \/ TerminateInternal(client)

Spec == Init /\ [][Next]_vars

\* The queue and the executor run what is due, an update block ends, and the backend
\* answers what it is asked.
Fairness ==
  /\ \A c \in Calls :
       WF_vars(RunnerStep(c)) /\ WF_vars(BlockEnds(c)) /\ WF_vars(BackendStep(c))
  /\ \A client \in Clients : WF_vars(TerminateInternal(client))

FairSpec == Spec /\ Fairness

-----------------------------------------------------------------------------
(* Properties.                                                             *)

\* The variables have their types: above all, attempts_remaining_ is never negative.
TypeOK ==
  /\ docs \in [Keys -> Versions] /\ clock \in Nat
  /\ calls \in [Calls -> CallRecords]
  /\ mode \in [Clients -> Modes]
  /\ foreignWrites \in Nat /\ faults \in Nat /\ terminations \in Nat

\* When the backend applies a transaction, every document it read, whether it then wrote
\* it once, more than once or not at all, is still at the version it was read at
\* (CreatePrecondition, CreateUpdatePrecondition and the verifications of Commit).
Serializable ==
  [][\A c \in Calls :
       calls'[c].applied # calls[c].applied =>
         \A k \in calls[c].txn.read : calls[c].txn.version[k] = docs[k]]_vars

\* A transaction is refused for a conflict only if a document it read has changed, never
\* because it wrote a document more than once (written_docs_).
ConflictsAreReal ==
  \A c \in Calls :
    /\ calls[c].pc = "Committing" /\ calls[c].reply = NoReply
    /\ \A k \in calls[c].txn.read : calls[c].txn.version[k] = docs[k]
    => Failing(calls[c].txn) \subseteq {Exists}

\* The outcome a caller is told: OK only if its last attempt was applied, and an
\* error after an applied attempt only if the answer was lost (DispatchResult).
OutcomeIsTrue ==
  \A c \in Calls : calls[c].pc = "Done" =>
    IF calls[c].status = "OK" THEN calls[c].runs \in calls[c].applied
    ELSE calls[c].runs \in calls[c].applied => calls[c].status = "Transient"

\* A retryable error of a commit is reported only after max_attempts attempts, and no
\* attempt is made after the last (HandleTransactionError and the count in Run).
RetriesExhausted ==
  \A c \in Calls :
    /\ calls[c].runs <= MaxAttempts
    /\ calls[c].pc = "Done" /\ calls[c].status \in Retryable /\ ~calls[c].permanent =>
         calls[c].runs = MaxAttempts

\* Every call is told an outcome, unless a client is terminated (FirestoreBridge.h:
\* "`result_callback` gets the outcome once.").
OutcomesReported ==
  \A c \in Calls :
    calls[c].pc = "Queued" ~>
      calls[c].pc = "Done" \/ \E client \in Clients : mode[client] # "Running"

\* The same, whatever happens to other clients.  A client's termination leaves its
\* lookups unanswered, so that the blocks that wait for them keep their threads.
OutcomesReportedToRunningClients ==
  \A c \in Calls :
    calls[c].pc = "Queued" ~> calls[c].pc = "Done" \/ Mode(c) # "Running"
=============================================================================
