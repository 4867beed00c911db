-------------------------- MODULE TransactionProofs --------------------------
(***************************************************************************)
(* Proofs about TransactionRunner, for any number of clients, calls, keys, *)
(* attempts, threads and operations: transactions are serializable, their  *)
(* outcomes are true, and retries end only when the attempts are used up.  *)
(***************************************************************************)
EXTENDS TransactionInvariant, SequenceTheorems, TLAPS

-----------------------------------------------------------------------------
(* Transactions: reads and buffered mutations.                             *)

\* Preconditions are what they are built from.
LEMMA PreconditionTypes ==
  /\ None \in Preconditions /\ Exists \in Preconditions
  /\ None.kind = "None" /\ Exists.kind = "Exists"
  /\ \A v \in Versions : UpdateTime(v) \in Preconditions /\ UpdateTime(v).kind = "UpdateTime"
BY DEF None, Exists, UpdateTime, Preconditions, Versions, Missing

\* A new transaction has read and written nothing.
LEMMA NewTransactionGuarded ==
  NewTransaction \in Transactions /\ Guarded(NewTransaction)
    /\ ~NewTransaction.lastWriteError /\ NewTransaction.mutations = <<>>
<1>1. MaxOperations \in Nat
  BY TransactionConstants
<1>2. <<>> \in Seq(Mutations) /\ DOMAIN <<>> = {}
  BY EmptySeq
<1>3. NewTransaction \in Transactions
  BY <1>1, <1>2 DEF NewTransaction, Transactions, Versions, Missing
<1> QED BY <1>2, <1>3 DEF Guarded, NewTransaction

\* A buffered write keeps the precondition with the first write of what was read.
LEMMA WriteGuarded ==
  ASSUME NEW txn \in Transactions, Guarded(txn), NEW k \in Keys, NEW deletes \in BOOLEAN,
         NEW pre \in Preconditions,
         pre \notin {None, Exists} => k \notin txn.written /\ k \in txn.read,
         pre \notin {None, Exists} => pre = UpdateTime(txn.version[k]),
         k \in txn.read /\ k \notin txn.written => pre = UpdateTime(txn.version[k])
  PROVE  LET new == WriteMutation(txn, deletes, k, pre) IN
         /\ new \in Transactions /\ Guarded(new)
         /\ new.operations = txn.operations
<1> DEFINE muts == txn.mutations
           x == [deletes |-> deletes, key |-> k, pre |-> pre]
           n == Len(muts)
           m == Append(muts, x)
           new == WriteMutation(txn, deletes, k, pre)
<1>1. muts \in Seq(Mutations) /\ x \in Mutations /\ x.key = k /\ x.pre = pre
  BY DEF Transactions, Mutations
<1>2. /\ n \in Nat /\ DOMAIN muts = 1 .. n /\ m \in Seq(Mutations) /\ DOMAIN m = 1 .. n + 1
      /\ \A i \in 1 .. n : m[i] = muts[i]
      /\ m[n + 1] = x
  BY <1>1
<1>3. /\ new.mutations = m /\ new.written = txn.written \cup {k} /\ new.read = txn.read
      /\ new.version = txn.version /\ new.lastWriteError = txn.lastWriteError
      /\ new.operations = txn.operations /\ new \in Transactions
  <2> HIDE DEF m
  <2>1. new = [txn EXCEPT !.mutations = m, !.written = txn.written \cup {k}]
    BY DEF WriteMutation, m, x, muts
  <2> HIDE DEF new
  <2> QED BY <1>2, <2>1 DEF Transactions
<1> HIDE DEF muts, m, n, x, new
<1>4. \A i \in 1 .. n : Earlier(m, i) = Earlier(muts, i)
  <2> SUFFICES ASSUME NEW i \in 1 .. n PROVE Earlier(m, i) = Earlier(muts, i)
    OBVIOUS
  <2>1. \A j \in 1 .. i - 1 : j \in 1 .. n
    BY <1>2
  <2> QED BY <1>2, <2>1 DEF Earlier
<1>5. \A i \in 1 .. n : muts[i].key \in txn.written
  BY <1>2 DEF Guarded, muts
<1>6. k \notin txn.written => Earlier(m, n + 1) = {}
  <2>1. (n + 1) - 1 = n
    BY <1>2
  <2> QED BY <1>1, <1>2, <1>5, <2>1 DEF Earlier
<1>7. \A i \in DOMAIN m : i \in 1 .. n \/ i = n + 1
  BY <1>2
<1>8. \A i \in DOMAIN m : m[i].key \in new.written
  BY <1>1, <1>2, <1>3, <1>5, <1>7
<1>9. ASSUME NEW i \in DOMAIN m, m[i].pre \notin {None, Exists}
      PROVE  /\ FirstOn(m, i) /\ m[i].key \in new.read
             /\ m[i].pre = UpdateTime(new.version[m[i].key])
  <2>1. CASE i \in 1 .. n
    <3>1. /\ FirstOn(muts, i) /\ muts[i].key \in txn.read
          /\ muts[i].pre = UpdateTime(txn.version[muts[i].key])
      BY <1>2, <1>9, <2>1 DEF Guarded, muts
    <3> QED BY <1>2, <1>3, <1>4, <2>1, <3>1 DEF FirstOn
  <2>2. CASE i = n + 1
    BY <1>1, <1>2, <1>3, <1>6, <1>9, <2>2 DEF FirstOn
  <2> QED BY <1>7, <2>1, <2>2
<1>10. ASSUME ~new.lastWriteError, NEW key \in new.written
       PROVE  \E i \in DOMAIN m : /\ m[i].key = key /\ FirstOn(m, i)
                                  /\ key \in new.read =>
                                       m[i].pre = UpdateTime(new.version[key])
  <2>1. CASE key \in txn.written
    <3>1. PICK i \in 1 .. n :
            /\ muts[i].key = key /\ FirstOn(muts, i)
            /\ key \in txn.read => muts[i].pre = UpdateTime(txn.version[key])
      BY <1>2, <1>3, <1>10, <2>1 DEF Guarded, muts
    <3>2. i \in DOMAIN m
      BY <1>2
    <3> QED BY <1>2, <1>3, <1>4, <3>1, <3>2 DEF FirstOn
  <2>2. CASE key \notin txn.written
    <3>1. key = k /\ n + 1 \in DOMAIN m
      BY <1>2, <1>3, <1>10, <2>2
    <3> QED BY <1>1, <1>2, <1>3, <1>6, <2>2, <3>1 DEF FirstOn
  <2> QED BY <2>1, <2>2
<1> QED BY <1>3, <1>8, <1>9, <1>10 DEF Guarded, new

\* What CreatePrecondition gives is what a first write needs.
LEMMA CreatePreconditionFits ==
  ASSUME NEW txn \in Transactions, NEW k \in Keys
  PROVE  LET pre == CreatePrecondition(txn, k) IN
         /\ pre \in Preconditions
         /\ pre \notin {None, Exists} =>
              k \notin txn.written /\ k \in txn.read /\ pre = UpdateTime(txn.version[k])
         /\ k \in txn.read /\ k \notin txn.written => pre = UpdateTime(txn.version[k])
<1>1. txn.version[k] \in Versions
  BY DEF Transactions
<1> QED BY <1>1, PreconditionTypes DEF CreatePrecondition

\* Every operation of TransactionBridge that writes keeps a transaction guarded.
LEMMA WritesGuarded ==
  ASSUME NEW txn \in Transactions, Guarded(txn), NEW k \in Keys,
         NEW new \in {SetDocument(txn, k), UpdateDocument(txn, k), DeleteDocument(txn, k)}
  PROVE  new \in Transactions /\ Guarded(new) /\ new.operations = txn.operations
<1>a. txn.version[k] \in Versions
  BY DEF Transactions
<1>1. CASE new = SetDocument(txn, k)
  BY <1>1, CreatePreconditionFits, WriteGuarded DEF SetDocument
<1>2. CASE new = DeleteDocument(txn, k)
  BY <1>2, CreatePreconditionFits, WriteGuarded DEF DeleteDocument
<1>3. CASE new = UpdateDocument(txn, k)
  <2>1. CASE k \in txn.written \/ k \notin txn.read
    <3>1. new = WriteMutation(txn, FALSE, k, Exists)
      BY <1>3, <2>1 DEF UpdateDocument
    <3> QED BY <2>1, <3>1, PreconditionTypes, WriteGuarded
  <2>2. CASE k \notin txn.written /\ k \in txn.read /\ txn.version[k] = Missing
    <3>1. new = [txn EXCEPT !.lastWriteError = TRUE, !.written = txn.written \cup {k}]
      BY <1>3, <2>2 DEF UpdateDocument
    <3>2. /\ new \in Transactions /\ new.operations = txn.operations
          /\ new.lastWriteError /\ new.written = txn.written \cup {k}
          /\ new.mutations = txn.mutations /\ new.read = txn.read
          /\ new.version = txn.version
      BY <3>1 DEF Transactions
    <3> QED BY <3>2 DEF Guarded
  <2>3. CASE k \notin txn.written /\ k \in txn.read /\ txn.version[k] # Missing
    <3>1. new = WriteMutation(txn, FALSE, k, UpdateTime(txn.version[k]))
      BY <1>3, <2>3 DEF UpdateDocument
    <3> QED BY <1>a, <2>3, <3>1, PreconditionTypes, WriteGuarded
  <2> QED BY <2>1, <2>2, <2>3
<1> QED BY <1>1, <1>2, <1>3

\* A read before the first mutation, or an error, keeps a transaction guarded.
LEMMA RecordGuarded ==
  ASSUME NEW txn \in Transactions, Guarded(txn), txn.mutations = <<>>,
         NEW k \in Keys, NEW v \in Versions
  PROVE  LET new == RecordVersion(txn, k, v) IN new \in Transactions /\ Guarded(new)
<1> DEFINE new == RecordVersion(txn, k, v)
<1>1. CASE k \notin txn.read
  <2>1. new = [txn EXCEPT !.read = txn.read \cup {k}, !.version[k] = v]
    BY <1>1 DEF RecordVersion
  <2> DEFINE versions == [txn.version EXCEPT ![k] = v]
  <2>a. versions \in [Keys -> Versions]
    BY DEF Transactions
  <2>b. new = [txn EXCEPT !.read = txn.read \cup {k}, !.version = versions]
    BY <2>1
  <2> HIDE DEF versions, new
  <2>2. /\ new \in Transactions /\ new.mutations = <<>>
        /\ new.lastWriteError = txn.lastWriteError /\ new.written = txn.written
    BY <2>a, <2>b DEF Transactions
  <2>3. ~txn.lastWriteError => txn.written = {}
    BY EmptySeq DEF Guarded
  <2> QED BY <2>2, <2>3, EmptySeq DEF Guarded, new
<1>2. CASE k \in txn.read /\ txn.version[k] # v
  <2>1. new = [txn EXCEPT !.error = "Conflict"]
    BY <1>2 DEF RecordVersion
  <2>2. /\ new \in Transactions /\ new.mutations = txn.mutations
        /\ new.lastWriteError = txn.lastWriteError /\ new.written = txn.written
        /\ new.read = txn.read /\ new.version = txn.version
    BY <2>1 DEF Transactions, Statuses, Retryable
  <2> QED BY <2>2 DEF Guarded
<1>3. CASE k \in txn.read /\ txn.version[k] = v
  BY <1>3 DEF RecordVersion
<1> QED BY <1>1, <1>2, <1>3

LEMMA ErrorGuarded ==
  ASSUME NEW txn \in Transactions, Guarded(txn), NEW error \in Statuses
  PROVE  LET new == [txn EXCEPT !.error = error] IN
         /\ new \in Transactions /\ Guarded(new)
         /\ new.operations = txn.operations /\ new.mutations = txn.mutations
<1> DEFINE new == [txn EXCEPT !.error = error]
<1>1. /\ new \in Transactions /\ new.mutations = txn.mutations
      /\ new.lastWriteError = txn.lastWriteError /\ new.written = txn.written
      /\ new.read = txn.read /\ new.version = txn.version
      /\ new.operations = txn.operations
  BY DEF Transactions
<1> HIDE DEF new
<1> QED BY <1>1 DEF Guarded, new

LEMMA CountedGuarded ==
  ASSUME NEW txn \in Transactions, Guarded(txn), txn.operations < MaxOperations
  PROVE  /\ Counted(txn) \in Transactions /\ Guarded(Counted(txn))
         /\ Counted(txn).mutations = txn.mutations
<1> DEFINE new == Counted(txn)
<1>0. MaxOperations \in Nat
  BY TransactionConstants
<1>1. /\ new \in Transactions /\ new.mutations = txn.mutations
      /\ new.lastWriteError = txn.lastWriteError /\ new.written = txn.written
      /\ new.read = txn.read /\ new.version = txn.version
  BY <1>0 DEF Transactions, Counted
<1> HIDE DEF new
<1> QED BY <1>1 DEF Guarded, new

-----------------------------------------------------------------------------
(* Calls: one lemma for each thing the runner does with a call.            *)

\* What IInv says of a call follows when the fields it is about are as they should be.
LEMMA FreshAttempt ==
  ASSUME NEW c, NEW call \in CallRecords, call.remaining > 0,
         (call.runs + call.remaining) = MaxAttempts,
         \A run \in call.applied : run <= call.runs
  PROVE  CallInv(Run(c, call))
<1> DEFINE place == Enqueued(c, "Backoff")
           new == Run(c, call)
<1>1. place \in {"Backoff", "Dropped"}
  BY DEF Enqueued
<1>2. new = [call EXCEPT !.remaining = call.remaining - 1, !.pc = place,
                         !.txn = NewTransaction, !.reply = NoReply, !.status = "None"]
  BY DEF Run
<1>0. MaxAttempts \in Nat /\ NoReply \in Replies /\ place \in Places
  BY <1>1, TransactionConstants DEF NoReply, Replies, Versions, Missing, Places
<1> HIDE DEF place, new
<1>a. call.remaining - 1 \in 0 .. MaxAttempts
  BY <1>0 DEF CallRecords
<1>b. NewTransaction \in Transactions /\ "None" \in Statuses \cup {"None"}
  BY NewTransactionGuarded
<1>3. /\ new \in CallRecords /\ new.remaining = call.remaining - 1 /\ new.pc = place
      /\ new.txn = NewTransaction /\ new.reply = NoReply /\ new.runs = call.runs
      /\ new.applied = call.applied
  BY <1>0, <1>2, <1>a, <1>b DEF CallRecords
<1>4. (new.runs + new.remaining) + 1 = MaxAttempts
  <2>1. call.runs \in Nat /\ call.remaining \in Nat
    BY <1>0 DEF CallRecords
  <2> QED BY <1>3, <2>1
<1> QED BY <1>1, <1>3, <1>4, NewTransactionGuarded
        DEF CallInv, AttemptsCounted, Known, Told, new

LEMMA ReportedOutcome ==
  ASSUME NEW call \in CallRecords, NEW status \in Statuses,
         call.runs + call.remaining = MaxAttempts,
         \A run \in call.applied : run <= call.runs,
         status = "OK" => call.runs \in call.applied,
         status # "OK" /\ call.runs \in call.applied => status = "Transient",
         status \in Retryable /\ ~call.permanent => call.remaining = 0
  PROVE  CallInv(Reported(call, status))
<1> DEFINE new == Reported(call, status)
<1>0. NoReply \in Replies /\ "Done" \in Places
  BY DEF NoReply, Replies, Versions, Missing, Places
<1>1. /\ new \in CallRecords /\ new.pc = "Done" /\ new.status = status
      /\ new.txn = NewTransaction /\ new.reply = NoReply /\ new.runs = call.runs
      /\ new.applied = call.applied /\ new.remaining = call.remaining
      /\ new.permanent = call.permanent
  BY <1>0, NewTransactionGuarded DEF CallRecords, Reported
<1> HIDE DEF new
<1> QED BY <1>1, NewTransactionGuarded DEF CallInv, AttemptsCounted, Known, Told, new

LEMMA ErrorHandled ==
  ASSUME NEW c, NEW call \in CallRecords, NEW status \in Statuses \ {"OK"},
         call.runs + call.remaining = MaxAttempts,
         \A run \in call.applied : run <= call.runs,
         call.runs \in call.applied => status = "Transient"
  PROVE  CallInv(HandleTransactionError(c, call, status))
<1>0. call.remaining \in Nat
  BY TransactionConstants DEF CallRecords
<1>1. CASE call.remaining > 0 /\ status \in Retryable /\ ~call.permanent
  BY <1>1, FreshAttempt DEF HandleTransactionError
<1>2. CASE ~(call.remaining > 0 /\ status \in Retryable /\ ~call.permanent)
  <2>1. status \in Retryable /\ ~call.permanent => call.remaining = 0
    BY <1>0, <1>2
  <2> QED BY <1>2, <2>1, ReportedOutcome DEF HandleTransactionError
<1> QED BY <1>1, <1>2

-----------------------------------------------------------------------------
(* The invariant.                                                          *)

\* A step that changes one call keeps the invariant if the call keeps its part of it.
LEMMA OneCall ==
  ASSUME IInv, NEW c \in Calls, NEW call, CallInv(call), Becomes(c, call),
         docs' \in [Keys -> Versions], clock' \in Nat, mode' \in [Clients -> Modes],
         foreignWrites' \in Nat, faults' \in Nat, terminations' \in Nat
  PROVE  IInv'
<1>1. calls \in [Calls -> CallRecords] /\ calls' = [calls EXCEPT ![c] = call]
  BY DEF IInv, TypeOK, Becomes
<1>2. call \in CallRecords
  BY DEF CallInv
<1>3. calls' \in [Calls -> CallRecords]
  BY <1>1, <1>2
<1>4. \A d \in Calls : CallInv(calls'[d])
  <2>1. ASSUME NEW d \in Calls PROVE CallInv(calls'[d])
    <3>1. calls'[d] = IF d = c THEN call ELSE calls[d]
      BY <1>1
    <3>2. CallInv(calls[d])
      BY DEF IInv
    <3> QED BY <3>1, <3>2
  <2> QED BY <2>1
<1> QED BY <1>3, <1>4 DEF IInv, TypeOK

\* The environment of a step that is not its own.
LEMMA Unchanged ==
  ASSUME IInv
  PROVE  /\ UNCHANGED Backend =>
              docs' \in [Keys -> Versions] /\ clock' \in Nat /\ foreignWrites' \in Nat
         /\ UNCHANGED Environment \/ Fault =>
              mode' \in [Clients -> Modes] /\ faults' \in Nat /\ terminations' \in Nat
BY DEF IInv, TypeOK, Backend, Environment, Fault

\* The initial states: no call has been made.
LEMMA InitHolds == Init => IInv
<1> SUFFICES ASSUME Init PROVE IInv
  OBVIOUS
<1>0. MaxAttempts \in Nat /\ MaxAttempts >= 1 /\ MaxAttempts \in 0 .. MaxAttempts
  BY TransactionConstants
<1>1. NoReply \in Replies /\ "Idle" \in Places /\ {} \in SUBSET Keys
  BY DEF NoReply, Replies, Versions, Missing, Places
<1>2. NewCall \in CallRecords
  BY <1>0, <1>1, NewTransactionGuarded DEF NewCall, CallRecords
<1>3. CallInv(NewCall)
  BY <1>0, <1>2, NewTransactionGuarded
     DEF CallInv, NewCall, AttemptsCounted, Known, Told
<1>4. TypeOK
  BY <1>2 DEF Init, TypeOK, Versions, Missing, Modes
<1> QED BY <1>3, <1>4 DEF Init, IInv

\* What the runner does on the worker queue.
LEMMA RunnerKeeps ==
  ASSUME IInv, NEW c \in Calls, Starts(c) \/ ContinueCommit(c) \/ CommitDone(c)
  PROVE  IInv'
<1> DEFINE call == calls[c]
<1>1. CallInv(call) /\ call \in CallRecords
  BY DEF IInv, CallInv
<1>2. /\ docs' \in [Keys -> Versions] /\ clock' \in Nat /\ foreignWrites' \in Nat
      /\ mode' \in [Clients -> Modes] /\ faults' \in Nat /\ terminations' \in Nat
  BY Unchanged DEF Starts, ContinueCommit, CommitDone
<1>3. \A run \in call.applied : run <= call.runs
  BY <1>1 DEF CallInv, Known
<1>4. CASE Starts(c)
  <2>1. call.pc = "Queued" /\ Becomes(c, Run(c, call))
    BY <1>4 DEF Starts
  <2>2. call.remaining = MaxAttempts /\ call.runs = 0 /\ MaxAttempts \in Nat \ {0}
    BY <1>1, <2>1, TransactionConstants DEF CallInv, AttemptsCounted
  <2>3. call.remaining > 0 /\ call.runs + call.remaining = MaxAttempts
    BY <2>2
  <2>4. CallInv(Run(c, call))
    BY <1>1, <1>3, <2>3, FreshAttempt
  <2> QED BY <1>2, <2>1, <2>4, OneCall
<1>5. CASE ContinueCommit(c)
  <2> DEFINE place == Enqueued(c, "Committing")
             new == [call EXCEPT !.pc = place, !.status = "None"]
  <2>1. call.pc = "Finished" /\ Becomes(c, ContinueCommitted(c, call))
    BY <1>5 DEF ContinueCommit
  <2>2. /\ call.runs + call.remaining = MaxAttempts /\ call.runs \notin call.applied
        /\ call.reply = NoReply /\ Guarded(call.txn)
    BY <1>1, <2>1 DEF CallInv, AttemptsCounted, Known
  <2>3. CASE call.status \in Statuses \ {"OK"}
    <3>1. CallInv(HandleTransactionError(c, call, call.status))
      BY <1>1, <1>3, <2>2, <2>3, ErrorHandled
    <3> QED BY <1>2, <2>1, <2>3, <3>1, OneCall DEF ContinueCommitted
  <2>4. CASE call.status = "OK" /\ call.txn.lastWriteError
    <3>1. CallInv(HandleTransactionError(c, call, "Permanent"))
      BY <1>1, <1>3, <2>2, ErrorHandled DEF Statuses
    <3>2. ContinueCommitted(c, call) = HandleTransactionError(c, call, "Permanent")
      BY <2>4 DEF ContinueCommitted
    <3> QED BY <1>2, <2>1, <3>1, <3>2, OneCall
  <2>5. CASE call.status = "OK" /\ ~call.txn.lastWriteError
    <3>1. ContinueCommitted(c, call) = new
      BY <2>5 DEF ContinueCommitted
    <3>2. place \in {"Committing", "Dropped"} /\ place \in Places
      BY DEF Enqueued, Places
    <3> HIDE DEF place
    <3>3. /\ new \in CallRecords /\ new.pc = place /\ new.txn = call.txn
          /\ new.runs = call.runs /\ new.remaining = call.remaining
          /\ new.applied = call.applied /\ new.reply = call.reply
      BY <1>1, <3>2 DEF CallRecords
    <3>a. call.runs > 0
      BY <1>1, <2>1 DEF CallInv, AttemptsCounted
    <3> HIDE DEF new
    <3>4. CallInv(new)
      BY <1>3, <2>2, <2>5, <3>2, <3>3, <3>a
         DEF CallInv, AttemptsCounted, Known, Told, NoReply
    <3> QED BY <1>2, <2>1, <3>1, <3>4, OneCall
  <2>6. call.status \in Statuses
    BY <1>1, <2>1 DEF CallInv, Known, CallRecords
  <2> QED BY <2>3, <2>4, <2>5, <2>6
<1>6. CASE CommitDone(c)
  <2>1. /\ call.pc = "Committing" /\ call.reply # NoReply
        /\ Becomes(c, DispatchResult(c, call, call.reply.status))
    BY <1>6 DEF CommitDone
  <2>2. /\ call.runs + call.remaining = MaxAttempts /\ call.reply.status \in Statuses
        /\ call.reply.status = "OK" => call.runs \in call.applied
        /\ call.runs \in call.applied => call.reply.status \in {"OK", "Transient"}
    BY <1>1, <2>1 DEF CallInv, AttemptsCounted, Known, CallRecords, Replies
  <2>3. CASE call.reply.status = "OK"
    <3>1. CallInv(Reported(call, "OK"))
      BY <1>1, <1>3, <2>2, <2>3, ReportedOutcome DEF Retryable
    <3> QED BY <1>2, <2>1, <2>3, <3>1, OneCall DEF DispatchResult
  <2>4. CASE call.reply.status # "OK"
    <3>1. CallInv(HandleTransactionError(c, call, call.reply.status))
      BY <1>1, <1>3, <2>2, <2>4, ErrorHandled
    <3> QED BY <1>2, <2>1, <2>4, <3>1, OneCall DEF DispatchResult
  <2> QED BY <2>3, <2>4
<1> QED BY <1>4, <1>5, <1>6

\* The application's steps, and those of an update block.
LEMMA BlockKeeps ==
  ASSUME IInv, NEW c \in Calls,
         RunTransaction(c) \/ BackoffElapses(c) \/ BlockStarts(c) \/ BlockEnds(c)
  PROVE  IInv'
<1> DEFINE call == calls[c]
<1>1. CallInv(call) /\ call \in CallRecords
  BY DEF IInv, CallInv
<1>2. /\ docs' \in [Keys -> Versions] /\ clock' \in Nat /\ foreignWrites' \in Nat
      /\ mode' \in [Clients -> Modes] /\ faults' \in Nat /\ terminations' \in Nat
  BY Unchanged DEF RunTransaction, BackoffElapses, BlockStarts, BlockEnds, Returns, Throws
<1>3. CASE RunTransaction(c)
  <2> DEFINE new == [call EXCEPT !.pc = "Queued"]
  <2>1. call.pc = "Idle" /\ Becomes(c, new)
    BY <1>3 DEF RunTransaction
  <2>2. /\ new \in CallRecords /\ new.pc = "Queued" /\ new.txn = call.txn
        /\ new.runs = call.runs /\ new.remaining = call.remaining
        /\ new.applied = call.applied /\ new.reply = call.reply
    BY <1>1 DEF CallRecords, Places
  <2> HIDE DEF new
  <2>3. CallInv(new)
    BY <1>1, <2>1, <2>2 DEF CallInv, AttemptsCounted, Known, Told
  <2> QED BY <1>2, <2>1, <2>3, OneCall
<1>4. CASE BackoffElapses(c)
  <2> DEFINE place == IF Mode(c) = "ShutDown" THEN "Undefined" ELSE "Waiting"
             new == [call EXCEPT !.pc = place]
  <2>1. call.pc = "Backoff" /\ Becomes(c, new)
    BY <1>4 DEF BackoffElapses
  <2>2. place \in {"Undefined", "Waiting"} /\ place \in Places
    BY DEF Places
  <2> HIDE DEF place
  <2>3. /\ new \in CallRecords /\ new.pc = place /\ new.txn = call.txn
        /\ new.runs = call.runs /\ new.remaining = call.remaining
        /\ new.applied = call.applied /\ new.reply = call.reply
    BY <1>1, <2>2 DEF CallRecords
  <2> HIDE DEF new
  <2>4. CallInv(new)
    BY <1>1, <2>1, <2>2, <2>3 DEF CallInv, AttemptsCounted, Known, Told
  <2> QED BY <1>2, <2>1, <2>4, OneCall
<1>5. CASE BlockStarts(c)
  <2> DEFINE new == [call EXCEPT !.pc = "Running", !.runs = call.runs + 1]
  <2>1. call.pc = "Waiting" /\ Becomes(c, new)
    BY <1>5 DEF BlockStarts
  <2>2. /\ (call.runs + call.remaining) + 1 = MaxAttempts /\ MaxAttempts \in Nat
        /\ call.runs \in Nat /\ call.remaining \in Nat
    BY <1>1, <2>1, TransactionConstants DEF CallInv, AttemptsCounted, CallRecords
  <2>3. call.runs + 1 \in 0 .. MaxAttempts /\ (call.runs + 1) + call.remaining = MaxAttempts
    BY <2>2
  <2>4. /\ new \in CallRecords /\ new.pc = "Running" /\ new.txn = call.txn
        /\ new.runs = call.runs + 1 /\ new.remaining = call.remaining
        /\ new.applied = call.applied /\ new.reply = call.reply
    BY <1>1, <2>3 DEF CallRecords, Places
  <2> HIDE DEF new
  <2>5. /\ \A run \in new.applied : run <= new.runs
        /\ new.runs \notin new.applied
    <3>1. \A run \in call.applied : run \in Nat /\ run <= call.runs
      BY <1>1, <2>2 DEF CallInv, Known, CallRecords
    <3> QED BY <2>2, <2>4, <3>1
  <2>a. new.runs > 0
    BY <2>2, <2>4
  <2>6. CallInv(new)
    BY <1>1, <2>1, <2>3, <2>4, <2>5, <2>a DEF CallInv, AttemptsCounted, Known, Told
  <2> QED BY <1>2, <2>1, <2>6, OneCall
<1>6. CASE BlockEnds(c)
  <2>1. /\ call.pc = "Running"
        /\ \E status \in Statuses, permanent \in BOOLEAN :
             Becomes(c, [call EXCEPT !.pc = Enqueued(c, "Finished"), !.status = status,
                                     !.permanent = permanent])
    <3>1. CASE Returns(c)
      <4>1. [call EXCEPT !.pc = Enqueued(c, "Finished"), !.status = "OK"] =
            [call EXCEPT !.pc = Enqueued(c, "Finished"), !.status = "OK",
                         !.permanent = call.permanent]
        BY <1>1 DEF CallRecords
      <4> QED BY <1>1, <3>1, <4>1 DEF Returns, Statuses, CallRecords
    <3>2. CASE Throws(c)
      <4>1. {"Permanent"} \cup ({call.txn.error} \ {"None"}) \subseteq Statuses
        BY <1>1 DEF CallRecords, Transactions, Statuses
      <4> QED BY <3>2, <4>1 DEF Throws
    <3> QED BY <1>6, <3>1, <3>2 DEF BlockEnds
  <2>2. PICK status \in Statuses, permanent \in BOOLEAN :
          Becomes(c, [call EXCEPT !.pc = Enqueued(c, "Finished"), !.status = status,
                                  !.permanent = permanent])
    BY <2>1
  <2> DEFINE place == Enqueued(c, "Finished")
             new == [call EXCEPT !.pc = place, !.status = status, !.permanent = permanent]
  <2>3. place \in {"Finished", "Dropped"} /\ place \in Places
    BY DEF Enqueued, Places
  <2>a. Becomes(c, new)
    BY <2>2
  <2> HIDE DEF place
  <2>4. /\ new \in CallRecords /\ new.pc = place /\ new.txn = call.txn
        /\ new.runs = call.runs /\ new.remaining = call.remaining
        /\ new.applied = call.applied /\ new.reply = call.reply /\ new.status = status
    BY <1>1, <2>3 DEF CallRecords
  <2> HIDE DEF new
  <2>5. status # "None"
    BY DEF Statuses, Retryable
  <2>6. CallInv(new)
    BY <1>1, <2>1, <2>3, <2>4, <2>5 DEF CallInv, AttemptsCounted, Known, Told
  <2> QED BY <1>2, <2>a, <2>6, OneCall
<1> QED BY <1>3, <1>4, <1>5, <1>6

\* A call in the update block whose Transaction changes.
LEMMA BlockTransaction ==
  ASSUME NEW call \in CallRecords, CallInv(call), NEW place \in {"Running", "Lookup"},
         call.pc \in {"Running", "Lookup"}, NEW keys \in SUBSET Keys,
         NEW reply, reply = NoReply,
         NEW txn \in Transactions, Guarded(txn), place = "Lookup" => txn.mutations = <<>>
  PROVE  CallInv([call EXCEPT !.pc = place, !.lookup = keys, !.reply = reply, !.txn = txn])
<1> DEFINE new == [call EXCEPT !.pc = place, !.lookup = keys, !.reply = reply, !.txn = txn]
<1>1. reply \in Replies /\ place \in Places
  BY DEF NoReply, Replies, Versions, Missing, Places
<1>2. /\ new \in CallRecords /\ new.pc = place /\ new.txn = txn
      /\ new.runs = call.runs /\ new.remaining = call.remaining
      /\ new.applied = call.applied /\ new.reply = NoReply
  BY <1>1 DEF CallRecords
<1> HIDE DEF new
<1> QED BY <1>2 DEF CallInv, AttemptsCounted, Known, Told, new

\* The reads and writes of an update block.
LEMMA OperationKeeps ==
  ASSUME IInv, NEW c \in Calls, NEW k \in Keys,
         GetDocument(c, k) \/ Write(c, k) \/ LookupDone(c)
  PROVE  IInv'
<1> DEFINE call == calls[c]
<1>1. CallInv(call) /\ call \in CallRecords /\ call.txn \in Transactions /\ Guarded(call.txn)
  BY DEF IInv, CallInv, CallRecords
<1>2. /\ docs' \in [Keys -> Versions] /\ clock' \in Nat /\ foreignWrites' \in Nat
      /\ mode' \in [Clients -> Modes] /\ faults' \in Nat /\ terminations' \in Nat
  BY Unchanged DEF GetDocument, Write, Operates, LookupDone
<1>3. call.pc = "Running" => call.reply = NoReply
  BY <1>1 DEF CallInv, Known
<1>4. ASSUME NEW txn \in Transactions, Guarded(txn), call.pc = "Running",
             Becomes(c, [call EXCEPT !.txn = txn])
      PROVE  IInv'
  <2> DEFINE new == [call EXCEPT !.pc = "Running", !.lookup = call.lookup,
                                 !.reply = call.reply, !.txn = txn]
  <2>1. call.lookup \in SUBSET Keys
    BY <1>1 DEF CallRecords
  <2>2. CallInv(new)
    BY <1>1, <1>3, <1>4, <2>1, BlockTransaction
  <2>3. new = [call EXCEPT !.txn = txn]
    BY <1>1, <1>4 DEF CallRecords
  <2> QED BY <1>2, <1>4, <2>2, <2>3, OneCall
<1>5. CASE GetDocument(c, k)
  <2>1. call.pc = "Running" /\ call.txn.operations < MaxOperations
    BY <1>5 DEF GetDocument, Operates
  <2>2. ASSUME NEW error \in Statuses, GetFails(c, error) PROVE IInv'
    <3> DEFINE failed == [call.txn EXCEPT !.error = error]
    <3>1. failed \in Transactions /\ Guarded(failed) /\ failed.operations < MaxOperations
      BY <1>1, <2>1, ErrorGuarded
    <3> HIDE DEF failed
    <3>2. Counted(failed) \in Transactions /\ Guarded(Counted(failed))
      BY <3>1, CountedGuarded
    <3>3. Becomes(c, [call EXCEPT !.txn = Counted(failed)])
      BY <2>2 DEF GetFails, failed
    <3> QED BY <1>4, <2>1, <3>2, <3>3
  <2>3. ASSUME call.txn.mutations = <<>>,
               Becomes(c, [call EXCEPT !.pc = "Lookup", !.lookup = {k},
                                       !.txn = Counted(call.txn)])
        PROVE  IInv'
    <3> DEFINE txn == Counted(call.txn)
               new == [call EXCEPT !.pc = "Lookup", !.lookup = {k},
                                   !.reply = call.reply, !.txn = txn]
    <3>1. txn \in Transactions /\ Guarded(txn) /\ txn.mutations = <<>>
      BY <1>1, <2>1, <2>3, CountedGuarded
    <3>a. {k} \in SUBSET Keys
      OBVIOUS
    <3>b. Becomes(c, [call EXCEPT !.pc = "Lookup", !.lookup = {k}, !.txn = txn])
      BY <2>3
    <3> HIDE DEF txn
    <3>2. CallInv(new)
      BY <1>1, <1>3, <2>1, <3>1, <3>a, BlockTransaction
    <3>3. new = [call EXCEPT !.pc = "Lookup", !.lookup = {k}, !.txn = txn]
      BY <1>1 DEF CallRecords
    <3> QED BY <1>2, <3>b, <3>2, <3>3, OneCall
  <2>4. "Permanent" \in Statuses /\ "Conflict" \in Statuses
    BY DEF Statuses, Retryable
  <2> QED BY <1>5, <2>2, <2>3, <2>4 DEF GetDocument
<1>6. CASE Write(c, k)
  <2>1. call.pc = "Running" /\ call.txn.operations < MaxOperations
    BY <1>6 DEF Write, Operates
  <2>2. PICK txn \in {SetDocument(call.txn, k), UpdateDocument(call.txn, k),
                      DeleteDocument(call.txn, k)} :
          Becomes(c, [call EXCEPT !.txn = Counted(txn)])
    BY <1>6 DEF Write
  <2>3. txn \in Transactions /\ Guarded(txn) /\ txn.operations < MaxOperations
    BY <1>1, <2>1, <2>2, WritesGuarded
  <2>4. Counted(txn) \in Transactions /\ Guarded(Counted(txn))
    BY <2>3, CountedGuarded
  <2> QED BY <1>4, <2>1, <2>2, <2>4
<1>7. CASE LookupDone(c)
  <2>1. call.pc = "Lookup" /\ call.reply # NoReply
    BY <1>7 DEF LookupDone
  <2>2. PICK key \in call.lookup :
          Becomes(c, [call EXCEPT
            !.pc = "Running", !.lookup = {}, !.reply = NoReply,
            !.txn = IF call.reply.status = "OK"
                    THEN RecordVersion(call.txn, key, call.reply.version)
                    ELSE [call.txn EXCEPT !.error = call.reply.status]])
    BY <1>7 DEF LookupDone
  <2> DEFINE txn == IF call.reply.status = "OK"
                    THEN RecordVersion(call.txn, key, call.reply.version)
                    ELSE [call.txn EXCEPT !.error = call.reply.status]
             new == [call EXCEPT !.pc = "Running", !.lookup = {}, !.reply = NoReply,
                                 !.txn = txn]
  <2>3. /\ key \in Keys /\ call.reply.version \in Versions /\ call.txn.mutations = <<>>
        /\ call.reply.status \in Statuses
    BY <1>1, <2>1 DEF CallRecords, Replies, CallInv, Known
  <2>4. txn \in Transactions /\ Guarded(txn)
    <3>1. CASE call.reply.status = "OK"
      BY <1>1, <2>3, <3>1, RecordGuarded
    <3>2. CASE call.reply.status # "OK"
      BY <1>1, <2>3, <3>2, ErrorGuarded
    <3> QED BY <3>1, <3>2
  <2>5. Becomes(c, new)
    BY <2>2
  <2> HIDE DEF txn
  <2>6. CallInv(new)
    BY <1>1, <2>1, <2>4, BlockTransaction
  <2> QED BY <1>2, <2>5, <2>6, OneCall
<1> QED BY <1>5, <1>6, <1>7

\* An answer of the backend, which may come with the commit applied.
LEMMA AnswerKept ==
  ASSUME NEW c \in Calls, NEW call \in CallRecords, CallInv(call),
         call.pc = "Committing", call.reply = NoReply,
         NEW status \in Statuses, NEW new \in CallRecords,
         new.txn = call.txn, new.runs = call.runs, new.remaining = call.remaining,
         new.applied \subseteq call.applied \cup {call.runs},
         status = "OK" => call.runs \in new.applied,
         call.runs \in new.applied => status \in {"OK", "Transient"},
         CommitAnswered(c, new, status)
  PROVE  \E answered : CallInv(answered) /\ Becomes(c, answered)
<1> DEFINE place == Enqueued(c, "Committing")
           reply == IF Mode(c) = "Running" THEN [NoReply EXCEPT !.status = status] ELSE NoReply
           answered == [new EXCEPT !.pc = place, !.reply = reply]
<1>1. Becomes(c, answered)
  BY DEF CommitAnswered
<1>2. \/ place = "Committing" /\ reply = [NoReply EXCEPT !.status = status]
      \/ place = "Dropped" /\ reply = NoReply
  BY DEF Enqueued
<1>3. place \in Places
  BY <1>2 DEF Places
<1>4. /\ NoReply \in Replies /\ [NoReply EXCEPT !.status = status] \in Replies
      /\ [NoReply EXCEPT !.status = status].status = status /\ NoReply.status = "None"
  BY DEF NoReply, Replies, Versions, Missing
<1> HIDE DEF place, reply
<1>5. /\ answered \in CallRecords /\ answered.pc = place /\ answered.reply = reply
      /\ answered.txn = new.txn /\ answered.runs = new.runs
      /\ answered.remaining = new.remaining /\ answered.applied = new.applied
  BY <1>2, <1>3, <1>4 DEF CallRecords
<1>6. call.runs \in Nat
  BY TransactionConstants DEF CallRecords
<1> HIDE DEF answered
<1>7. \A run \in answered.applied : run <= answered.runs
  BY <1>5, <1>6 DEF CallInv, Known
<1>8. "None" \notin Statuses
  BY DEF Statuses, Retryable
<1>9. CallInv(answered)
  <2>1. AttemptsCounted(answered)
    BY <1>2, <1>5 DEF CallInv, AttemptsCounted
  <2>2. Known(answered)
    BY <1>2, <1>4, <1>5, <1>7, <1>8 DEF CallInv, Known
  <2>3. Told(answered)
    BY <1>2, <1>5 DEF Told
  <2>4. /\ Guarded(answered.txn)
        /\ answered.pc = "Lookup" => answered.txn.mutations = <<>>
        /\ answered.pc = "Committing" => ~answered.txn.lastWriteError
    BY <1>2, <1>5 DEF CallInv
  <2> QED BY <1>5, <2>1, <2>2, <2>3, <2>4 DEF CallInv
<1> QED BY <1>1, <1>9

\* The backend's steps.
LEMMA BackendKeeps ==
  ASSUME IInv, NEW c \in Calls, BackendStep(c) \/ LookupFails(c) \/ CommitFails(c)
  PROVE  IInv'
<1> DEFINE call == calls[c]
<1>1. CallInv(call) /\ call \in CallRecords
  BY DEF IInv, CallInv
<1>2. ASSUME LookupAnswered(c) \/ LookupFails(c) PROVE IInv'
  <2>1. /\ docs' \in [Keys -> Versions] /\ clock' \in Nat /\ foreignWrites' \in Nat
        /\ mode' \in [Clients -> Modes] /\ faults' \in Nat /\ terminations' \in Nat
    BY <1>2, Unchanged DEF LookupAnswered, LookupFails
  <2>2. call.pc = "Lookup"
    BY <1>2 DEF LookupAnswered, LookupFails, AwaitsReply
  <2>3. PICK status \in Statuses, version \in Versions :
          Becomes(c, [call EXCEPT !.reply = [status |-> status, version |-> version]])
    <3>1. CASE LookupAnswered(c)
      <4>1. "OK" \in Statuses /\ call.lookup \subseteq Keys /\ docs \in [Keys -> Versions]
        BY <1>1 DEF Statuses, CallRecords, IInv, TypeOK
      <4> QED BY <3>1, <4>1 DEF LookupAnswered
    <3>2. CASE LookupFails(c)
      <4>1. {"Transient", "Permanent"} \subseteq Statuses /\ Missing \in Versions
        BY DEF Statuses, Retryable, Missing, Versions
      <4>2. \A status : [NoReply EXCEPT !.status = status] =
                        [status |-> status, version |-> Missing]
        BY DEF NoReply
      <4> QED BY <3>2, <4>1, <4>2 DEF LookupFails
    <3> QED BY <1>2, <3>1, <3>2
  <2> DEFINE reply == [status |-> status, version |-> version]
             new == [call EXCEPT !.reply = reply]
  <2>4. reply \in Replies /\ reply.status # "None"
    BY DEF Replies, Statuses, Retryable
  <2>a. Becomes(c, new)
    BY <2>3
  <2> HIDE DEF reply
  <2>5. /\ new \in CallRecords /\ new.pc = "Lookup" /\ new.txn = call.txn
        /\ new.runs = call.runs /\ new.remaining = call.remaining
        /\ new.applied = call.applied /\ new.reply = reply
    BY <1>1, <2>2, <2>4 DEF CallRecords
  <2> HIDE DEF new
  <2>6. CallInv(new)
    BY <1>1, <2>2, <2>4, <2>5 DEF CallInv, AttemptsCounted, Known, Told
  <2> QED BY <2>1, <2>a, <2>6, OneCall
<1>3. ASSUME BackendRefuses(c) \/ CommitFails(c) PROVE IInv'
  <2>1. /\ docs' \in [Keys -> Versions] /\ clock' \in Nat /\ foreignWrites' \in Nat
        /\ mode' \in [Clients -> Modes] /\ faults' \in Nat /\ terminations' \in Nat
    BY <1>3, Unchanged DEF BackendRefuses, CommitFails
  <2>2. call.pc = "Committing" /\ call.reply = NoReply
    BY <1>3 DEF BackendRefuses, CommitFails, AwaitsReply
  <2>3. PICK status \in Statuses \ {"OK"} : CommitAnswered(c, call, status)
    BY <1>3 DEF BackendRefuses, CommitFails, Statuses, Retryable
  <2>a. status \in Statuses /\ status # "OK"
    BY <2>3
  <2>b. call.runs \notin call.applied
    BY <1>1, <2>2 DEF CallInv, Known
  <2>4. PICK answered : CallInv(answered) /\ Becomes(c, answered)
    BY <1>1, <2>2, <2>3, <2>a, <2>b, AnswerKept
  <2> QED BY <2>1, <2>4, OneCall
<1>4. ASSUME BackendCommits(c) PROVE IInv'
  <2> DEFINE new == [call EXCEPT !.applied = call.applied \cup {call.runs}]
  <2>1. call.pc = "Committing" /\ call.reply = NoReply
    BY <1>4 DEF BackendCommits, AwaitsReply
  <2>2. /\ docs' \in [Keys -> Versions] /\ clock' \in Nat /\ foreignWrites' \in Nat
        /\ mode' \in [Clients -> Modes] /\ faults' \in Nat /\ terminations' \in Nat
    <3>1. docs \in [Keys -> Versions] /\ clock \in Nat
      BY DEF IInv, TypeOK
    <3>2. Missing \in Versions /\ clock + 1 \in Versions
      BY <3>1 DEF Missing, Versions
    <3>3. \A m : VersionAfter(m) \in Versions
      BY <3>2 DEF VersionAfter
    <3>4. Applied(call.txn) \in [Keys -> Versions]
      BY <3>1, <3>3 DEF Applied
    <3>5. UNCHANGED Environment \/ Fault
      BY <1>4 DEF BackendCommits
    <3>6. mode' \in [Clients -> Modes] /\ faults' \in Nat /\ terminations' \in Nat
      BY <3>5, Unchanged
    <3>7. clock' = clock + 1 /\ foreignWrites' = foreignWrites /\ docs' = Applied(call.txn)
      BY <1>4 DEF BackendCommits
    <3>8. foreignWrites \in Nat
      BY DEF IInv, TypeOK
    <3> QED BY <3>2, <3>4, <3>6, <3>7, <3>8 DEF Versions
  <2>3. call.runs \in 1 .. MaxAttempts
    <3>1. /\ call.runs \in 0 .. MaxAttempts /\ MaxAttempts \in Nat
          /\ call.runs > 0
      BY <1>1, <2>1, TransactionConstants DEF CallRecords, CallInv, AttemptsCounted
    <3> QED BY <3>1
  <2>4. /\ new \in CallRecords /\ call.runs \in new.applied /\ new.txn = call.txn
        /\ new.runs = call.runs /\ new.remaining = call.remaining
        /\ new.applied \subseteq call.applied \cup {call.runs}
    BY <1>1, <2>3 DEF CallRecords
  <2>5. PICK status \in {"OK", "Transient"} : CommitAnswered(c, new, status)
    BY <1>4 DEF BackendCommits
  <2>6. status \in Statuses
    BY DEF Statuses, Retryable
  <2>7. PICK answered : CallInv(answered) /\ Becomes(c, answered)
    BY <1>1, <2>1, <2>4, <2>5, <2>6, AnswerKept
  <2> QED BY <2>2, <2>7, OneCall
<1> QED BY <1>2, <1>3, <1>4 DEF BackendStep

LEMMA NextKeeps == IInv /\ [Next]_vars => IInv'
<1> SUFFICES ASSUME IInv, [Next]_vars PROVE IInv'
  OBVIOUS
<1>1. ASSUME NEW c \in Calls,
             \/ RunTransaction(c) \/ RunnerStep(c) \/ BlockEnds(c) \/ BackendStep(c)
             \/ LookupFails(c) \/ CommitFails(c)
             \/ \E k \in Keys : GetDocument(c, k) \/ Write(c, k)
      PROVE  IInv'
  <2>1. CASE RunTransaction(c) \/ BlockEnds(c)
    BY <2>1, BlockKeeps
  <2>2. CASE RunnerStep(c)
    <3>1. CASE Starts(c) \/ ContinueCommit(c) \/ CommitDone(c)
      BY <3>1, RunnerKeeps
    <3>2. CASE BackoffElapses(c) \/ BlockStarts(c)
      BY <3>2, BlockKeeps
    <3>3. CASE LookupDone(c)
      <4>1. PICK k \in Keys : TRUE
        <5>1. calls[c] \in CallRecords /\ \E k \in calls[c].lookup : TRUE
          BY <3>3 DEF LookupDone, IInv, CallInv
        <5> QED BY <5>1 DEF CallRecords
      <4> QED BY <3>3, <4>1, OperationKeeps
    <3> QED BY <2>2, <3>1, <3>2, <3>3 DEF RunnerStep
  <2>3. CASE BackendStep(c) \/ LookupFails(c) \/ CommitFails(c)
    BY <2>3, BackendKeeps
  <2>4. CASE \E k \in Keys : GetDocument(c, k) \/ Write(c, k)
    BY <2>4, OperationKeeps
  <2> QED BY <1>1, <2>1, <2>2, <2>3, <2>4
<1>2. ASSUME NEW k \in Keys, ForeignWrite(k) PROVE IInv'
  <2>1. docs' \in [Keys -> Versions] /\ clock' \in Nat /\ foreignWrites' \in Nat
    BY <1>2 DEF ForeignWrite, IInv, TypeOK, Versions, Missing
  <2>2. UNCHANGED <<calls, mode, faults, terminations>>
    BY <1>2 DEF ForeignWrite, Environment
  <2> QED BY <2>1, <2>2 DEF IInv, TypeOK
<1>3. ASSUME NEW client \in Clients, Terminate(client) \/ TerminateInternal(client) PROVE IInv'
  <2>1. mode' \in [Clients -> Modes] /\ terminations' \in Nat
    BY <1>3 DEF Terminate, TerminateInternal, IInv, TypeOK, Modes
  <2>2. UNCHANGED <<docs, clock, foreignWrites, calls, faults>>
    BY <1>3 DEF Terminate, TerminateInternal, Backend
  <2> QED BY <2>1, <2>2 DEF IInv, TypeOK
<1>4. CASE UNCHANGED vars
  BY <1>4 DEF vars, IInv, TypeOK
<1> QED BY <1>1, <1>2, <1>3, <1>4 DEF Next

\* The inductive invariant holds in every behaviour of the transaction runner.
THEOREM InvariantHolds == Spec => []IInv
<1>1. Init => IInv
  BY InitHolds
<1>2. IInv /\ [Next]_vars => IInv'
  BY NextKeeps
<1> QED BY <1>1, <1>2, PTL DEF Spec

\* Type correctness: attempts_remaining_ never goes below zero (TransactionRunner::Run).
THEOREM TypeCorrect == Spec => []TypeOK
<1>1. IInv => TypeOK
  BY DEF IInv
<1> QED BY <1>1, InvariantHolds, PTL

\* The outcome a caller is told is what happened (TransactionRunner::DispatchResult).
THEOREM OutcomesAreTrue == Spec => []OutcomeIsTrue
<1>1. IInv => OutcomeIsTrue
  BY DEF IInv, CallInv, Told, OutcomeIsTrue
<1> QED BY <1>1, InvariantHolds, PTL

\* A commit's retryable error is reported only after max_attempts runs of the block
\* (TransactionRunner::HandleTransactionError).
THEOREM AllAttemptsMade == Spec => []RetriesExhausted
<1>1. ASSUME IInv PROVE RetriesExhausted
  <2> SUFFICES ASSUME NEW c \in Calls
               PROVE  /\ calls[c].runs <= MaxAttempts
                      /\ calls[c].pc = "Done" /\ calls[c].status \in Retryable
                           /\ ~calls[c].permanent => calls[c].runs = MaxAttempts
    BY DEF RetriesExhausted
  <2>1. CallInv(calls[c]) /\ calls[c] \in CallRecords /\ MaxAttempts \in Nat
    BY <1>1, TransactionConstants DEF IInv, CallInv
  <2>2. calls[c].runs \in 0 .. MaxAttempts
    BY <2>1 DEF CallRecords
  <2>3. calls[c].pc = "Done" => calls[c].runs + calls[c].remaining = MaxAttempts
    BY <2>1 DEF CallInv, AttemptsCounted
  <2>4. /\ calls[c].pc = "Done" /\ calls[c].status \in Retryable /\ ~calls[c].permanent
        => calls[c].remaining = 0
    BY <2>1 DEF CallInv, Told
  <2> QED BY <2>1, <2>2, <2>3, <2>4
<1> QED BY <1>1, InvariantHolds, PTL

\* A commit that the backend refuses for a conflict has read a document that has changed
\* since (Transaction::CreatePrecondition).
THEOREM ConflictsHaveACause == Spec => []ConflictsAreReal
<1>1. ASSUME IInv PROVE ConflictsAreReal
  <2> SUFFICES ASSUME NEW c \in Calls,
                      \A k \in calls[c].txn.read : calls[c].txn.version[k] = docs[k],
                      NEW pre \in Failing(calls[c].txn)
               PROVE  pre = Exists
    BY DEF ConflictsAreReal
  <2> DEFINE txn == calls[c].txn
  <2>1. Guarded(txn) /\ txn \in Transactions /\ txn.read \subseteq Keys
    BY <1>1 DEF IInv, CallInv, CallRecords, Transactions
  <2>a. \A v : Admits(None, v) /\ Admits(UpdateTime(v), v)
    BY DEF Admits, None, UpdateTime
  <2>2. ASSUME NEW i \in DOMAIN txn.mutations, pre = txn.mutations[i].pre,
               ~Admits(pre, VersionBefore(txn.mutations, i))
        PROVE  pre = Exists
    <3>1. pre # None
      BY <2>2, <2>a, Zenon
    <3>2. ASSUME pre # Exists PROVE FALSE
      <4>0. txn.mutations[i].pre \notin {None, Exists}
        BY <2>2, <3>1, <3>2
      <4>1. /\ Earlier(txn.mutations, i) = {} /\ txn.mutations[i].key \in txn.read
            /\ pre = UpdateTime(txn.version[txn.mutations[i].key])
        <5>1. \A j \in DOMAIN txn.mutations : txn.mutations[j].pre \notin {None, Exists} =>
                /\ FirstOn(txn.mutations, j) /\ txn.mutations[j].key \in txn.read
                /\ txn.mutations[j].pre = UpdateTime(txn.version[txn.mutations[j].key])
          <6> HIDE DEF txn
          <6> QED BY <2>1 DEF Guarded
        <5> HIDE DEF txn
        <5> QED BY <2>2, <4>0, <5>1, Zenon DEF FirstOn
      <4>2. VersionBefore(txn.mutations, i) = txn.version[txn.mutations[i].key]
        BY <4>1 DEF VersionBefore
      <4>3. Admits(UpdateTime(txn.version[txn.mutations[i].key]),
                   txn.version[txn.mutations[i].key])
        BY <2>a
      <4> HIDE DEF txn
      <4> QED BY <2>2, <4>1, <4>2, <4>3, Zenon
    <3> QED BY <3>2
  <2>3. ASSUME NEW k \in Unwritten(txn), pre = CreatePrecondition(txn, k),
               ~Admits(pre, docs[k])
        PROVE  pre = Exists
    <3>1. pre = None \/ pre = UpdateTime(docs[k])
      BY <2>3 DEF CreatePrecondition, Unwritten
    <3> QED BY <2>3, <2>a, <3>1
  <2> QED BY <2>2, <2>3 DEF Failing
<1> QED BY <1>1, InvariantHolds, PTL

-----------------------------------------------------------------------------
(* Serializability.                                                        *)

\* A commit that meets its preconditions has read nothing that has changed.
LEMMA ReadsAreCurrent ==
  ASSUME NEW txn \in Transactions, Guarded(txn), ~txn.lastWriteError, Failing(txn) = {},
         NEW k \in txn.read
  PROVE  txn.version[k] = docs[k]
<1>a. \A u, v : Admits(UpdateTime(u), v) => u = v
  BY DEF Admits, UpdateTime
<1>1. CASE k \in txn.written
  <2>1. PICK i \in DOMAIN txn.mutations :
          /\ txn.mutations[i].key = k /\ FirstOn(txn.mutations, i)
          /\ txn.mutations[i].pre = UpdateTime(txn.version[k])
    BY <1>1 DEF Guarded
  <2>2. VersionBefore(txn.mutations, i) = docs[k]
    BY <2>1 DEF VersionBefore, FirstOn
  <2>3. Admits(txn.mutations[i].pre, VersionBefore(txn.mutations, i))
    BY <2>1 DEF Failing
  <2> QED BY <1>a, <2>1, <2>2, <2>3
<1>2. CASE k \notin txn.written
  <2>1. k \in Unwritten(txn)
    BY <1>2 DEF Unwritten, Guarded
  <2>2. CreatePrecondition(txn, k) = UpdateTime(txn.version[k])
    BY <1>2 DEF CreatePrecondition
  <2>3. Admits(CreatePrecondition(txn, k), docs[k])
    BY <2>1 DEF Failing
  <2> QED BY <1>a, <2>2, <2>3
<1> QED BY <1>1, <1>2

\* The runner itself applies nothing.
LEMMA RunnerAppliesNothing ==
  ASSUME NEW c, NEW call \in CallRecords, NEW status
  PROVE  /\ Run(c, call).applied = call.applied
         /\ HandleTransactionError(c, call, status).applied = call.applied
         /\ DispatchResult(c, call, status).applied = call.applied
         /\ ContinueCommitted(c, call).applied = call.applied
<1>1. Run(c, call).applied = call.applied
  BY DEF Run, CallRecords
<1>2. Reported(call, status).applied = call.applied
  BY DEF Reported, CallRecords
<1>3. \A s : HandleTransactionError(c, call, s).applied = call.applied
  <2>1. \A s : Reported(call, s).applied = call.applied
    BY DEF Reported, CallRecords
  <2> QED BY <1>1, <2>1 DEF HandleTransactionError
<1>4. DispatchResult(c, call, status).applied = call.applied
  BY <1>2, <1>3 DEF DispatchResult
<1>5. ContinueCommitted(c, call).applied = call.applied
  <2>1. CASE call.status # "OK"
    BY <1>3, <2>1 DEF ContinueCommitted
  <2>2. CASE call.status = "OK" /\ call.txn.lastWriteError
    BY <1>3, <2>2 DEF ContinueCommitted
  <2>3. CASE call.status = "OK" /\ ~call.txn.lastWriteError
    <3> DEFINE place == Enqueued(c, "Committing")
    <3>1. ContinueCommitted(c, call) = [call EXCEPT !.pc = place, !.status = "None"]
      BY <2>3 DEF ContinueCommitted
    <3> HIDE DEF place
    <3> QED BY <3>1 DEF CallRecords
  <2> QED BY <2>1, <2>2, <2>3
<1> QED BY <1>1, <1>3, <1>4, <1>5

\* Only the backend's commit of a call adds to what has been applied of it.
LEMMA OnlyCommitsApply ==
  ASSUME IInv, [Next]_vars, NEW c \in Calls, calls'[c].applied # calls[c].applied
  PROVE  BackendCommits(c)
<1>1. ASSUME NEW d \in Calls, NEW call, Becomes(d, call),
             call.applied = calls[d].applied
      PROVE  FALSE
  <2>1. calls' = [calls EXCEPT ![d] = call] /\ calls \in [Calls -> CallRecords]
    BY <1>1 DEF Becomes, IInv, TypeOK
  <2>2. calls'[c] = IF c = d THEN call ELSE calls[c]
    BY <2>1
  <2> QED BY <1>1, <2>2
<1>2. ASSUME NEW d \in Calls, BackendCommits(d) PROVE d = c
  <2>1. PICK call : Becomes(d, call)
    BY <1>2 DEF BackendCommits, CommitAnswered
  <2>2. calls' = [calls EXCEPT ![d] = call] /\ calls \in [Calls -> CallRecords]
    BY <2>1 DEF Becomes, IInv, TypeOK
  <2>3. d # c => calls'[c] = calls[c]
    BY <2>2
  <2> QED BY <2>3
<1>3. \A d \in Calls : calls[d] \in CallRecords
  BY DEF IInv, TypeOK
<1>4. ASSUME NEW d \in Calls, RunTransaction(d) \/ RunnerStep(d) \/ BlockEnds(d)
      PROVE  FALSE
  <2>0. calls[d] \in CallRecords
    BY <1>3
  <2>1. CASE RunTransaction(d)
    BY <1>1, <2>0, <2>1 DEF RunTransaction, CallRecords
  <2>2. CASE Starts(d)
    BY <1>1, <2>0, <2>2, RunnerAppliesNothing DEF Starts
  <2>3. CASE ContinueCommit(d)
    BY <1>1, <2>0, <2>3, RunnerAppliesNothing DEF ContinueCommit
  <2>4. CASE CommitDone(d)
    BY <1>1, <2>0, <2>4, RunnerAppliesNothing DEF CommitDone
  <2>5. CASE BackoffElapses(d)
    <3>1. PICK place : Becomes(d, [calls[d] EXCEPT !.pc = place])
      BY <2>5 DEF BackoffElapses
    <3> QED BY <1>1, <2>0, <3>1 DEF CallRecords
  <2>6. CASE BlockStarts(d)
    BY <1>1, <2>0, <2>6 DEF BlockStarts, CallRecords
  <2>7. CASE LookupDone(d)
    <3>1. PICK txn : Becomes(d, [calls[d] EXCEPT !.pc = "Running", !.lookup = {},
                                                 !.reply = NoReply, !.txn = txn])
      BY <2>7 DEF LookupDone
    <3> QED BY <1>1, <2>0, <3>1 DEF CallRecords
  <2>8. CASE Returns(d)
    <3>1. PICK place : Becomes(d, [calls[d] EXCEPT !.pc = place, !.status = "OK"])
      BY <2>8 DEF Returns
    <3> QED BY <1>1, <2>0, <3>1 DEF CallRecords
  <2>9. CASE Throws(d)
    <3>1. PICK place, error : Becomes(d, [calls[d] EXCEPT !.pc = place, !.status = error,
                                                          !.permanent = TRUE])
      BY <2>9 DEF Throws
    <3> QED BY <1>1, <2>0, <3>1 DEF CallRecords
  <2> QED BY <1>4, <2>1, <2>2, <2>3, <2>4, <2>5, <2>6, <2>7, <2>8, <2>9
          DEF RunnerStep, BlockEnds
<1>5. ASSUME NEW d \in Calls, NEW k \in Keys, GetDocument(d, k) \/ Write(d, k)
      PROVE  FALSE
  <2>0. calls[d] \in CallRecords
    BY <1>3
  <2>1. ASSUME NEW txn, Becomes(d, [calls[d] EXCEPT !.txn = txn]) PROVE FALSE
    BY <1>1, <2>0, <2>1 DEF CallRecords
  <2>2. ASSUME NEW txn, Becomes(d, [calls[d] EXCEPT !.pc = "Lookup", !.lookup = {k},
                                                    !.txn = txn])
        PROVE  FALSE
    BY <1>1, <2>0, <2>2 DEF CallRecords
  <2> QED BY <1>5, <2>1, <2>2 DEF GetDocument, GetFails, Write
<1>6. ASSUME NEW d \in Calls,
             LookupAnswered(d) \/ LookupFails(d) \/ BackendRefuses(d) \/ CommitFails(d)
      PROVE  FALSE
  <2>0. calls[d] \in CallRecords
    BY <1>3
  <2>1. ASSUME NEW reply, Becomes(d, [calls[d] EXCEPT !.reply = reply]) PROVE FALSE
    BY <1>1, <2>0, <2>1 DEF CallRecords
  <2>2. ASSUME NEW place, NEW reply,
               Becomes(d, [calls[d] EXCEPT !.pc = place, !.reply = reply])
        PROVE  FALSE
    BY <1>1, <2>0, <2>2 DEF CallRecords
  <2> QED BY <1>6, <2>1, <2>2
          DEF LookupAnswered, LookupFails, BackendRefuses, CommitFails, CommitAnswered
<1>7. ~UNCHANGED calls
  OBVIOUS
<1>8. /\ \A k \in Keys : ~ForeignWrite(k)
      /\ \A client \in Clients : ~Terminate(client) /\ ~TerminateInternal(client)
      /\ ~UNCHANGED vars
  BY <1>7 DEF ForeignWrite, Terminate, TerminateInternal, Backend, vars
<1> QED BY <1>2, <1>4, <1>5, <1>6, <1>8 DEF Next, BackendStep

\* Transactions are serializable: what the backend applies was computed from the
\* documents as they are (the preconditions and verifications of Transaction::Commit).
THEOREM TransactionsAreSerializable == Spec => Serializable
<1>1. ASSUME IInv, [Next]_vars, NEW c \in Calls, calls'[c].applied # calls[c].applied,
             NEW k \in calls[c].txn.read
      PROVE  calls[c].txn.version[k] = docs[k]
  <2>1. BackendCommits(c)
    BY <1>1, OnlyCommitsApply
  <2>2. calls[c].pc = "Committing" /\ Failing(calls[c].txn) = {}
    BY <2>1 DEF BackendCommits, AwaitsReply
  <2>3. /\ calls[c].txn \in Transactions /\ Guarded(calls[c].txn)
        /\ ~calls[c].txn.lastWriteError
    BY <1>1, <2>2 DEF IInv, CallInv, CallRecords
  <2> QED BY <1>1, <2>2, <2>3, ReadsAreCurrent
<1>2. IInv /\ [Next]_vars =>
        [\A c \in Calls : calls'[c].applied # calls[c].applied =>
           \A k \in calls[c].txn.read : calls[c].txn.version[k] = docs[k]]_vars
  BY <1>1
<1> QED BY <1>2, InvariantHolds, PTL DEF Spec, Serializable
=============================================================================
