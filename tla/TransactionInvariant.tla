------------------------ MODULE TransactionInvariant ------------------------
(***************************************************************************)
(* The inductive invariant of TransactionRunner.                           *)
(***************************************************************************)
EXTENDS TransactionRunner

FirstOn(muts, i) == Earlier(muts, i) = {}

\* What a Transaction's mutations say of the versions it read.
Guarded(txn) ==
  /\ \A i \in DOMAIN txn.mutations : txn.mutations[i].key \in txn.written
  /\ \A i \in DOMAIN txn.mutations : txn.mutations[i].pre \notin {None, Exists} =>
       /\ FirstOn(txn.mutations, i) /\ txn.mutations[i].key \in txn.read
       /\ txn.mutations[i].pre = UpdateTime(txn.version[txn.mutations[i].key])
  /\ ~txn.lastWriteError => \A k \in txn.written : \E i \in DOMAIN txn.mutations :
       /\ txn.mutations[i].key = k /\ FirstOn(txn.mutations, i)
       /\ k \in txn.read => txn.mutations[i].pre = UpdateTime(txn.version[k])

\* Attempts made and left.
AttemptsCounted(call) ==
  /\ call.pc \in {"Idle", "Queued"} => call.remaining = MaxAttempts /\ call.runs = 0
  /\ call.pc \in {"Backoff", "Waiting"} => (call.runs + call.remaining) + 1 = MaxAttempts
  /\ call.pc \in {"Running", "Lookup", "Finished", "Committing", "Done"} =>
       call.runs + call.remaining = MaxAttempts
  /\ call.pc \in {"Running", "Lookup", "Finished", "Committing"} => call.runs > 0

\* Which attempts have been applied, and what the runner knows of the last one.
Known(call) ==
  /\ \A run \in call.applied : run <= call.runs
  /\ call.pc \in {"Running", "Lookup", "Finished"} => call.runs \notin call.applied
  /\ call.pc = "Committing" =>
       /\ call.reply = NoReply => call.runs \notin call.applied
       /\ call.reply.status = "OK" => call.runs \in call.applied
       /\ call.runs \in call.applied => call.reply.status \in {"OK", "Transient"}
  /\ call.pc \notin {"Lookup", "Committing"} => call.reply = NoReply
  /\ call.reply # NoReply => call.reply.status # "None"
  /\ call.pc = "Finished" => call.status # "None"

\* What an outcome says, for one call.
Told(call) ==
  call.pc = "Done" =>
    /\ call.status = "OK" => call.runs \in call.applied
    /\ call.status # "OK" /\ call.runs \in call.applied => call.status = "Transient"
    /\ call.status \in Retryable /\ ~call.permanent => call.remaining = 0

CallInv(call) ==
  /\ call \in CallRecords
  /\ Guarded(call.txn)
  /\ call.pc = "Lookup" => call.txn.mutations = <<>>
  /\ call.pc = "Committing" => ~call.txn.lastWriteError
  /\ AttemptsCounted(call)
  /\ Known(call)
  /\ Told(call)

\* The inductive invariant: types, and what is known of every call of runTransaction.
IInv ==
  /\ TypeOK
  /\ \A c \in Calls : CallInv(calls[c])
=============================================================================
