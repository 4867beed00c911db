-------------------------- MODULE RealtimeInvariant --------------------------
(***************************************************************************)
(* The inductive invariant of RealtimeConnection, if fetching a token does *)
(* not fail late.                                                          *)
(***************************************************************************)
EXTENDS RealtimeConnection

\* The connection is open exactly while there is something to ask of it, and a request
\* or an answer is of the open connection.
ConnectionInv ==
  /\ ConnectionAssertions
  /\ staleFetches = 0
  /\ realtime = "Connected" => Connected
  /\ realtime # "Connected" => requests = <<>> /\ responses = <<>>

\* While authenticating, and only then, restoreAuth's request is the first on the wire.
AuthFirst ==
  /\ connectionState = "Authenticating" => responses # <<>> \/ requests # <<>>
  /\ \A i \in DOMAIN responses :
       responses[i].request.restore <=> connectionState = "Authenticating" /\ i = 1
  /\ \A i \in DOMAIN requests :
       requests[i].restore <=>
         connectionState = "Authenticating" /\ i = 1 /\ responses = <<>>

\* An operation that was not sent is unknown to the backend.
Unsent(o) == operations[o].place \in {"New", "Outstanding"}
IsTransaction(o) == operations[o].kind = "transaction"

OperationsInv ==
  /\ \A i \in DOMAIN requests : requests[i].kind = "operation" =>
       operations[requests[i].id].place # "New"
  /\ \A i \in DOMAIN responses : responses[i].request.kind = "operation" =>
       operations[responses[i].request.id].place # "New"
  /\ \A i \in DOMAIN log : operations[log[i]].place # "New"

\* A transaction is sent once, and only on the connection it was sent on.
TransactionsInv ==
  /\ \A o \in Operations : IsTransaction(o) /\ operations[o].place = "Sent" =>
       connectionState = "Connected"
  /\ \A i \in DOMAIN requests : requests[i].kind = "operation" /\ IsTransaction(requests[i].id) =>
       /\ ~Unsent(requests[i].id)
       /\ \A j \in DOMAIN requests : requests[j] = requests[i] => j = i
       /\ \A j \in DOMAIN log : log[j] # requests[i].id
  /\ \A i \in DOMAIN log : IsTransaction(log[i]) =>
       /\ ~Unsent(log[i])
       /\ \A j \in DOMAIN log : log[j] = log[i] => j = i

\* What a completion was, or will be, called with.
ToldOnce(op) ==
  /\ op.place # "Gone" => op.told = 0
  /\ op.place \in {"New", "Outstanding", "Sent"} => op.outcome = "None"
  /\ op.place = "ToAck" => op.outcome \in {"ok", "failed"}
  /\ op.told <= 1

ToldInv ==
  /\ \A o \in Operations :
       /\ ToldOnce(operations[o])
       /\ operations[o].kind \in Puts /\ operations[o].outcome = "ok" => o \in Applied
  /\ \A i \in DOMAIN responses :
       /\ responses[i].ok /\ responses[i].request.kind = "operation"
       /\ operations[responses[i].request.id].kind \in Puts
       => responses[i].request.id \in Applied

IInv ==
  /\ TypeOK
  /\ ConnectionInv
  /\ AuthFirst
  /\ OperationsInv
  /\ TransactionsInv
  /\ ToldInv
  /\ ListensCounted
=============================================================================
