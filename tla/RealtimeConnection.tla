------------------------- MODULE RealtimeConnection -------------------------
(***************************************************************************)
(* The connection of the Realtime Database: FPersistentConnection, with    *)
(* its FIRRetryHelper and its FConnection.  Everything runs on one actor,  *)
(* DatabaseActor, in steps between two awaits; between the steps come the  *)
(* network's, those of Auth, of the application and of the timers.         *)
(*                                                                         *)
(* An operation is a call of putData or mergeData ("put"), a put with a    *)
(* hash ("transaction"), getDataAtPath ("get") or one of the onDisconnect  *)
(* functions ("onDisconnect"); the order of the calls is that of their     *)
(* indexes in outstandingPuts, in outstandingGets and in                   *)
(* onDisconnectQueue.  Assertions that the build drops do not stop a step; *)
(* ConnectionAssertions states them.                                       *)
(***************************************************************************)
EXTENDS Integers, Sequences, FiniteSets

CONSTANTS
  Kinds,             \* the kinds of operations the application calls
  MaxOperations,     \* bound: operations
  Queries,           \* queries listened to
  MaxListens,        \* bound: calls of listen
  MaxDisturbances,   \* bound: interrupts, lost connections, failed fetches, changes of
                     \* the token, purges and returns to the foreground
  StaleFailures      \* whether fetching a token may fail after a later attempt began

ASSUME ConnectionConstants ==
  /\ Kinds \subseteq {"put", "transaction", "get", "onDisconnect"}
  /\ {MaxOperations, MaxListens, MaxDisturbances} \subseteq Nat
  /\ IsFiniteSet(Queries)
  /\ StaleFailures \in BOOLEAN

VARIABLES
  connectionState,
  realtime,            \* state of the FConnection in realtime, or "None"
  interruptReasons,
  scheduledRetry,      \* the retry in FIRRetryHelper: none, or the token it asks for
  forceTokenRefreshes,
  fetch,               \* fetchContext of the latest attempt: none, forced, or its token
  staleFetches,        \* how many earlier attempts may still fail
  authToken,           \* a token is a number, none is NoToken
  operations,          \* operation -> its record
  listens,             \* query -> its FOutstandingQuery, by number, or NotListening
  unackedListens,
  requests, responses, \* on the connection: not yet processed, and answered
  accepted,            \* backend: the listens, by number, accepted on the connection
  log,                 \* backend: puts applied, in order
  token,               \* Auth: the current token
  revoked,             \* backend: the last token revoked
  listenCount, disturbances   \* history: how many so far

connectionVars == <<connectionState, realtime, interruptReasons, scheduledRetry,
                    forceTokenRefreshes, fetch, staleFetches, authToken>>
requestVars == <<operations, listens, unackedListens, requests, responses, accepted>>
outside == <<log, token, revoked>>
history == <<listenCount, disturbances>>
vars == <<connectionVars, requestVars, outside, history>>

Operations == 1 .. MaxOperations
NotListening == 0
NoToken == 0
NoFetch == -1
ForcedFetch == -2
Tokens == Nat

States == {"Disconnected", "GettingToken", "Connecting", "Authenticating", "Connected"}
Reasons == {"WaitingForOpen", "RepoInterrupt", "ServerKill"}
Outcomes == {"ok", "failed", "canceled", "disconnect"}
Outcome(ok) == IF ok THEN "ok" ELSE "failed"
\* Where an operation is: not yet called, waiting to be sent, sent, in putsToAck, gone.
Places == {"New", "Outstanding", "Sent", "ToAck", "Gone"}
Puts == {"put", "transaction"}
IsOutstandingPut(op) == op.kind \in Puts /\ op.place \in {"Outstanding", "Sent"}
Connected == connectionState \in {"Authenticating", "Connected"}

\* Fault: puts are sent before the connection is authenticated.
CanSendUnauthenticated == Connected

\* canSendWrites and canSendReads.
CanSend == connectionState = "Connected"

Auth(t, restore) == [kind |-> "auth", id |-> t, restore |-> restore]
Listen(n) == [kind |-> "listen", id |-> n, restore |-> FALSE]
Operation(o) == [kind |-> "operation", id |-> o, restore |-> FALSE]

\* "outcome" is what the completion of the operation was called with, or will be when
\* the listens are answered, and "told" how often it was called.
NewOperation ==
  [kind |-> "put", place |-> "New", timer |-> FALSE, outcome |-> "None", told |-> 0]
Told(op, outcome) ==
  [op EXCEPT !.place = "Gone", !.outcome = outcome, !.told = @ + 1]

\* The task that the initializer starts has interrupted the connection: open comes in a
\* later task, FRepo.deferredInit.
Init ==
  /\ connectionState = "Disconnected" /\ realtime = "None"
  /\ interruptReasons = {"WaitingForOpen"}
  /\ scheduledRetry = "None" /\ forceTokenRefreshes = FALSE
  /\ fetch = NoFetch /\ staleFetches = 0 /\ authToken = NoToken
  /\ operations = [o \in Operations |-> NewOperation]
  /\ listens = [q \in Queries |-> NotListening] /\ unackedListens = 0
  /\ requests = <<>> /\ responses = <<>> /\ accepted = {}
  /\ log = <<>> /\ token \in {NoToken, 1} /\ revoked = 0
  /\ listenCount = 0 /\ disturbances = 0

Disturbance ==
  disturbances < MaxDisturbances /\ disturbances' = disturbances + 1 /\ UNCHANGED listenCount

-----------------------------------------------------------------------------
(* Connecting.                                                             *)

\* tryScheduleReconnect and FIRRetryHelper.retry, which replaces a scheduled retry.
TryScheduleReconnect(force) ==
  IF interruptReasons' = {}
  THEN /\ scheduledRetry' = IF force THEN "Forced" ELSE "Cached"
       /\ forceTokenRefreshes' = FALSE
  ELSE UNCHANGED scheduledRetry /\ forceTokenRefreshes' = force

\* Fault: sent transactions wait for the next connection like other puts.
SentTransactionsKept == operations

\* cancelSentTransactions.
SentTransactionsCanceled ==
  [o \in Operations |->
     IF operations[o].kind = "transaction" /\ operations[o].place = "Sent"
     THEN Told(operations[o], "disconnect") ELSE operations[o]]

\* Fault: unackedListentsCount still counts the listens of the lost connection.
DisconnectsCountingListens(force) ==
  /\ connectionState' = "Disconnected" /\ realtime' = "None"
  /\ operations' = SentTransactionsCanceled
  /\ requests' = <<>> /\ responses' = <<>> /\ accepted' = {}
  /\ TryScheduleReconnect(force)
  /\ UNCHANGED <<fetch, staleFetches, listens, unackedListens>>

\* FConnection.close and onDisconnect.
Disconnects(force) ==
  /\ connectionState' = "Disconnected" /\ realtime' = "None"
  /\ operations' = SentTransactionsCanceled
  /\ requests' = <<>> /\ responses' = <<>> /\ accepted' = {}
  /\ unackedListens' = 0
  /\ TryScheduleReconnect(force)
  /\ UNCHANGED <<fetch, staleFetches, listens>>

\* FIRRetryHelper.cancel and the state, where there is no connection to close.
CancelsRetry ==
  /\ connectionState' = "Disconnected" /\ scheduledRetry' = "None"
  /\ UNCHANGED <<realtime, forceTokenRefreshes, fetch, staleFetches, requestVars>>

\* interruptForReason.
Interrupt(reason) ==
  /\ interruptReasons' = interruptReasons \cup {reason}
  /\ IF realtime # "None" THEN Disconnects(forceTokenRefreshes) ELSE CancelsRetry
  /\ UNCHANGED authToken

\* resumeForReason.
Resume(reason) ==
  /\ reason \in interruptReasons
  /\ interruptReasons' = interruptReasons \ {reason}
  /\ IF connectionState = "Disconnected" THEN TryScheduleReconnect(forceTokenRefreshes)
     ELSE UNCHANGED <<scheduledRetry, forceTokenRefreshes>>
  /\ UNCHANGED <<connectionState, realtime, fetch, staleFetches, authToken, requestVars,
                 outside, history>>

Open == Resume("WaitingForOpen")
GoOnline == Resume("RepoInterrupt")

GoOffline ==
  /\ "RepoInterrupt" \notin interruptReasons
  /\ Disturbance
  /\ Interrupt("RepoInterrupt")
  /\ UNCHANGED outside

\* FConnection.onConnectionShutdownWithReason, onKill; the message may come in place of
\* the handshake.
ServerKills ==
  /\ realtime # "None"
  /\ Disturbance
  /\ Interrupt("ServerKill")
  /\ UNCHANGED outside

\* A change of the system clock interrupts and resumes in one task.
SystemClockChanges ==
  /\ Disturbance
  /\ UNCHANGED <<interruptReasons, authToken, outside>>
  /\ \/ realtime # "None" /\ Disconnects(forceTokenRefreshes)
     \/ realtime = "None" /\ interruptReasons # {} /\ CancelsRetry
     \/ /\ realtime = "None" /\ interruptReasons = {}
        /\ connectionState' = "Disconnected" /\ TryScheduleReconnect(forceTokenRefreshes)
        /\ UNCHANGED <<realtime, fetch, staleFetches, requestVars>>

EnteringForeground ==
  /\ Disturbance
  /\ connectionState = "Disconnected"
  /\ UNCHANGED interruptReasons
  /\ TryScheduleReconnect(forceTokenRefreshes)
  /\ UNCHANGED <<connectionState, realtime, fetch, staleFetches, authToken, requestVars,
                 outside>>

\* The block of tryScheduleReconnect: a new attempt to fetch a token.  Should an earlier
\* one succeed, its token is ignored.
RetryFires ==
  /\ scheduledRetry # "None"
  /\ scheduledRetry' = "None"
  /\ connectionState' = "GettingToken"
  /\ fetch' = IF scheduledRetry = "Forced" THEN ForcedFetch ELSE token
  /\ staleFetches' = staleFetches + (IF StaleFailures /\ fetch # NoFetch THEN 1 ELSE 0)
  /\ UNCHANGED <<realtime, interruptReasons, forceTokenRefreshes, authToken, requestVars,
                 outside, history>>

\* openNetworkConnection.  An FConnection that is still in realtime is released.
OpenNetworkConnection(t) ==
  /\ authToken' = t
  /\ connectionState' = "Connecting" /\ realtime' = "Connecting"
  /\ requests' = <<>> /\ responses' = <<>> /\ accepted' = {}
  /\ UNCHANGED <<operations, listens, unackedListens>>

\* Fault: the connection opens although it was interrupted meanwhile.
TokenArrivesAnyway(t) == OpenNetworkConnection(t)

\* Once a token arrives for the latest attempt: someone may have interrupted it meanwhile.
TokenArrives(t) ==
  IF connectionState = "GettingToken" THEN OpenNetworkConnection(t)
  ELSE UNCHANGED <<connectionState, realtime, authToken, requestVars>>

\* The token of the latest attempt; a forced refresh replaces a token that is revoked.
Fetched ==
  CASE fetch # ForcedFetch -> fetch
    [] fetch = ForcedFetch /\ token \in 1 .. revoked -> revoked + 1
    [] OTHER -> token

FetchSucceeds ==
  /\ fetch # NoFetch
  /\ fetch' = NoFetch
  /\ token' = IF fetch = ForcedFetch THEN Fetched ELSE token
  /\ TokenArrives(Fetched)
  /\ UNCHANGED <<interruptReasons, scheduledRetry, forceTokenRefreshes, staleFetches, log,
                 revoked, history>>

\* The catch clause, which does not ask which attempt it was that failed.
FetchFails ==
  /\ \E stale \in {FALSE, StaleFailures} :
       /\ IF stale THEN staleFetches > 0 ELSE fetch # NoFetch
       /\ fetch' = IF stale THEN fetch ELSE NoFetch
       /\ staleFetches' = IF stale THEN staleFetches - 1 ELSE staleFetches
  /\ Disturbance
  /\ connectionState' = "Disconnected"
  /\ UNCHANGED interruptReasons
  /\ TryScheduleReconnect(forceTokenRefreshes)
  /\ UNCHANGED <<realtime, authToken, requestVars, outside>>

\* The connection is lost, or could not be opened, or the backend resets it.
ConnectionLost ==
  /\ realtime # "None"
  /\ Disturbance
  /\ UNCHANGED interruptReasons
  /\ Disconnects(forceTokenRefreshes)
  /\ UNCHANGED <<authToken, outside>>

-----------------------------------------------------------------------------
(* Sending.                                                                *)

\* What restoreState sends: all outstandingPuts, and the gets and the onDisconnectQueue
\* that were not sent.
ToRestore ==
  {o \in Operations : operations[o].place = "Outstanding" \/ IsOutstandingPut(operations[o])}

\* Its order: the puts, the gets and the onDisconnectQueue, each by index.
Rank(kind) == CASE kind \in Puts -> 1 [] kind = "get" -> 2 [] kind = "onDisconnect" -> 3
Before(o, p) ==
  \/ Rank(operations[o].kind) < Rank(operations[p].kind)
  \/ Rank(operations[o].kind) = Rank(operations[p].kind) /\ o < p
InOrder(S) ==
  {s \in [1 .. Cardinality(S) -> S] :
     \A i, j \in 1 .. Cardinality(S) : i < j => Before(s[i], s[j])}

\* The listens come first; a dictionary has its keys in any order.
Listening == {q \in Queries : listens[q] # NotListening}
AnyOrder(S) ==
  {s \in [1 .. Cardinality(S) -> S] : \A i, j \in 1 .. Cardinality(S) : i < j => s[i] # s[j]}

OutstandingSent ==
  [o \in Operations |->
     IF operations[o].place = "Outstanding" THEN [operations[o] EXCEPT !.place = "Sent"]
     ELSE operations[o]]

\* Fault: the listens of the connections before are forgotten.
RestoreOperations ==
  /\ connectionState' = "Connected"
  /\ \E ops \in InOrder(ToRestore) :
       requests' = requests \o [i \in DOMAIN ops |-> Operation(ops[i])]
  /\ operations' = OutstandingSent
  /\ UNCHANGED unackedListens

RestoreState ==
  /\ connectionState' = "Connected"
  /\ \E active \in AnyOrder(Listening), ops \in InOrder(ToRestore) :
       requests' = requests \o [i \in DOMAIN active |-> Listen(listens[active[i]])]
                            \o [i \in DOMAIN ops |-> Operation(ops[i])]
  /\ unackedListens' = unackedListens + Cardinality(Listening)
  /\ operations' = OutstandingSent

\* FConnection.onHandshake, onReady and restoreAuth.
Handshake ==
  /\ realtime = "Connecting"
  /\ realtime' = "Connected"
  /\ IF authToken = NoToken THEN RestoreState
     ELSE /\ connectionState' = "Authenticating"
          /\ requests' = Append(requests, Auth(authToken, TRUE))
          /\ UNCHANGED <<unackedListens, operations>>
  /\ UNCHANGED <<interruptReasons, scheduledRetry, forceTokenRefreshes, fetch, staleFetches,
                 authToken, listens, responses, accepted, outside, history>>

\* Fault: no token is sent like a token.
RefreshAnyToken(t) ==
  /\ authToken' = t
  /\ requests' = IF Connected THEN Append(requests, Auth(t, FALSE)) ELSE requests

\* refreshAuthToken.  Unauthenticating is not answered.
RefreshAuthToken(t) ==
  /\ authToken' = t
  /\ requests' = IF Connected /\ t # NoToken THEN Append(requests, Auth(t, FALSE)) ELSE requests

\* The user signs in or out, or Auth tells of a token it has refreshed.
AuthChanges ==
  /\ Disturbance
  /\ token' \in {NoToken, revoked + 1}
  /\ RefreshAuthToken(token')
  /\ UNCHANGED <<connectionState, realtime, interruptReasons, scheduledRetry,
                 forceTokenRefreshes, fetch, staleFetches, operations, listens,
                 unackedListens, responses, accepted, log, revoked>>

TokenRevoked ==
  /\ token > revoked
  /\ Disturbance
  /\ revoked' = token
  /\ UNCHANGED <<connectionVars, requestVars, log, token>>

\* Fault: the refresh is not forced.
RejectsTokenKeepingCache ==
  /\ authToken' = NoToken
  /\ UNCHANGED interruptReasons
  /\ Disconnects(forceTokenRefreshes)

\* The token is given up and the connection closed, to get a fresh one.
RejectsToken ==
  /\ authToken' = NoToken
  /\ UNCHANGED interruptReasons
  /\ Disconnects(TRUE)

\* onAuthRevokedWithStatus: about the token sent last, or about an earlier one.
AuthRevoked ==
  /\ realtime = "Connected" /\ revoked > 0
  /\ IF authToken \in 1 .. revoked THEN UNCHANGED history ELSE Disturbance
  /\ RejectsToken
  /\ UNCHANGED outside

-----------------------------------------------------------------------------
(* Operations and listens.                                                 *)

\* putInternal, getDataAtPath, and the onDisconnect functions.  A get that finds no
\* connection starts a timer.
Call(o, kind) ==
  /\ operations[o].place = "New"
  /\ \A p \in 1 .. o - 1 : operations[p].place # "New"
  /\ operations' = [operations EXCEPT ![o] =
       [NewOperation EXCEPT !.kind = kind, !.place = IF CanSend THEN "Sent" ELSE "Outstanding",
                            !.timer = kind = "get" /\ ~Connected]]
  /\ requests' = IF CanSend THEN Append(requests, Operation(o)) ELSE requests
  /\ UNCHANGED <<connectionVars, listens, unackedListens, responses, accepted, outside,
                 history>>

GetTimesOut(o) ==
  /\ operations[o].timer
  /\ operations' = [operations EXCEPT ![o] =
       IF operations[o].place = "Outstanding" THEN [Told(@, "failed") EXCEPT !.timer = FALSE]
       ELSE [@ EXCEPT !.timer = FALSE]]
  /\ UNCHANGED <<connectionVars, listens, unackedListens, requests, responses, accepted,
                 outside, history>>

\* listen and sendListen.
ListenTo(q) ==
  /\ listens[q] = NotListening
  /\ listenCount < MaxListens /\ listenCount' = listenCount + 1
  /\ listens' = [listens EXCEPT ![q] = listenCount']
  /\ IF Connected
     THEN /\ requests' = Append(requests, Listen(listenCount'))
          /\ unackedListens' = unackedListens + 1
     ELSE UNCHANGED <<requests, unackedListens>>
  /\ UNCHANGED <<connectionVars, operations, responses, accepted, outside, disturbances>>

\* unlisten, whose request nothing waits for the answer of, and onListenRevoked.
Unlisten(q) ==
  /\ listens[q] # NotListening
  /\ listens' = [listens EXCEPT ![q] = NotListening]
  /\ UNCHANGED <<connectionVars, operations, unackedListens, requests, responses, accepted,
                 outside, history>>

\* Fault: the operations that were canceled are kept.
PurgedInPlace(op) ==
  IF IsOutstandingPut(op) THEN [Told(op, "canceled") EXCEPT !.place = op.place] ELSE op

\* purgeOutstandingWrites.
Purged(op) ==
  CASE op.place = "ToAck" -> Told(op, op.outcome)
    [] IsOutstandingPut(op) \/ (op.kind = "onDisconnect" /\ op.place = "Outstanding") ->
         Told(op, "canceled")
    [] OTHER -> op

PurgeOutstandingWrites ==
  /\ Disturbance
  /\ operations' = [o \in Operations |-> Purged(operations[o])]
  /\ UNCHANGED <<connectionVars, listens, unackedListens, requests, responses, accepted,
                 outside>>

-----------------------------------------------------------------------------
(* The backend answers the requests of a connection in order.              *)

Verdicts(request) ==
  IF request.kind = "auth" THEN {request.id > revoked} ELSE BOOLEAN

ServerAnswers ==
  /\ requests # <<>>
  /\ requests' = Tail(requests)
  /\ \E ok \in Verdicts(Head(requests)) :
       /\ responses' = Append(responses, [request |-> Head(requests), ok |-> ok])
       /\ accepted' = IF ok /\ Head(requests).kind = "listen"
                      THEN accepted \cup {Head(requests).id} ELSE accepted
       /\ log' = IF ok /\ Head(requests).kind = "operation"
                       /\ operations[Head(requests).id].kind \in Puts
                 THEN Append(log, Head(requests).id) ELSE log
  /\ UNCHANGED <<connectionVars, operations, listens, unackedListens, token, revoked, history>>

\* The callback of sendAuthAndRestoreStateAfterComplete.
AuthAnswered(response) ==
  IF ~response.ok
  THEN RejectsToken
  ELSE /\ IF response.request.restore THEN RestoreState
          ELSE connectionState' = "Connected" /\ UNCHANGED <<requests, unackedListens, operations>>
       /\ responses' = Tail(responses)
       /\ UNCHANGED <<realtime, interruptReasons, scheduledRetry, forceTokenRefreshes, fetch,
                      staleFetches, authToken, listens, accepted>>

\* The callbacks of sendPut, sendGet and sendOnDisconnectAction.  One that was purged or
\* canceled is ignored; puts wait for the answers to the listens.  A success carries no
\* reason, and without one the completion of an onDisconnect function is not called.
OperationAnswered(o, ok) ==
  /\ operations' = [operations EXCEPT ![o] =
       CASE @.place # "Sent" -> @
         [] @.place = "Sent" /\ @.kind \in Puts /\ unackedListens # 0 ->
              [@ EXCEPT !.place = "ToAck", !.outcome = Outcome(ok)]
         [] @.place = "Sent" /\ @.kind = "onDisconnect" /\ ok -> [@ EXCEPT !.place = "Gone"]
         [] OTHER -> Told(@, Outcome(ok))]
  /\ UNCHANGED <<listens, unackedListens>>

\* ackPuts.
PutsAcked ==
  [o \in Operations |-> IF operations[o].place = "ToAck"
                        THEN Told(operations[o], operations[o].outcome) ELSE operations[o]]

\* The callback of sendListen.
ListenAnswered(n, ok) ==
  /\ listens' = [q \in Queries |->
       IF listens[q] = n /\ ~ok THEN NotListening ELSE listens[q]]
  /\ unackedListens' = unackedListens - 1
  /\ operations' = IF unackedListens' = 0
                   THEN PutsAcked ELSE operations

\* onDataMessage, for an answer.
Receives ==
  /\ responses # <<>>
  /\ LET response == Head(responses)
         request == response.request IN
     \/ request.kind = "auth" /\ AuthAnswered(response)
     \/ /\ \/ request.kind = "operation" /\ OperationAnswered(request.id, response.ok)
           \/ request.kind = "listen" /\ ListenAnswered(request.id, response.ok)
        /\ responses' = Tail(responses)
        /\ UNCHANGED <<connectionVars, requests, accepted>>
  /\ UNCHANGED <<outside, history>>

-----------------------------------------------------------------------------

Fetches == FetchSucceeds \/ FetchFails
Network == Handshake \/ ServerAnswers \/ Receives

Next ==
  \/ Open \/ GoOnline \/ GoOffline \/ ServerKills \/ SystemClockChanges \/ EnteringForeground
  \/ RetryFires \/ Fetches \/ Network \/ ConnectionLost
  \/ AuthChanges \/ TokenRevoked \/ AuthRevoked \/ PurgeOutstandingWrites
  \/ \E o \in Operations : GetTimesOut(o) \/ \E kind \in Kinds : Call(o, kind)
  \/ \E q \in Queries : ListenTo(q) \/ Unlisten(q)

Spec == Init /\ [][Next]_vars

\* The actor runs what is due, and tokens, connections and answers arrive unless the
\* connection is lost.
Fairness ==
  /\ WF_vars(Open) /\ WF_vars(RetryFires) /\ WF_vars(FetchSucceeds \/ FetchFails)
  /\ WF_vars(Handshake) /\ WF_vars(ServerAnswers) /\ WF_vars(Receives)
  /\ \A o \in Operations : WF_vars(GetTimesOut(o))

FairSpec == Spec /\ Fairness

-----------------------------------------------------------------------------
(* Properties.                                                             *)

RequestRecords ==
       [kind : {"auth"}, id : Nat \ {NoToken}, restore : BOOLEAN]
  \cup [kind : {"listen"}, id : Nat \ {NotListening}, restore : {FALSE}]
  \cup [kind : {"operation"}, id : Operations, restore : {FALSE}]

OperationRecords ==
  [kind : Kinds \cup {"put"}, place : Places, timer : BOOLEAN,
   outcome : Outcomes \cup {"None"}, told : Nat]

ConnectionTypeOK ==
  /\ connectionState \in States /\ realtime \in {"None", "Connecting", "Connected"}
  /\ interruptReasons \subseteq Reasons
  /\ scheduledRetry \in {"None", "Cached", "Forced"} /\ forceTokenRefreshes \in BOOLEAN
  /\ fetch \in Tokens \cup {NoFetch, ForcedFetch} /\ staleFetches \in Nat
  /\ authToken \in Tokens

RequestsTypeOK ==
  /\ operations \in [Operations -> OperationRecords]
  /\ listens \in [Queries -> Nat] /\ unackedListens \in Nat
  /\ requests \in Seq(RequestRecords)
  /\ responses \in Seq([request : RequestRecords, ok : BOOLEAN])

\* The variables have their types: above all, an auth is sent only with a token (the
\* assertion of sendAuthAndRestoreStateAfterComplete, "Can't send auth if there is no
\* credential").
TypeOK ==
  /\ ConnectionTypeOK
  /\ RequestsTypeOK
  /\ accepted \subseteq Nat
  /\ token \in Tokens /\ revoked \in Nat /\ log \in Seq(Operations)
  /\ listenCount \in Nat /\ disturbances \in Nat

Applied == {log[i] : i \in DOMAIN log}
Wire == [i \in DOMAIN responses |-> responses[i].request] \o requests
Times(request) == Cardinality({i \in DOMAIN Wire : Wire[i] = request})

\* The assertions of the block of tryScheduleReconnect, of restoreAuth and of sendPut, and
\* the fatal error of FConnection.sendData: a retry fires and a token arrives only while
\* there is no connection, and requests are sent only on one that is open.
ConnectionAssertions ==
  /\ scheduledRetry # "None" => connectionState = "Disconnected"
  /\ fetch # NoFetch => connectionState \in {"Disconnected", "GettingToken"}
  /\ realtime = "Connecting" => connectionState = "Connecting"
  /\ Connected => realtime = "Connected"

\* While connected, every outstanding put is on the wire exactly once, no get and no
\* onDisconnect waits to be sent, and every listen is on the wire or accepted by the
\* backend on this very connection (putInternal, listen, restoreState).
OutstandingOnTheWire ==
  connectionState = "Connected" =>
    /\ \A o \in Operations :
         /\ operations[o].place # "Outstanding"
         /\ IsOutstandingPut(operations[o]) => Times(Operation(o)) = 1
    /\ \A q \in Listening :
         listens[q] \in accepted \/ \E i \in DOMAIN Wire : Wire[i] = Listen(listens[q])

\* unackedListentsCount is the number of listens on the wire, and never negative: a put
\* answered meanwhile waits for the answers to listens of this connection, and for no
\* other.  It says nothing of a put in putsToAck when the connection is lost.
ListensCounted ==
  unackedListens = Cardinality({i \in DOMAIN Wire : Wire[i].kind = "listen"})

\* A transaction is applied once at most: its hash stands for the data its update was
\* computed from, so cancelSentTransactions lets none be sent again.
TransactionsAppliedOnce ==
  \A i, j \in DOMAIN log :
    log[i] = log[j] /\ operations[log[i]].kind = "transaction" => i = j

\* Once the backend has accepted a put, no earlier one is applied after it, although puts
\* are sent again on every new connection (the order of restoreState).
LaterPutWins ==
  \A p \in Operations :
    operations[p].kind \in Puts /\ operations[p].outcome = "ok" =>
      \A i \in DOMAIN log : log[i] < p => \E j \in DOMAIN log : i < j /\ log[j] = p

\* The completion of an operation is called once at most (a continuation that is resumed
\* twice stops the program), and with "ok" only for a put the backend has applied.
ToldOnceAndTruly ==
  \A o \in Operations :
    /\ operations[o].told <= 1
    /\ operations[o].kind \in Puts /\ operations[o].outcome = "ok" => o \in Applied

\* If the connection is not interrupted for ever, every put is answered.
PutsSettle ==
  <>[](interruptReasons = {}) =>
    \A o \in Operations : IsOutstandingPut(operations[o]) ~> ~IsOutstandingPut(operations[o])
=============================================================================
