---------------------------- MODULE RealtimeOrder ----------------------------
(***************************************************************************)
(* The inductive invariant behind the order of puts.  RealtimeInvariant    *)
(* follows single requests; the invariant below is about all that are on   *)
(* the wire of a connection, and about what the backend has applied for    *)
(* this connection and those before it.                                    *)
(***************************************************************************)
EXTENDS RealtimeInvariant

IsPutRequest(r) == r.kind = "operation" /\ operations[r.id].kind \in Puts

\* The backend has accepted a put, and the client knows.
Accepted(p) == operations[p].kind \in Puts /\ operations[p].outcome = "ok"

\* No earlier operation was applied after the last time p was.
AppliedAfterEarlier(p) ==
  \A i \in DOMAIN log : log[i] < p => \E j \in DOMAIN log : i < j /\ log[j] = p

\* Operations are called in the order of their indexes.
CalledInOrder ==
  \A o, p \in Operations : o < p /\ operations[o].place = "New" => operations[p].place = "New"

\* Operations are sent once the state is restored.
SentWhenConnected ==
  connectionState # "Connected" => \A i \in DOMAIN Wire : Wire[i].kind # "operation"

\* The puts on the wire are in the order they were called.
PutsOnWireInOrder ==
  \A i, j \in DOMAIN Wire :
    i < j /\ IsPutRequest(Wire[i]) /\ IsPutRequest(Wire[j]) => Wire[i].id < Wire[j].id

\* While connected nothing waits to be sent, and an outstanding put is on the wire.
NothingWaits ==
  connectionState = "Connected" =>
    \A o \in Operations :
      /\ operations[o].place # "Outstanding"
      /\ IsOutstandingPut(operations[o]) => \E i \in DOMAIN Wire : Wire[i] = Operation(o)

\* What comes before an accepted put is neither on the wire nor to be sent again.
NothingEarlierFollows ==
  \A p \in Operations : Accepted(p) =>
    /\ \A o \in Operations : o < p => ~IsOutstandingPut(operations[o])
    /\ \A i \in DOMAIN Wire : IsPutRequest(Wire[i]) => p < Wire[i].id

\* The client will learn that a put was accepted only if that is the latest word.
AnswersAreLatest ==
  \A i \in DOMAIN responses :
    responses[i].ok /\ IsPutRequest(responses[i].request) =>
      AppliedAfterEarlier(responses[i].request.id)

\* The backend has accepted a listen before the client learns of it.
AnswersAccepted ==
  \A i \in DOMAIN responses :
    responses[i].ok /\ responses[i].request.kind = "listen" =>
      responses[i].request.id \in accepted

\* While connected, every listen is on the wire, or the backend has accepted it.
ListensReachBackend ==
  connectionState = "Connected" =>
    \A q \in Listening :
      listens[q] \in accepted \/ \E i \in DOMAIN Wire : Wire[i] = Listen(listens[q])

ListensInv == AnswersAccepted /\ ListensReachBackend

WireOrderInv ==
  /\ CalledInOrder
  /\ SentWhenConnected
  /\ PutsOnWireInOrder
  /\ NothingWaits
  /\ NothingEarlierFollows
  /\ AnswersAreLatest
  /\ LaterPutWins

\* The invariants together: of the requests one by one, of their order on the wire, and of
\* the listens, where the code resends puts and listens (restoreState, putInternal,
\* sendPut, sendListen).
WireInv == IInv /\ WireOrderInv /\ ListensInv
=============================================================================
