------------------------- MODULE RealtimeOrderProofs -------------------------
(***************************************************************************)
(* Proofs about the order of puts in RealtimeConnection, for any number of *)
(* operations, queries, listens and disturbances, if fetching a token does *)
(* not fail late.  Every step has one of the effects below on the wire,    *)
(* the operations and the backend's log; each effect preserves             *)
(* WireOrderInv.  ListensInv, about the listens, is preserved step by step.*)
(***************************************************************************)
EXTENDS RealtimeOrder, RealtimeProofs

-----------------------------------------------------------------------------
(* The wire.                                                               *)

LEMMA WireType ==
  ASSUME RequestsTypeOK
  PROVE  /\ Wire \in Seq(RequestRecords) /\ Len(Wire) \in Nat /\ DOMAIN Wire = 1 .. Len(Wire)
         /\ \A i \in DOMAIN Wire : Wire[i] \in RequestRecords
         /\ Wire = AnsweredOf(responses) \o requests
         /\ AnsweredOf(responses) \in Seq(RequestRecords)
         /\ responses \in Seq(ResponseRecords) /\ requests \in Seq(RequestRecords)
<1>1. requests \in Seq(RequestRecords) /\ responses \in Seq(ResponseRecords)
  BY RequestTypes
<1>2. AnsweredOf(responses) \in Seq(RequestRecords)
  BY <1>1, AnsweredType
<1>3. Wire = AnsweredOf(responses) \o requests
  BY DEF Wire, AnsweredOf
<1>4. Wire \in Seq(RequestRecords)
  BY <1>1, <1>2, <1>3, ConcatProperties
<1> HIDE DEF Wire
<1>5. Len(Wire) \in Nat /\ DOMAIN Wire = 1 .. Len(Wire)
      /\ \A i \in DOMAIN Wire : Wire[i] \in RequestRecords
  BY <1>4, LenProperties, ElementOfSeq
<1> QED BY <1>1, <1>2, <1>3, <1>4, <1>5

\* The answers come first, and then the requests.
LEMMA JoinedParts ==
  ASSUME NEW rs \in Seq(ResponseRecords), NEW qs \in Seq(RequestRecords)
  PROVE  LET w == AnsweredOf(rs) \o qs IN
         /\ Len(rs) \in Nat /\ Len(qs) \in Nat
         /\ DOMAIN rs = 1 .. Len(rs) /\ DOMAIN qs = 1 .. Len(qs)
         /\ w \in Seq(RequestRecords) /\ Len(w) = Len(rs) + Len(qs)
         /\ \A i \in DOMAIN rs : i \in DOMAIN w /\ w[i] = rs[i].request
         /\ \A i \in DOMAIN qs : Len(rs) + i \in DOMAIN w /\ w[Len(rs) + i] = qs[i]
         /\ \A i \in DOMAIN w :
              \/ i \in DOMAIN rs /\ w[i] = rs[i].request
              \/ i - Len(rs) \in DOMAIN qs /\ w[i] = qs[i - Len(rs)]
<1> DEFINE m == Len(rs)
           n == Len(qs)
           a == AnsweredOf(rs)
           w == a \o qs
<1>1. /\ m \in Nat /\ n \in Nat /\ DOMAIN rs = 1 .. m /\ DOMAIN qs = 1 .. n
  BY LenProperties
<1>2. a \in Seq(RequestRecords) /\ Len(a) = m /\ \A i \in 1 .. m : a[i] = rs[i].request
  BY AnsweredType
<1> HIDE DEF a, m, n
<1>3. /\ w \in Seq(RequestRecords) /\ Len(w) = m + n
      /\ \A i \in 1 .. m + n : w[i] = IF i <= m THEN a[i] ELSE qs[i - m]
  BY <1>2, ConcatProperties DEF n
<1> HIDE DEF w
<1>4. DOMAIN w = 1 .. m + n
  BY <1>3, LenProperties
<1>5. ASSUME NEW i \in 1 .. m
      PROVE  i \in 1 .. m + n /\ w[i] = rs[i].request
  BY <1>1, <1>2, <1>3
<1>6. ASSUME NEW i \in 1 .. n
      PROVE  m + i \in 1 .. m + n /\ w[m + i] = qs[i]
  <2>1. m + i \in 1 .. m + n /\ ~(m + i <= m) /\ (m + i) - m = i
    BY <1>1
  <2> QED BY <1>3, <2>1
<1>7. ASSUME NEW i \in 1 .. m + n
      PROVE  \/ i \in 1 .. m /\ w[i] = rs[i].request
             \/ i - m \in 1 .. n /\ w[i] = qs[i - m]
  <2>1. CASE i <= m
    <3>1. i \in 1 .. m
      BY <1>1, <2>1
    <3> QED BY <1>5, <3>1
  <2>2. CASE ~(i <= m)
    <3>1. i - m \in 1 .. n
      BY <1>1, <2>2
    <3> QED BY <1>3, <2>2, <3>1
  <2> QED BY <2>1, <2>2
<1> QED BY <1>1, <1>3, <1>4, <1>5, <1>6, <1>7 DEF w, a, m, n

LEMMA WireParts ==
  ASSUME RequestsTypeOK
  PROVE  /\ Len(responses) \in Nat /\ Len(requests) \in Nat
         /\ DOMAIN responses = 1 .. Len(responses) /\ DOMAIN requests = 1 .. Len(requests)
         /\ \A i \in DOMAIN responses : i \in DOMAIN Wire /\ Wire[i] = responses[i].request
         /\ \A i \in DOMAIN requests :
              Len(responses) + i \in DOMAIN Wire /\ Wire[Len(responses) + i] = requests[i]
         /\ \A i \in DOMAIN Wire :
              \/ i \in DOMAIN responses
              \/ i - Len(responses) \in DOMAIN requests
<1>1. /\ responses \in Seq(ResponseRecords) /\ requests \in Seq(RequestRecords)
      /\ Wire = AnsweredOf(responses) \o requests
  BY WireType
<1> HIDE DEF Wire
<1> QED BY <1>1, JoinedParts

\* A request is sent.
LEMMA WireSent ==
  ASSUME RequestsTypeOK, NEW r \in RequestRecords, requests' = Append(requests, r),
         responses' = responses
  PROVE  Wire' = Append(Wire, r)
<1> DEFINE a == AnsweredOf(responses)
<1>1. a \in Seq(RequestRecords) /\ requests \in Seq(RequestRecords) /\ Wire = a \o requests
      /\ Wire \in Seq(RequestRecords)
  BY WireType
<1>2. Wire' = a \o Append(requests, r)
  BY DEF Wire, AnsweredOf
<1> HIDE DEF a, Wire
<1>3. Append(requests, r) = requests \o <<r>> /\ Append(Wire, r) = Wire \o <<r>>
      /\ <<r>> \in Seq(RequestRecords)
  BY <1>1, AppendIsConcat
<1>4. a \o (requests \o <<r>>) = (a \o requests) \o <<r>>
  BY <1>1, <1>3, ConcatAssociative
<1> QED BY <1>1, <1>2, <1>3, <1>4, Zenon

\* A request is answered, and stays on the wire.
LEMMA WireAnswered ==
  ASSUME RequestsTypeOK, requests # <<>>, NEW ok \in BOOLEAN, requests' = Tail(requests),
         responses' = Append(responses, [request |-> Head(requests), ok |-> ok])
  PROVE  Wire' = Wire
<1> DEFINE a == AnsweredOf(responses)
           x == [request |-> Head(requests), ok |-> ok]
           r == Head(requests)
           t == Tail(requests)
<1>1. a \in Seq(RequestRecords) /\ requests \in Seq(RequestRecords) /\ Wire = a \o requests
      /\ responses \in Seq(ResponseRecords)
  BY WireType
<1>2. requests = <<r>> \o t /\ t \in Seq(RequestRecords) /\ r \in RequestRecords
  BY <1>1, HeadTailProperties
<1>3. x \in ResponseRecords /\ x.request = r
  BY <1>2 DEF ResponseRecords
<1>4. Wire' = AnsweredOf(Append(responses, x)) \o t
  BY DEF Wire, AnsweredOf
<1> HIDE DEF x, r, t, Wire
<1>5. AnsweredOf(Append(responses, x)) = Append(a, r)
  BY <1>1, <1>3, AnsweredAppend
<1> HIDE DEF a
<1>6. Append(a, r) = a \o <<r>> /\ <<r>> \in Seq(RequestRecords)
  BY <1>1, <1>2, AppendIsConcat
<1>7. (a \o <<r>>) \o t = a \o (<<r>> \o t)
  BY <1>1, <1>2, <1>6, ConcatAssociative
<1> QED BY <1>1, <1>2, <1>4, <1>5, <1>6, <1>7, Zenon

\* An answer is received.
LEMMA WireReceived ==
  ASSUME RequestsTypeOK, responses # <<>>, responses' = Tail(responses), requests' = requests
  PROVE  /\ Wire # <<>> /\ Wire' = Tail(Wire) /\ Head(Wire) = Head(responses).request
         /\ Wire[1] = Head(responses).request /\ 1 \in DOMAIN Wire
<1> DEFINE a == AnsweredOf(responses)
<1>1. a \in Seq(RequestRecords) /\ requests \in Seq(RequestRecords) /\ Wire = a \o requests
      /\ responses \in Seq(ResponseRecords) /\ Wire \in Seq(RequestRecords)
  BY WireType
<1>2. AnsweredOf(Tail(responses)) = Tail(a) /\ Head(a) = Head(responses).request /\ a # <<>>
  BY <1>1, AnsweredTail
<1>3. Wire' = AnsweredOf(Tail(responses)) \o requests
  BY DEF Wire, AnsweredOf
<1> HIDE DEF a, Wire
<1> DEFINE h == Head(a)
           t == Tail(a)
<1>4. a = <<h>> \o t /\ t \in Seq(RequestRecords) /\ h \in RequestRecords
  BY <1>1, <1>2, HeadTailProperties
<1> HIDE DEF h, t
<1>5. <<h>> \in Seq(RequestRecords) /\ t \o requests \in Seq(RequestRecords)
  BY <1>1, <1>4, ConcatProperties
<1>6. Wire = <<h>> \o (t \o requests)
  BY <1>1, <1>4, <1>5, ConcatAssociative
<1> DEFINE u == t \o requests
<1> HIDE DEF u
<1>7. Wire = <<h>> \o u /\ u \in Seq(RequestRecords)
  BY <1>5, <1>6 DEF u
<1>8. Wire # <<>> /\ Tail(Wire) = u /\ Head(Wire) = h /\ Wire[1] = h /\ 1 \in DOMAIN Wire
  <2>1. Len(Wire) = 1 + Len(u) /\ Len(u) \in Nat /\ Wire[1] = h
    BY <1>4, <1>5, <1>7, ConcatProperties, LenProperties
  <2>2. Wire # <<>> /\ 1 \in DOMAIN Wire /\ Head(Wire) = h
    BY <1>1, <2>1
  <2>3. /\ Tail(Wire) \in Seq(RequestRecords) /\ Len(Tail(Wire)) = Len(u)
        /\ \A i \in 1 .. Len(u) : Tail(Wire)[i] = Wire[i + 1]
    BY <1>1, <2>1, <2>2, HeadTailProperties
  <2>4. \A i \in 1 .. Len(u) : Wire[i + 1] = u[i]
    <3>1. \A j \in 1 .. 1 + Len(u) :
            (<<h>> \o u)[j] = IF j <= 1 THEN <<h>>[j] ELSE u[j - 1]
      BY <1>5, <1>7, ConcatProperties
    <3>2. ASSUME NEW i \in 1 .. Len(u) PROVE Wire[i + 1] = u[i]
      <4>1. i + 1 \in 1 .. 1 + Len(u) /\ ~(i + 1 <= 1) /\ (i + 1) - 1 = i
        BY <2>1
      <4> QED BY <1>7, <3>1, <4>1
    <3> QED BY <3>2
  <2>5. \A i \in 1 .. Len(u) : Tail(Wire)[i] = u[i]
    BY <2>3, <2>4
  <2>6. Tail(Wire) = u
    BY <1>7, <2>3, <2>5, SeqEqual
  <2> QED BY <2>1, <2>2, <2>6
<1> QED BY <1>2, <1>3, <1>8 DEF u, h, t

-----------------------------------------------------------------------------
(* The effects of a step.                                                  *)

\* The operations keep their kinds and go on as their answers allow; nothing is accepted.
NothingAccepted ==
  \A o \in Operations :
    MovesOn(operations[o], operations'[o]) /\ (Accepted(o)' => Accepted(o))

\* Nothing is sent, answered or received.
WireRests ==
  /\ NothingAccepted
  /\ Wire' = Wire /\ UNCHANGED <<responses, log>>
  /\ connectionState' = "Connected" <=> connectionState = "Connected"

\* The connection is lost, or a new one takes its place.
WireDropped ==
  /\ NothingAccepted
  /\ Wire' = <<>> /\ responses' = <<>> /\ log' = log
  /\ connectionState' # "Connected"

\* An auth or a listen is sent.
OtherSent(r) ==
  /\ r \in RequestRecords /\ r.kind # "operation"
  /\ Wire' = Append(Wire, r) /\ UNCHANGED <<operations, responses, log>>
  /\ connectionState' = "Connected" <=> connectionState = "Connected"

\* The application calls an operation.
Called(o) ==
  /\ operations[o].place = "New" /\ \A p \in 1 .. o - 1 : operations[p].place # "New"
  /\ \A p \in Operations : p # o => operations'[p] = operations[p]
  /\ operations'[o].place = (IF CanSend THEN "Sent" ELSE "Outstanding")
  /\ operations'[o].outcome = "None"
  /\ Wire' = (IF CanSend THEN Append(Wire, Operation(o)) ELSE Wire)
  /\ UNCHANGED <<connectionState, responses, log>>

\* The state is restored: what waits is sent, puts in their order.
Restored ==
  /\ connectionState' = "Connected" /\ log' = log
  /\ \A o \in Operations :
       /\ operations'[o].kind = operations[o].kind
       /\ operations'[o].outcome = operations[o].outcome
       /\ operations'[o].place =
            IF operations[o].place = "Outstanding" THEN "Sent" ELSE operations[o].place
  /\ \A i \in DOMAIN responses' : responses'[i].request.kind # "operation"
  /\ \A i \in DOMAIN Wire' : Wire'[i].kind = "operation" => Wire'[i].id \in ToRestore
  /\ \A i, j \in DOMAIN Wire' :
       i < j /\ IsPutRequest(Wire'[i]) /\ IsPutRequest(Wire'[j]) => Wire'[i].id < Wire'[j].id
  /\ \A o \in ToRestore : \E i \in DOMAIN Wire' : Wire'[i] = Operation(o)

\* The backend answers the first request, and applies a put that it accepts.
Answered(ok) ==
  /\ requests # <<>> /\ Wire' = Wire /\ UNCHANGED <<connectionState, operations>>
  /\ responses' = Append(responses, [request |-> Head(requests), ok |-> ok])
  /\ log' = IF ok /\ IsPutRequest(Head(requests)) THEN Append(log, Head(requests).id) ELSE log

\* The first answer is received, and a put it is for is settled.
Received ==
  /\ Wire # <<>> /\ Wire' = Tail(Wire)
  /\ responses # <<>> /\ responses' = Tail(responses)
  /\ Head(responses).request = Head(Wire)
  /\ UNCHANGED <<connectionState, log>>
  /\ \A o \in Operations :
       /\ MovesOn(operations[o], operations'[o])
       /\ \/ Accepted(o)' => Accepted(o)
          \/ Head(responses).ok /\ Head(Wire) = Operation(o)
       /\ Head(Wire) = Operation(o) => ~IsOutstandingPut(operations'[o])

-----------------------------------------------------------------------------
(* Every effect preserves the order.                                       *)

\* What IInv says of the operations on the wire, answered and applied.
LEMMA WireFacts ==
  ASSUME IInv
  PROVE  /\ Wire \in Seq(RequestRecords) /\ Len(Wire) \in Nat /\ DOMAIN Wire = 1 .. Len(Wire)
         /\ \A i \in DOMAIN Wire : Wire[i].kind = "operation" =>
              /\ Wire[i].id \in Operations /\ Wire[i] = Operation(Wire[i].id)
              /\ operations[Wire[i].id].place # "New"
         /\ \A i \in DOMAIN responses :
              responses[i].ok \in BOOLEAN /\ i \in DOMAIN Wire /\ Wire[i] = responses[i].request
         /\ responses \in Seq(ResponseRecords) /\ requests \in Seq(RequestRecords)
         /\ log \in Seq(Operations) /\ Len(log) \in Nat /\ DOMAIN log = 1 .. Len(log)
         /\ \A i \in DOMAIN log : log[i] \in Operations
         /\ Operations \subseteq Nat
         /\ \A o \in Operations : ToldOnce(operations[o])
<1>1. RequestsTypeOK /\ log \in Seq(Operations) /\ OperationsInv
      /\ \A o \in Operations : ToldOnce(operations[o])
  BY DEF IInv, TypeOK, ToldInv
<1>2. Operations \subseteq Nat
  BY ConnectionConstants DEF Operations
<1>3. Len(log) \in Nat /\ DOMAIN log = 1 .. Len(log) /\ \A i \in DOMAIN log : log[i] \in Operations
  BY <1>1, LenProperties, ElementOfSeq
<1>4. /\ Wire \in Seq(RequestRecords) /\ Len(Wire) \in Nat /\ DOMAIN Wire = 1 .. Len(Wire)
      /\ \A i \in DOMAIN Wire : Wire[i] \in RequestRecords
      /\ responses \in Seq(ResponseRecords) /\ requests \in Seq(RequestRecords)
  BY <1>1, WireType
<1>5. /\ Len(responses) \in Nat
      /\ \A i \in DOMAIN responses : i \in DOMAIN Wire /\ Wire[i] = responses[i].request
      /\ \A i \in DOMAIN requests : Wire[Len(responses) + i] = requests[i]
      /\ \A i \in DOMAIN Wire : i \in DOMAIN responses \/ i - Len(responses) \in DOMAIN requests
  BY <1>1, WireParts
<1>6. \A i \in DOMAIN responses : responses[i].ok \in BOOLEAN
  <2>1. \A i \in DOMAIN responses : responses[i] \in ResponseRecords
    BY <1>1, RequestTypes
  <2> QED BY <2>1 DEF ResponseRecords
<1> HIDE DEF Wire
<1>7. ASSUME NEW i \in DOMAIN Wire, Wire[i].kind = "operation"
      PROVE  /\ Wire[i].id \in Operations /\ Wire[i] = Operation(Wire[i].id)
             /\ operations[Wire[i].id].place # "New"
  <2>1. Wire[i].id \in Operations /\ Wire[i] = Operation(Wire[i].id)
    BY <1>4, <1>7, RequestFields
  <2>2. CASE i \in DOMAIN responses
    BY <1>1, <1>5, <1>7, <2>1, <2>2 DEF OperationsInv
  <2>3. CASE i - Len(responses) \in DOMAIN requests
    <3>1. Len(responses) + (i - Len(responses)) = i
      BY <1>4, <1>5
    <3>2. requests[i - Len(responses)] = Wire[i]
      BY <1>5, <2>3, <3>1
    <3> QED BY <1>1, <1>7, <2>1, <2>3, <3>2 DEF OperationsInv
  <2> QED BY <1>5, <2>2, <2>3
<1> QED BY <1>1, <1>2, <1>3, <1>4, <1>5, <1>6, <1>7

\* If nothing is accepted or applied, answers and log agree as they did.
LEMMA LogRests ==
  ASSUME IInv, WireOrderInv, log' = log,
         \A o \in Operations : /\ operations[o].place # "New" => operations'[o].kind = operations[o].kind
                               /\ Accepted(o)' => Accepted(o),
         \A i \in DOMAIN responses' :
           responses'[i].request.kind = "operation" =>
             \E j \in DOMAIN responses : responses'[i] = responses[j]
  PROVE  AnswersAreLatest' /\ LaterPutWins'
<1>1. \A p : AppliedAfterEarlier(p)' <=> AppliedAfterEarlier(p)
  BY DEF AppliedAfterEarlier
<1>2. LaterPutWins'
  <2>1. \A p \in Operations : Accepted(p) => AppliedAfterEarlier(p)
    BY DEF WireOrderInv, LaterPutWins, Accepted, AppliedAfterEarlier
  <2>2. \A p \in Operations : Accepted(p)' => AppliedAfterEarlier(p)'
    BY <1>1, <2>1
  <2> QED BY <2>2 DEF LaterPutWins, Accepted, AppliedAfterEarlier
<1>3. ASSUME NEW i \in DOMAIN responses', responses'[i].ok,
             responses'[i].request.kind = "operation",
             operations'[responses'[i].request.id].kind \in Puts
      PROVE  AppliedAfterEarlier(responses'[i].request.id)
  <2>2. PICK j \in DOMAIN responses : responses'[i] = responses[j]
    BY <1>3
  <2>3. /\ responses[j].request.id \in Operations
        /\ operations[responses[j].request.id].place # "New"
    BY <1>3, <2>2, WireFacts
  <2>4. IsPutRequest(responses[j].request)
    BY <1>3, <2>2, <2>3 DEF IsPutRequest
  <2> QED BY <1>3, <2>2, <2>4 DEF WireOrderInv, AnswersAreLatest
<1>4. AnswersAreLatest'
  BY <1>3 DEF AnswersAreLatest, IsPutRequest, AppliedAfterEarlier
<1> QED BY <1>2, <1>4

\* Nothing is sent, answered or received.
LEMMA WireRestsKeeps ==
  ASSUME IInv, WireOrderInv, WireRests
  PROVE  WireOrderInv'
<1> HIDE DEF Wire
<1>1. /\ Wire' = Wire /\ responses' = responses /\ log' = log
      /\ connectionState' = "Connected" <=> connectionState = "Connected"
      /\ \A o \in Operations : MovesOn(operations[o], operations'[o]) /\ (Accepted(o)' => Accepted(o))
  BY DEF WireRests, NothingAccepted
<1>2. AnswersAreLatest' /\ LaterPutWins'
  BY <1>1, LogRests DEF MovesOn
<1>3. \A o \in Operations :
        /\ operations'[o].kind = operations[o].kind
        /\ operations'[o].place = "New" <=> operations[o].place = "New"
        /\ operations'[o].place = "Outstanding" => operations[o].place = "Outstanding"
        /\ IsOutstandingPut(operations'[o]) => IsOutstandingPut(operations[o])
  BY <1>1 DEF MovesOn, IsOutstandingPut
<1>4. \A i \in DOMAIN Wire :
        Wire[i].kind = "operation" /\ operations'[Wire[i].id].kind \in Puts => IsPutRequest(Wire[i])
  BY <1>3, WireFacts DEF IsPutRequest
<1>5. CalledInOrder'
  BY <1>3 DEF WireOrderInv, CalledInOrder
<1>6. SentWhenConnected'
  BY <1>1 DEF WireOrderInv, SentWhenConnected
<1>7. PutsOnWireInOrder'
  BY <1>1, <1>4 DEF WireOrderInv, PutsOnWireInOrder, IsPutRequest
<1>8. NothingWaits'
  BY <1>1, <1>3 DEF WireOrderInv, NothingWaits
<1>9. NothingEarlierFollows'
  <2>1. ASSUME NEW p \in Operations, Accepted(p)'
        PROVE  /\ \A o \in Operations : o < p => ~IsOutstandingPut(operations'[o])
               /\ \A i \in DOMAIN Wire :
                    Wire[i].kind = "operation" /\ operations'[Wire[i].id].kind \in Puts
                    => p < Wire[i].id
    <3>1. Accepted(p)
      BY <1>1, <2>1
    <3> QED BY <1>3, <1>4, <3>1 DEF WireOrderInv, NothingEarlierFollows
  <2> QED BY <1>1, <2>1 DEF NothingEarlierFollows, Accepted, IsPutRequest
<1> QED BY <1>2, <1>5, <1>6, <1>7, <1>8, <1>9 DEF WireOrderInv

\* The connection is lost, or a new one takes its place.
LEMMA WireDroppedKeeps ==
  ASSUME IInv, WireOrderInv, WireDropped
  PROVE  WireOrderInv'
<1> HIDE DEF Wire
<1>1. /\ DOMAIN Wire' = {} /\ DOMAIN responses' = {} /\ log' = log /\ connectionState' # "Connected"
      /\ \A o \in Operations : MovesOn(operations[o], operations'[o]) /\ (Accepted(o)' => Accepted(o))
  BY DEF WireDropped, NothingAccepted
<1>2. AnswersAreLatest' /\ LaterPutWins'
  BY <1>1, LogRests DEF MovesOn
<1>3. \A o \in Operations :
        /\ operations'[o].place = "New" <=> operations[o].place = "New"
        /\ IsOutstandingPut(operations'[o]) => IsOutstandingPut(operations[o])
  BY <1>1 DEF MovesOn, IsOutstandingPut
<1>4. CalledInOrder'
  BY <1>3 DEF WireOrderInv, CalledInOrder
<1>5. SentWhenConnected' /\ PutsOnWireInOrder' /\ NothingWaits'
  BY <1>1 DEF SentWhenConnected, PutsOnWireInOrder, NothingWaits
<1>6. NothingEarlierFollows'
  <2>1. \A p \in Operations : Accepted(p)' =>
          \A o \in Operations : o < p => ~IsOutstandingPut(operations'[o])
    BY <1>1, <1>3 DEF WireOrderInv, NothingEarlierFollows
  <2> QED BY <1>1, <2>1 DEF NothingEarlierFollows, Accepted
<1> QED BY <1>2, <1>4, <1>5, <1>6 DEF WireOrderInv

\* The last request on the wire.
LEMMA WireAppended ==
  ASSUME IInv, NEW r, r \in RequestRecords, Wire' = Append(Wire, r)
  PROVE  /\ Len(Wire) + 1 \in DOMAIN Wire' /\ Wire'[Len(Wire) + 1] = r
         /\ \A i \in DOMAIN Wire : i \in DOMAIN Wire' /\ Wire'[i] = Wire[i] /\ i < Len(Wire) + 1
         /\ \A i \in DOMAIN Wire' : i \in DOMAIN Wire \/ i = Len(Wire) + 1
<1> HIDE DEF Wire
<1>1. Wire \in Seq(RequestRecords) /\ Len(Wire) \in Nat /\ DOMAIN Wire = 1 .. Len(Wire)
  BY WireFacts
<1>2. /\ DOMAIN Wire' = 1 .. Len(Wire) + 1 /\ Wire'[Len(Wire) + 1] = r
      /\ \A i \in 1 .. Len(Wire) : Wire'[i] = Wire[i]
  BY <1>1, AppendProperties, LenProperties
<1> QED BY <1>1, <1>2

\* An auth or a listen is sent.
LEMMA OtherSentKeeps ==
  ASSUME IInv, WireOrderInv, NEW r, OtherSent(r)
  PROVE  WireOrderInv'
<1> HIDE DEF Wire
<1>1. /\ r \in RequestRecords /\ r.kind # "operation" /\ Wire' = Append(Wire, r)
      /\ operations' = operations /\ responses' = responses /\ log' = log
      /\ connectionState' = "Connected" <=> connectionState = "Connected"
  BY DEF OtherSent
<1>2. AnswersAreLatest' /\ LaterPutWins'
  BY <1>1, LogRests DEF Accepted
<1> DEFINE n == Len(Wire)
<1>3. /\ Wire'[n + 1] = r
      /\ \A i \in DOMAIN Wire : i \in DOMAIN Wire' /\ Wire'[i] = Wire[i]
      /\ \A i \in DOMAIN Wire' : i \in DOMAIN Wire \/ i = n + 1
  BY <1>1, WireAppended
<1> HIDE DEF n
<1>4. \A i \in DOMAIN Wire' :
        Wire'[i].kind = "operation" => i \in DOMAIN Wire /\ Wire'[i] = Wire[i]
  BY <1>1, <1>3
<1>5. CalledInOrder'
  BY <1>1 DEF WireOrderInv, CalledInOrder
<1>6. SentWhenConnected'
  BY <1>1, <1>4 DEF WireOrderInv, SentWhenConnected
<1>7. PutsOnWireInOrder'
  BY <1>1, <1>4 DEF WireOrderInv, PutsOnWireInOrder, IsPutRequest
<1>8. NothingWaits'
  <2>1. ASSUME connectionState' = "Connected", NEW o \in Operations
        PROVE  /\ operations'[o].place # "Outstanding"
               /\ IsOutstandingPut(operations'[o]) => \E i \in DOMAIN Wire' : Wire'[i] = Operation(o)
    <3>1. /\ operations[o].place # "Outstanding"
          /\ IsOutstandingPut(operations[o]) => \E i \in DOMAIN Wire : Wire[i] = Operation(o)
      BY <1>1, <2>1 DEF WireOrderInv, NothingWaits
    <3> QED BY <1>1, <1>3, <3>1
  <2> QED BY <2>1 DEF NothingWaits
<1>9. NothingEarlierFollows'
  <2>1. ASSUME NEW p \in Operations, Accepted(p)
        PROVE  /\ \A o \in Operations : o < p => ~IsOutstandingPut(operations[o])
               /\ \A i \in DOMAIN Wire' : IsPutRequest(Wire'[i]) => p < Wire'[i].id
    <3>1. /\ \A o \in Operations : o < p => ~IsOutstandingPut(operations[o])
          /\ \A i \in DOMAIN Wire : IsPutRequest(Wire[i]) => p < Wire[i].id
      BY <2>1 DEF WireOrderInv, NothingEarlierFollows
    <3> QED BY <1>4, <3>1 DEF IsPutRequest
  <2> QED BY <1>1, <2>1 DEF NothingEarlierFollows, Accepted, IsPutRequest
<1> QED BY <1>2, <1>5, <1>6, <1>7, <1>8, <1>9 DEF WireOrderInv

\* The application calls an operation, the next by its index.
LEMMA CalledKeeps ==
  ASSUME IInv, WireOrderInv, NEW o \in Operations, Called(o)
  PROVE  WireOrderInv'
<1> HIDE DEF Wire
<1> DEFINE n == Len(Wire)
<1>1. /\ operations[o].place = "New" /\ \A p \in 1 .. o - 1 : operations[p].place # "New"
      /\ \A p \in Operations : p # o => operations'[p] = operations[p]
      /\ operations'[o].place = (IF CanSend THEN "Sent" ELSE "Outstanding")
      /\ operations'[o].outcome = "None"
      /\ Wire' = (IF CanSend THEN Append(Wire, Operation(o)) ELSE Wire)
      /\ connectionState' = connectionState /\ responses' = responses /\ log' = log
  BY DEF Called
<1>2. Operations \subseteq Nat /\ Operations = 1 .. MaxOperations /\ \A p \in Operations : ToldOnce(operations[p])
  BY WireFacts DEF Operations
<1>3. ~Accepted(o)' /\ \A p \in Operations : Accepted(p)' => Accepted(p)
  BY <1>1 DEF Accepted
<1>4. AnswersAreLatest' /\ LaterPutWins'
  <2>1. \A p \in Operations : operations[p].place # "New" => operations'[p].kind = operations[p].kind
    BY <1>1
  <2> QED BY <1>1, <1>3, <2>1, LogRests
<1>5. Operation(o) \in RequestRecords /\ Operation(o).kind = "operation" /\ Operation(o).id = o
  BY NewRequests
<1>6. CanSend => /\ n + 1 \in DOMAIN Wire' /\ Wire'[n + 1] = Operation(o)
                 /\ \A i \in DOMAIN Wire : i \in DOMAIN Wire' /\ Wire'[i] = Wire[i] /\ i < n + 1
                 /\ \A i \in DOMAIN Wire' : i \in DOMAIN Wire \/ i = n + 1
  BY <1>1, <1>5, WireAppended
<1>7. /\ n \in Nat /\ DOMAIN Wire = 1 .. n
      /\ \A i \in DOMAIN Wire : Wire[i].kind = "operation" =>
           Wire[i].id \in Operations /\ operations[Wire[i].id].place # "New"
  BY WireFacts
<1> HIDE DEF n
<1>8. \A i \in DOMAIN Wire : Wire[i].kind = "operation" =>
        /\ Wire[i].id < o /\ operations'[Wire[i].id] = operations[Wire[i].id]
  <2>1. ASSUME NEW i \in DOMAIN Wire, Wire[i].kind = "operation"
        PROVE  Wire[i].id < o
    <3>1. Wire[i].id \in Operations /\ operations[Wire[i].id].place # "New"
      BY <1>7, <2>1
    <3>2. ~(o < Wire[i].id)
      BY <1>1, <3>1 DEF WireOrderInv, CalledInOrder
    <3>3. o # Wire[i].id
      BY <1>1, <3>1
    <3> QED BY <1>2, <3>1, <3>2, <3>3
  <2>2. \A i \in DOMAIN Wire : Wire[i].kind = "operation" => Wire[i].id # o
    BY <1>1, <1>7
  <2> QED BY <1>1, <1>7, <2>1, <2>2
<1>9. CalledInOrder'
  <2>1. ASSUME NEW p \in Operations, NEW q \in Operations, p < q, operations'[p].place = "New"
        PROVE  operations'[q].place = "New"
    <3>1. p # o /\ operations[p].place = "New"
      BY <1>1, <2>1
    <3>2. ~(p < o)
      BY <1>1, <1>2, <3>1
    <3>3. q # o
      BY <1>2, <2>1, <3>1, <3>2
    <3>4. operations[q].place = "New"
      BY <2>1, <3>1 DEF WireOrderInv, CalledInOrder
    <3> QED BY <1>1, <3>3, <3>4
  <2> QED BY <2>1 DEF CalledInOrder
<1>10. SentWhenConnected'
  <2>1. CanSend <=> connectionState = "Connected"
    BY DEF CanSend
  <2> QED BY <1>1, <2>1 DEF WireOrderInv, SentWhenConnected
<1>11. PutsOnWireInOrder'
  <2>1. ASSUME NEW i \in DOMAIN Wire, NEW j \in DOMAIN Wire, i < j,
               Wire[i].kind = "operation", operations'[Wire[i].id].kind \in Puts,
               Wire[j].kind = "operation", operations'[Wire[j].id].kind \in Puts
        PROVE  Wire[i].id < Wire[j].id
    <3>1. IsPutRequest(Wire[i]) /\ IsPutRequest(Wire[j])
      BY <1>8, <2>1 DEF IsPutRequest
    <3> QED BY <2>1, <3>1 DEF WireOrderInv, PutsOnWireInOrder
  <2>2. CASE ~CanSend
    BY <1>1, <2>1, <2>2 DEF PutsOnWireInOrder, IsPutRequest
  <2>3. CASE CanSend
    <3>1. ASSUME NEW i \in DOMAIN Wire', NEW j \in DOMAIN Wire', i < j,
                 Wire'[i].kind = "operation", operations'[Wire'[i].id].kind \in Puts,
                 Wire'[j].kind = "operation", operations'[Wire'[j].id].kind \in Puts
          PROVE  Wire'[i].id < Wire'[j].id
      <4>1. i \in DOMAIN Wire
        BY <1>6, <1>7, <2>3, <3>1
      <4>2. CASE j \in DOMAIN Wire
        BY <1>6, <2>1, <2>3, <3>1, <4>1, <4>2
      <4>3. CASE j = n + 1
        <5>1. Wire'[i].id < o
          BY <1>6, <1>8, <2>3, <3>1, <4>1
        <5>2. Wire'[j].id = o
          BY <1>5, <1>6, <2>3, <4>3
        <5> QED BY <5>1, <5>2
      <4> QED BY <1>6, <2>3, <4>2, <4>3
    <3> QED BY <3>1 DEF PutsOnWireInOrder, IsPutRequest
  <2> QED BY <2>2, <2>3
<1>12. NothingWaits'
  <2>1. ASSUME connectionState' = "Connected", NEW p \in Operations
        PROVE  /\ operations'[p].place # "Outstanding"
               /\ IsOutstandingPut(operations'[p]) => \E i \in DOMAIN Wire' : Wire'[i] = Operation(p)
    <3>1. CanSend
      BY <1>1, <2>1 DEF CanSend
    <3>2. CASE p = o
      BY <1>1, <1>6, <3>1, <3>2
    <3>3. CASE p # o
      <4>1. /\ operations[p].place # "Outstanding"
            /\ IsOutstandingPut(operations[p]) => \E i \in DOMAIN Wire : Wire[i] = Operation(p)
        BY <1>1, <2>1 DEF WireOrderInv, NothingWaits
      <4> QED BY <1>1, <1>6, <3>1, <3>3, <4>1
    <3> QED BY <3>2, <3>3
  <2> QED BY <2>1 DEF NothingWaits
<1>13. NothingEarlierFollows'
  <2>1. ASSUME NEW p \in Operations, Accepted(p)'
        PROVE  /\ \A q \in Operations : q < p => ~IsOutstandingPut(operations'[q])
               /\ \A i \in DOMAIN Wire' :
                    Wire'[i].kind = "operation" /\ operations'[Wire'[i].id].kind \in Puts
                    => p < Wire'[i].id
    <3>1. /\ Accepted(p)
          /\ \A q \in Operations : q < p => ~IsOutstandingPut(operations[q])
          /\ \A i \in DOMAIN Wire : IsPutRequest(Wire[i]) => p < Wire[i].id
      BY <1>3, <2>1 DEF WireOrderInv, NothingEarlierFollows
    <3>2. operations[p].place # "New"
      BY <1>2, <3>1 DEF Accepted, ToldOnce
    <3>3. ~(o < p) /\ p # o
      BY <1>1, <3>2 DEF WireOrderInv, CalledInOrder
    <3>4. p < o
      BY <1>2, <3>3
    <3>5. \A q \in Operations : q < p => ~IsOutstandingPut(operations'[q])
      BY <1>1, <3>1, <3>3
    <3>6. \A i \in DOMAIN Wire : Wire[i].kind = "operation" /\ operations'[Wire[i].id].kind \in Puts
                                 => p < Wire[i].id
      BY <1>8, <3>1 DEF IsPutRequest
    <3>7. CASE CanSend
      BY <1>5, <1>6, <3>4, <3>5, <3>6, <3>7
    <3>8. CASE ~CanSend
      BY <1>1, <3>5, <3>6, <3>8
    <3> QED BY <3>7, <3>8
  <2> QED BY <2>1 DEF NothingEarlierFollows, Accepted, IsPutRequest
<1> QED BY <1>4, <1>9, <1>10, <1>11, <1>12, <1>13 DEF WireOrderInv

\* The state is restored.
LEMMA RestoredKeeps ==
  ASSUME IInv, WireOrderInv, Restored
  PROVE  WireOrderInv'
<1> HIDE DEF Wire
<1>1. /\ log' = log
      /\ \A o \in Operations :
           /\ operations'[o].kind = operations[o].kind
           /\ operations'[o].outcome = operations[o].outcome
           /\ operations'[o].place =
                IF operations[o].place = "Outstanding" THEN "Sent" ELSE operations[o].place
      /\ \A i \in DOMAIN responses' : responses'[i].request.kind # "operation"
      /\ \A i \in DOMAIN Wire' : Wire'[i].kind = "operation" => Wire'[i].id \in ToRestore
      /\ \A i, j \in DOMAIN Wire' :
           i < j /\ IsPutRequest(Wire'[i]) /\ IsPutRequest(Wire'[j]) => Wire'[i].id < Wire'[j].id
      /\ \A o \in ToRestore : \E i \in DOMAIN Wire' : Wire'[i] = Operation(o)
  BY DEF Restored
<1>2. Operations \subseteq Nat /\ \A o \in Operations : ToldOnce(operations[o])
  BY WireFacts
<1>3. \A o \in Operations : (Accepted(o)' => Accepted(o))
                            /\ (IsOutstandingPut(operations'[o]) => IsOutstandingPut(operations[o]))
  BY <1>1 DEF Accepted, IsOutstandingPut
<1>4. AnswersAreLatest' /\ LaterPutWins'
  BY <1>1, <1>3, LogRests
<1>5. \A i \in DOMAIN Wire' :
        Wire'[i].kind = "operation" /\ operations'[Wire'[i].id].kind \in Puts =>
          IsPutRequest(Wire'[i]) /\ Wire'[i].id \in ToRestore /\ Wire'[i].id \in Operations
  BY <1>1 DEF IsPutRequest, ToRestore
<1>6. CalledInOrder'
  <2>1. \A o \in Operations : operations'[o].place = "New" <=> operations[o].place = "New"
    BY <1>1
  <2> QED BY <2>1 DEF WireOrderInv, CalledInOrder
<1>7. PutsOnWireInOrder'
  BY <1>1, <1>5 DEF PutsOnWireInOrder, IsPutRequest
<1>8. NothingWaits'
  <2>1. ASSUME NEW o \in Operations
        PROVE  /\ operations'[o].place # "Outstanding"
               /\ IsOutstandingPut(operations'[o]) => \E i \in DOMAIN Wire' : Wire'[i] = Operation(o)
    <3>1. operations'[o].place # "Outstanding"
      BY <1>1
    <3>2. IsOutstandingPut(operations'[o]) => o \in ToRestore
      BY <1>3 DEF ToRestore
    <3> QED BY <1>1, <3>1, <3>2
  <2> QED BY <2>1 DEF NothingWaits
<1>9. NothingEarlierFollows'
  <2>1. ASSUME NEW p \in Operations, Accepted(p)'
        PROVE  /\ \A q \in Operations : q < p => ~IsOutstandingPut(operations'[q])
               /\ \A i \in DOMAIN Wire' :
                    Wire'[i].kind = "operation" /\ operations'[Wire'[i].id].kind \in Puts
                    => p < Wire'[i].id
    <3>1. /\ Accepted(p)
          /\ \A q \in Operations : q < p => ~IsOutstandingPut(operations[q])
      BY <1>3, <2>1 DEF WireOrderInv, NothingEarlierFollows
    <3>2. ~IsOutstandingPut(operations[p])
      BY <1>2, <3>1 DEF Accepted, ToldOnce, IsOutstandingPut
    <3>3. ASSUME NEW i \in DOMAIN Wire', Wire'[i].kind = "operation",
                 operations'[Wire'[i].id].kind \in Puts
          PROVE  p < Wire'[i].id
      <4>1. Wire'[i].id \in Operations /\ IsOutstandingPut(operations[Wire'[i].id])
        BY <1>5, <3>3 DEF ToRestore, IsPutRequest, IsOutstandingPut
      <4> QED BY <1>2, <3>1, <3>2, <4>1
    <3> QED BY <1>3, <3>1, <3>3
  <2> QED BY <2>1 DEF NothingEarlierFollows, Accepted, IsPutRequest
<1>10. SentWhenConnected'
  BY DEF SentWhenConnected, Restored
<1> QED BY <1>4, <1>6, <1>7, <1>8, <1>9, <1>10 DEF WireOrderInv

\* The backend answers the first request.
LEMMA AnsweredKeeps ==
  ASSUME IInv, WireOrderInv, NEW ok \in BOOLEAN, Answered(ok)
  PROVE  WireOrderInv'
<1> HIDE DEF Wire
<1> DEFINE r == Head(requests)
           m == Len(responses)
           k == Len(log)
           x == [request |-> r, ok |-> ok]
           applies == ok /\ IsPutRequest(r)
           Latest(p) == \A i \in DOMAIN log' : log'[i] < p =>
                          \E j \in DOMAIN log' : i < j /\ log'[j] = p
<1>1. /\ requests # <<>> /\ Wire' = Wire /\ connectionState' = connectionState
      /\ operations' = operations
      /\ responses' = Append(responses, x)
      /\ log' = IF applies THEN Append(log, r.id) ELSE log
  BY DEF Answered
<1>2. /\ Operations \subseteq Nat /\ log \in Seq(Operations) /\ k \in Nat /\ DOMAIN log = 1 .. k
      /\ \A i \in DOMAIN log : log[i] \in Operations
      /\ responses \in Seq(ResponseRecords) /\ requests \in Seq(RequestRecords)
      /\ Len(Wire) \in Nat /\ DOMAIN Wire = 1 .. Len(Wire)
      /\ \A i \in DOMAIN responses : i \in DOMAIN Wire /\ Wire[i] = responses[i].request
      /\ \A i \in DOMAIN Wire : Wire[i].kind = "operation" => Wire[i].id \in Operations
  BY WireFacts
<1>3. /\ m \in Nat /\ DOMAIN responses = 1 .. m
      /\ m + 1 \in DOMAIN Wire /\ Wire[m + 1] = r /\ r \in RequestRecords
  <2>1. 1 \in DOMAIN requests /\ r = requests[1] /\ r \in RequestRecords
    BY <1>1, <1>2, HeadTailProperties, LenProperties
  <2>2. RequestsTypeOK
    BY DEF IInv, TypeOK
  <2> QED BY <2>1, <2>2, WireParts
<1>4. x \in ResponseRecords /\ x.request = r /\ x.ok = ok
  BY <1>3 DEF ResponseRecords
<1> HIDE DEF r, x, m, k, applies
<1>5. /\ DOMAIN responses' = 1 .. m + 1 /\ responses'[m + 1] = x
      /\ \A i \in 1 .. m : responses'[i] = responses[i]
  BY <1>1, <1>2, <1>3, <1>4, AppendProperties, LenProperties DEF m
<1>6. applies => r.id \in Operations
  BY <1>2, <1>3 DEF applies, IsPutRequest
<1>7. /\ applies => /\ DOMAIN log' = 1 .. k + 1 /\ log'[k + 1] = r.id
                    /\ \A i \in 1 .. k : log'[i] = log[i]
      /\ ~applies => log' = log
  <2>1. CASE applies
    <3>1. log' = Append(log, r.id) /\ r.id \in Operations
      BY <1>1, <1>6, <2>1
    <3>2. /\ log' \in Seq(Operations) /\ Len(log') = k + 1 /\ log'[k + 1] = r.id
          /\ \A i \in 1 .. k : log'[i] = log[i]
      BY <1>2, <3>1, AppendProperties DEF k
    <3> QED BY <2>1, <3>2, LenProperties
  <2>2. CASE ~applies
    BY <1>1, <2>2
  <2> QED BY <2>1, <2>2
\* What is applied is no earlier put than one that was accepted before.
<1>8. ASSUME NEW p \in Operations, AppliedAfterEarlier(p), applies => p < r.id
      PROVE  Latest(p)
  <2>1. CASE ~applies
    BY <1>7, <1>8, <2>1 DEF AppliedAfterEarlier
  <2>2. CASE applies
    <3>1. ASSUME NEW i \in DOMAIN log', log'[i] < p
          PROVE  \E j \in DOMAIN log' : i < j /\ log'[j] = p
      <4>1. i \in 1 .. k
        <5>1. i # k + 1
          <6>1. r.id \in Nat /\ p \in Nat /\ p < r.id /\ log'[k + 1] = r.id
            BY <1>2, <1>6, <1>7, <1>8, <2>2
          <6>2. ~(r.id < p)
            BY <6>1
          <6> QED BY <3>1, <6>1, <6>2
        <5> QED BY <1>2, <1>7, <2>2, <5>1
      <4>2. PICK j \in DOMAIN log : i < j /\ log[j] = p
        BY <1>2, <1>7, <1>8, <2>2, <3>1, <4>1 DEF AppliedAfterEarlier
      <4>3. j \in DOMAIN log' /\ log'[j] = p
        BY <1>2, <1>7, <2>2, <4>2
      <4> QED BY <4>2, <4>3
    <3> QED BY <3>1
  <2> QED BY <2>1, <2>2
<1>9. applies => Latest(r.id)
  <2>1. ASSUME applies, NEW i \in DOMAIN log', log'[i] < r.id
        PROVE  \E j \in DOMAIN log' : i < j /\ log'[j] = r.id
    <3>1. i \in 1 .. k + 1 /\ i # k + 1
      <4>1. r.id \in Nat /\ log'[k + 1] = r.id /\ DOMAIN log' = 1 .. k + 1
        BY <1>2, <1>6, <1>7, <2>1
      <4>2. ~(r.id < r.id)
        BY <4>1
      <4> QED BY <2>1, <4>1, <4>2
    <3>2. k + 1 \in DOMAIN log' /\ i < k + 1
      BY <1>2, <1>7, <2>1, <3>1
    <3> QED BY <1>7, <2>1, <3>2
  <2> QED BY <2>1
<1>10. AnswersAreLatest'
  <2>1. ASSUME NEW i \in DOMAIN responses', responses'[i].ok, IsPutRequest(responses'[i].request)
        PROVE  Latest(responses'[i].request.id)
    <3>1. CASE i \in 1 .. m
      <4>1. /\ responses'[i] = responses[i] /\ i \in DOMAIN Wire /\ Wire[i] = responses[i].request
            /\ responses[i].ok /\ IsPutRequest(Wire[i])
        BY <1>2, <1>3, <1>5, <2>1, <3>1
      <4>2. Wire[i].id \in Operations /\ AppliedAfterEarlier(Wire[i].id)
        BY <1>2, <1>3, <3>1, <4>1 DEF WireOrderInv, AnswersAreLatest, IsPutRequest
      <4>3. applies => Wire[i].id < r.id
        BY <1>3, <3>1, <4>1 DEF WireOrderInv, PutsOnWireInOrder, applies
      <4>4. Latest(Wire[i].id)
        BY <1>8, <4>2, <4>3
      <4> QED BY <4>1, <4>4
    <3>2. CASE i = m + 1
      <4>1. responses'[i] = x
        BY <1>5, <3>2
      <4>2. applies
        BY <1>4, <2>1, <4>1 DEF applies
      <4> QED BY <1>4, <1>9, <4>1, <4>2
    <3> QED BY <1>3, <1>5, <3>1, <3>2
  <2> QED BY <1>1, <2>1 DEF AnswersAreLatest, AppliedAfterEarlier, IsPutRequest
<1>11. LaterPutWins'
  <2>1. ASSUME NEW p \in Operations, Accepted(p)
        PROVE  Latest(p)
    <3>1. AppliedAfterEarlier(p)
      BY <2>1 DEF WireOrderInv, LaterPutWins, Accepted, AppliedAfterEarlier
    <3>2. applies => p < r.id
      BY <1>3, <2>1 DEF WireOrderInv, NothingEarlierFollows, applies
    <3> QED BY <1>8, <3>1, <3>2
  <2> QED BY <1>1, <2>1 DEF LaterPutWins, Accepted
<1>12. CalledInOrder' /\ SentWhenConnected' /\ PutsOnWireInOrder' /\ NothingWaits'
       /\ NothingEarlierFollows'
  BY <1>1 DEF WireOrderInv, CalledInOrder, SentWhenConnected, PutsOnWireInOrder, NothingWaits,
              NothingEarlierFollows, Accepted, IsPutRequest
<1> QED BY <1>10, <1>11, <1>12 DEF WireOrderInv

\* The first answer is received.
LEMMA ReceivedKeeps ==
  ASSUME IInv, WireOrderInv, Received
  PROVE  WireOrderInv'
<1> HIDE DEF Wire
<1> DEFINE n == Len(Wire)
           h == Head(Wire)
           ok == Head(responses).ok
<1>1. /\ Wire # <<>> /\ Wire' = Tail(Wire) /\ responses # <<>> /\ responses' = Tail(responses)
      /\ Head(responses).request = h /\ connectionState' = connectionState /\ log' = log
      /\ \A o \in Operations : MovesOn(operations[o], operations'[o])
      /\ \A o \in Operations : (Accepted(o)' => Accepted(o)) \/ (ok /\ h = Operation(o))
      /\ \A o \in Operations : h = Operation(o) => ~IsOutstandingPut(operations'[o])
  BY DEF Received
<1>2. /\ Operations \subseteq Nat
      /\ Wire \in Seq(RequestRecords) /\ n \in Nat /\ DOMAIN Wire = 1 .. n
      /\ responses \in Seq(ResponseRecords)
      /\ \A i \in DOMAIN responses : responses[i].ok \in BOOLEAN
      /\ \A i \in DOMAIN Wire : Wire[i].kind = "operation" =>
           Wire[i].id \in Operations /\ Wire[i] = Operation(Wire[i].id)
  BY WireFacts
<1>3. /\ n \in Nat \ {0} /\ h = Wire[1] /\ 1 \in DOMAIN Wire
      /\ DOMAIN Wire' = 1 .. n - 1 /\ \A i \in 1 .. n - 1 : Wire'[i] = Wire[i + 1]
  BY <1>1, <1>2, HeadTailProperties, LenProperties
<1>4. /\ 1 \in DOMAIN responses /\ Head(responses) = responses[1]
      /\ \A i \in DOMAIN responses' : \E j \in DOMAIN responses : responses'[i] = responses[j]
  <2>1. Len(responses) \in Nat \ {0} /\ DOMAIN responses = 1 .. Len(responses)
    BY <1>1, <1>2, LenProperties
  <2>2. /\ DOMAIN responses' = 1 .. Len(responses) - 1
        /\ \A i \in 1 .. Len(responses) - 1 : responses'[i] = responses[i + 1]
    BY <1>1, <1>2, HeadTailProperties, LenProperties
  <2>3. \A i \in 1 .. Len(responses) - 1 : i + 1 \in DOMAIN responses
    BY <2>1
  <2>4. 1 \in DOMAIN responses /\ Head(responses) = responses[1]
    BY <1>1, <1>2, <2>1
  <2> QED BY <2>2, <2>3, <2>4
<1> HIDE DEF n, h, ok
<1>5. \A o \in Operations :
        /\ operations'[o].kind = operations[o].kind
        /\ operations'[o].place = "New" <=> operations[o].place = "New"
        /\ operations'[o].place = "Outstanding" => operations[o].place = "Outstanding"
        /\ IsOutstandingPut(operations'[o]) => IsOutstandingPut(operations[o]) /\ h # Operation(o)
  BY <1>1 DEF MovesOn, IsOutstandingPut
\* What is left on the wire was behind the request that is answered.
<1>6. /\ \A i \in DOMAIN Wire' : i + 1 \in DOMAIN Wire /\ Wire'[i] = Wire[i + 1] /\ 1 < i + 1
      /\ \A i, j \in DOMAIN Wire' : i < j => i + 1 < j + 1
      /\ \A i \in DOMAIN Wire : i # 1 => i - 1 \in DOMAIN Wire' /\ Wire'[i - 1] = Wire[i]
  <2>1. ASSUME NEW i \in 1 .. n, i # 1
        PROVE  i - 1 \in 1 .. n - 1 /\ Wire'[i - 1] = Wire[i]
    <3>1. i - 1 \in 1 .. n - 1 /\ (i - 1) + 1 = i
      BY <1>3, <2>1
    <3> QED BY <1>3, <3>1
  <2> QED BY <1>2, <1>3, <2>1
<1>7. \A i \in DOMAIN Wire :
        Wire[i].kind = "operation" /\ operations'[Wire[i].id].kind \in Puts => IsPutRequest(Wire[i])
  BY <1>2, <1>5 DEF IsPutRequest
\* A put that is accepted now was the first on the wire; nothing earlier is left.
<1>8. ASSUME NEW p \in Operations, Accepted(p)', ~Accepted(p)
      PROVE  /\ AppliedAfterEarlier(p)
             /\ \A o \in Operations : o < p => ~IsOutstandingPut(operations[o])
             /\ \A i \in DOMAIN Wire : i # 1 /\ IsPutRequest(Wire[i]) => p < Wire[i].id
  <2>1. ok /\ h = Operation(p)
    BY <1>1, <1>8
  <2>2. IsPutRequest(h) /\ h.kind = "operation" /\ h.id = p
    <3>1. operations[p].kind \in Puts
      BY <1>5, <1>8 DEF Accepted
    <3> QED BY <2>1, <3>1, NewRequests DEF IsPutRequest
  <2>3. AppliedAfterEarlier(p)
    <3>1. responses[1].ok /\ responses[1].request = h
      BY <1>1, <1>4, <2>1 DEF ok
    <3> QED BY <1>4, <2>2, <3>1 DEF WireOrderInv, AnswersAreLatest
  <2>4. ASSUME NEW i \in DOMAIN Wire, i # 1, IsPutRequest(Wire[i])
        PROVE  p < Wire[i].id
    <3>1. 1 < i
      BY <1>2, <2>4
    <3> QED BY <1>3, <2>2, <2>4, <3>1 DEF WireOrderInv, PutsOnWireInOrder
  <2>5. connectionState = "Connected"
    BY <1>3, <2>2 DEF WireOrderInv, SentWhenConnected
  <2>6. ASSUME NEW o \in Operations, o < p, IsOutstandingPut(operations[o])
        PROVE  FALSE
    <3>1. PICK i \in DOMAIN Wire : Wire[i] = Operation(o)
      BY <2>5, <2>6 DEF WireOrderInv, NothingWaits
    <3>2. IsPutRequest(Wire[i]) /\ Wire[i].id = o
      BY <2>6, <3>1, NewRequests DEF IsPutRequest, IsOutstandingPut
    <3>3. o \in Nat /\ p \in Nat
      BY <1>2
    <3>4. CASE i = 1
      <4>1. o = p
        BY <1>3, <2>2, <3>2, <3>4
      <4> QED BY <2>6, <3>3, <4>1
    <3>5. CASE i # 1
      <4>1. p < o
        BY <2>4, <3>2, <3>5
      <4> QED BY <2>6, <3>3, <4>1
    <3> QED BY <3>4, <3>5
  <2> QED BY <2>3, <2>4, <2>6
<1>9. CalledInOrder'
  BY <1>5 DEF WireOrderInv, CalledInOrder
<1>10. SentWhenConnected'
  BY <1>1, <1>6 DEF WireOrderInv, SentWhenConnected
<1>11. PutsOnWireInOrder'
  <2>1. ASSUME NEW i \in DOMAIN Wire', NEW j \in DOMAIN Wire', i < j,
               Wire'[i].kind = "operation", operations'[Wire'[i].id].kind \in Puts,
               Wire'[j].kind = "operation", operations'[Wire'[j].id].kind \in Puts
        PROVE  Wire'[i].id < Wire'[j].id
    <3>1. /\ i + 1 \in DOMAIN Wire /\ j + 1 \in DOMAIN Wire /\ i + 1 < j + 1
          /\ Wire'[i] = Wire[i + 1] /\ Wire'[j] = Wire[j + 1]
      BY <1>6, <2>1
    <3>2. IsPutRequest(Wire[i + 1]) /\ IsPutRequest(Wire[j + 1])
      BY <1>7, <2>1, <3>1
    <3> QED BY <3>1, <3>2 DEF WireOrderInv, PutsOnWireInOrder
  <2> QED BY <2>1 DEF PutsOnWireInOrder, IsPutRequest
<1>12. NothingWaits'
  <2>1. ASSUME connectionState = "Connected", NEW o \in Operations
        PROVE  /\ operations'[o].place # "Outstanding"
               /\ IsOutstandingPut(operations'[o]) => \E i \in DOMAIN Wire' : Wire'[i] = Operation(o)
    <3>1. /\ operations[o].place # "Outstanding"
          /\ IsOutstandingPut(operations[o]) => \E i \in DOMAIN Wire : Wire[i] = Operation(o)
      BY <2>1 DEF WireOrderInv, NothingWaits
    <3>2. ASSUME IsOutstandingPut(operations'[o])
          PROVE  \E i \in DOMAIN Wire' : Wire'[i] = Operation(o)
      <4>1. PICK i \in DOMAIN Wire : Wire[i] = Operation(o)
        BY <1>5, <3>1, <3>2
      <4>2. i # 1
        BY <1>3, <1>5, <3>2, <4>1
      <4> QED BY <1>6, <4>1, <4>2
    <3> QED BY <1>5, <3>1, <3>2
  <2> QED BY <1>1, <2>1 DEF NothingWaits
<1>13. NothingEarlierFollows'
  <2>1. ASSUME NEW p \in Operations, Accepted(p)'
        PROVE  /\ \A o \in Operations : o < p => ~IsOutstandingPut(operations'[o])
               /\ \A i \in DOMAIN Wire' :
                    Wire'[i].kind = "operation" /\ operations'[Wire'[i].id].kind \in Puts
                    => p < Wire'[i].id
    <3>1. /\ \A o \in Operations : o < p => ~IsOutstandingPut(operations[o])
          /\ \A i \in DOMAIN Wire : i # 1 /\ IsPutRequest(Wire[i]) => p < Wire[i].id
      BY <1>8, <2>1 DEF WireOrderInv, NothingEarlierFollows
    <3>2. ASSUME NEW i \in DOMAIN Wire', Wire'[i].kind = "operation",
                 operations'[Wire'[i].id].kind \in Puts
          PROVE  p < Wire'[i].id
      <4>1. i + 1 \in DOMAIN Wire /\ Wire'[i] = Wire[i + 1] /\ i + 1 # 1
        BY <1>6, <3>2
      <4>2. IsPutRequest(Wire[i + 1])
        BY <1>7, <3>2, <4>1
      <4> QED BY <3>1, <4>1, <4>2
    <3> QED BY <1>5, <3>1, <3>2
  <2> QED BY <2>1 DEF NothingEarlierFollows, Accepted, IsPutRequest
<1>14. LaterPutWins'
  <2>1. ASSUME NEW p \in Operations, Accepted(p)'
        PROVE  AppliedAfterEarlier(p)
    <3>1. CASE Accepted(p)
      BY <3>1 DEF WireOrderInv, LaterPutWins, Accepted, AppliedAfterEarlier
    <3>2. CASE ~Accepted(p)
      BY <1>8, <2>1, <3>2
    <3> QED BY <3>1, <3>2
  <2> QED BY <1>1, <2>1 DEF LaterPutWins, Accepted, AppliedAfterEarlier
<1>15. AnswersAreLatest'
  <2>1. ASSUME NEW i \in DOMAIN responses', responses'[i].ok,
               responses'[i].request.kind = "operation",
               operations'[responses'[i].request.id].kind \in Puts
        PROVE  AppliedAfterEarlier(responses'[i].request.id)
    <3>1. PICK j \in DOMAIN responses : responses'[i] = responses[j]
      BY <1>4
    <3>2. responses[j].request.id \in Operations
      BY <2>1, <3>1, WireFacts
    <3>3. IsPutRequest(responses[j].request)
      BY <1>5, <2>1, <3>1, <3>2 DEF IsPutRequest
    <3> QED BY <2>1, <3>1, <3>3 DEF WireOrderInv, AnswersAreLatest
  <2> QED BY <1>1, <2>1 DEF AnswersAreLatest, IsPutRequest, AppliedAfterEarlier
<1> QED BY <1>9, <1>10, <1>11, <1>12, <1>13, <1>14, <1>15 DEF WireOrderInv

-----------------------------------------------------------------------------
(* The effect of every action.                                             *)

\* The connection is lost: only transactions that were sent move on.
LEMMA DisconnectsEffect ==
  ASSUME IInv, NEW force \in BOOLEAN, Disconnects(force), log' = log
  PROVE  WireDropped
<1>1. /\ connectionState' = "Disconnected" /\ operations' = SentTransactionsCanceled
      /\ requests' = <<>> /\ responses' = <<>>
  BY DEF Disconnects
<1>2. operations \in [Operations -> OperationRecords]
  BY DEF IInv, TypeOK, RequestsTypeOK
<1>3. \A o \in Operations :
        IF operations[o].kind = "transaction" /\ operations[o].place = "Sent"
        THEN operations'[o] = Told(operations[o], "disconnect")
        ELSE operations'[o] = operations[o]
  BY <1>1, <1>2, SentTransactionsCanceledFields
<1>4. Wire' = <<>>
  BY <1>1 DEF Wire
<1>5. ASSUME NEW o \in Operations
      PROVE  MovesOn(operations[o], operations'[o]) /\ (Accepted(o)' => Accepted(o))
  <2>1. CASE operations'[o] = operations[o]
    BY <2>1 DEF MovesOn, Accepted
  <2>2. CASE operations[o].place = "Sent" /\ operations'[o] = Told(operations[o], "disconnect")
    <3>1. /\ operations'[o].place = "Gone" /\ operations'[o].outcome = "disconnect"
          /\ operations'[o].kind = operations[o].kind
      BY <1>2, <2>2, ToldFields DEF Outcomes
    <3> QED BY <2>2, <3>1 DEF MovesOn, Accepted
  <2> QED BY <1>3, <2>1, <2>2
<1> QED BY <1>1, <1>4, <1>5 DEF WireDropped, NothingAccepted

\* Nothing about the requests changes.
LEMMA RestsEffect ==
  ASSUME UNCHANGED <<wireVars, log>>,
         connectionState' = "Connected" <=> connectionState = "Connected"
  PROVE  WireRests
BY DEF wireVars, WireRests, NothingAccepted, MovesOn, Accepted, Wire

\* Operations move on without the backend.
LEMMA MovesEffect ==
  ASSUME NothingAccepted, UNCHANGED <<connectionState, requests, responses, log>>
  PROVE  WireRests
BY DEF WireRests, Wire

\* An auth or a listen is sent.
LEMMA SendsEffect ==
  ASSUME IInv, NEW r \in RequestRecords, r.kind # "operation", requests' = Append(requests, r),
         UNCHANGED <<operations, responses, log>>,
         connectionState' = "Connected" <=> connectionState = "Connected"
  PROVE  OtherSent(r)
<1>1. Wire' = Append(Wire, r)
  BY WireSent DEF IInv, TypeOK
<1> QED BY <1>1 DEF OtherSent

LEMMA AuthChangesEffect ==
  ASSUME IInv, AuthChanges
  PROVE  WireRests \/ \E r : OtherSent(r)
<1>1. /\ token' \in Tokens
      /\ requests' = IF Connected /\ token' # NoToken THEN Append(requests, Auth(token', FALSE))
                     ELSE requests
      /\ UNCHANGED <<connectionState, operations, listens, unackedListens, responses, log>>
  <2>1. revoked \in Nat
    BY DEF IInv, TypeOK
  <2> QED BY <2>1 DEF AuthChanges, RefreshAuthToken, Tokens, NoToken
<1>2. CASE Connected /\ token' # NoToken
  <2> DEFINE r == Auth(token', FALSE)
  <2>1. r \in RequestRecords /\ r.kind = "auth"
    BY <1>1, <1>2, NewRequests
  <2>2. requests' = Append(requests, r)
    BY <1>1, <1>2
  <2> HIDE DEF r
  <2>3. OtherSent(r)
    BY <1>1, <2>1, <2>2, SendsEffect
  <2> QED BY <2>3
<1>3. CASE ~(Connected /\ token' # NoToken)
  BY <1>1, <1>3, RestsEffect DEF wireVars
<1> QED BY <1>2, <1>3

LEMMA ListenEffect ==
  ASSUME IInv, NEW q \in Queries, ListenTo(q)
  PROVE  WireRests \/ \E r : OtherSent(r)
<1>1. /\ listenCount' \in Nat \ {0}
      /\ UNCHANGED <<connectionState, operations, responses, log>>
  BY DEF ListenTo, connectionVars, outside, IInv, TypeOK
<1>2. CASE Connected
  <2> DEFINE r == Listen(listenCount')
  <2>1. r \in RequestRecords /\ r.kind = "listen"
    BY <1>1, NewRequests DEF NotListening
  <2>2. requests' = Append(requests, r)
    BY <1>2 DEF ListenTo
  <2> HIDE DEF r
  <2>3. OtherSent(r)
    BY <1>1, <2>1, <2>2, SendsEffect
  <2> QED BY <2>3
<1>3. CASE ~Connected
  <2>1. requests' = requests
    BY <1>3 DEF ListenTo
  <2>2. NothingAccepted
    BY <1>1 DEF NothingAccepted, MovesOn, Accepted
  <2> QED BY <1>1, <2>1, <2>2, MovesEffect
<1> QED BY <1>2, <1>3

\* Purging, and a get that times out.
LEMMA PurgesEffect ==
  ASSUME IInv, PurgeOutstandingWrites
  PROVE  WireRests
<1>1. /\ operations' = [o \in Operations |-> Purged(operations[o])]
      /\ UNCHANGED <<connectionState, requests, responses, log>>
  BY DEF PurgeOutstandingWrites, connectionVars, outside
<1>2. ASSUME NEW o \in Operations
      PROVE  MovesOn(operations[o], operations'[o]) /\ (Accepted(o)' => Accepted(o))
  <2> DEFINE op == operations[o]
             new == operations'[o]
  <2>1. op \in OperationRecords /\ ToldOnce(op) /\ new = Purged(op)
    BY <1>1, RequestTypes DEF IInv, TypeOK, ToldInv
  <2> HIDE DEF op, new
  <2>2. \/ new = op
        \/ op.place = "ToAck" /\ new = Told(op, op.outcome)
        \/ op.place \in {"Outstanding", "Sent"} /\ new = Told(op, "canceled")
    BY <2>1 DEF Purged, IsOutstandingPut
  <2>3. /\ MovesOn(op, new)
        /\ new.kind \in Puts /\ new.outcome = "ok" => op.kind \in Puts /\ op.outcome = "ok"
    <3>1. CASE new = op
      BY <3>1 DEF MovesOn
    <3>2. CASE op.place = "ToAck" /\ new = Told(op, op.outcome)
      <4>1. op.outcome \in Outcomes
        BY <2>1, <3>2 DEF ToldOnce, Outcomes
      <4>2. new.place = "Gone" /\ new.outcome = op.outcome /\ new.kind = op.kind
        BY <2>1, <3>2, <4>1, ToldFields
      <4> QED BY <3>2, <4>2 DEF MovesOn
    <3>3. CASE op.place \in {"Outstanding", "Sent"} /\ new = Told(op, "canceled")
      <4>1. new.place = "Gone" /\ new.outcome = "canceled" /\ new.kind = op.kind
        BY <2>1, <3>3, ToldFields DEF Outcomes
      <4> QED BY <3>3, <4>1 DEF MovesOn
    <3> QED BY <2>2, <3>1, <3>2, <3>3
  <2> QED BY <2>3 DEF op, new, Accepted
<1> QED BY <1>1, <1>2, MovesEffect DEF NothingAccepted

LEMMA TimesOutEffect ==
  ASSUME IInv, NEW o \in Operations, GetTimesOut(o)
  PROVE  WireRests
<1> DEFINE op == operations[o]
           new == IF op.place = "Outstanding" THEN [Told(op, "failed") EXCEPT !.timer = FALSE]
                  ELSE [op EXCEPT !.timer = FALSE]
<1>1. op \in OperationRecords /\ operations \in [Operations -> OperationRecords]
  BY RequestTypes DEF IInv, TypeOK
<1>2. /\ operations' = [operations EXCEPT ![o] = new]
      /\ UNCHANGED <<connectionState, requests, responses, log>>
  BY DEF GetTimesOut, connectionVars, outside
<1>3. /\ MovesOn(op, new)
      /\ new.kind \in Puts /\ new.outcome = "ok" => op.kind \in Puts /\ op.outcome = "ok"
  <2> HIDE DEF op
  <2>1. CASE op.place = "Outstanding"
    <3> DEFINE told == Told(op, "failed")
    <3>1. /\ told \in OperationRecords /\ told.place = "Gone" /\ told.outcome = "failed"
          /\ told.kind = op.kind
      BY <1>1, ToldFields DEF Outcomes
    <3>2. new = [told EXCEPT !.timer = FALSE]
      BY <2>1
    <3> HIDE DEF told, new
    <3>3. new.place = "Gone" /\ new.outcome = "failed" /\ new.kind = op.kind
      BY <3>1, <3>2 DEF OperationRecords
    <3> QED BY <2>1, <3>3 DEF MovesOn
  <2>2. CASE op.place # "Outstanding"
    <3>1. new = [op EXCEPT !.timer = FALSE]
      BY <2>2
    <3> HIDE DEF new
    <3>2. new.place = op.place /\ new.outcome = op.outcome /\ new.kind = op.kind
      BY <1>1, <3>1 DEF OperationRecords
    <3> QED BY <3>2 DEF MovesOn
  <2> QED BY <2>1, <2>2
<1> HIDE DEF new
<1>4. /\ operations'[o] = new
      /\ \A p \in Operations : p # o => operations'[p] = operations[p]
  BY <1>1, <1>2
<1>5. NothingAccepted
  <2>1. ASSUME NEW p \in Operations
        PROVE  MovesOn(operations[p], operations'[p]) /\ (Accepted(p)' => Accepted(p))
    <3>1. CASE p = o
      BY <1>3, <1>4, <3>1 DEF Accepted
    <3>2. CASE p # o
      <4>1. operations'[p] = operations[p]
        BY <1>4, <3>2
      <4> QED BY <4>1 DEF MovesOn, Accepted
    <3> QED BY <3>1, <3>2
  <2> QED BY <2>1 DEF NothingAccepted
<1> QED BY <1>2, <1>5, MovesEffect

\* The application calls an operation.
LEMMA CallEffect ==
  ASSUME IInv, NEW o \in Operations, NEW kind \in Kinds, Call(o, kind)
  PROVE  Called(o)
<1> DEFINE new == [NewOperation EXCEPT !.kind = kind,
                                       !.place = IF CanSend THEN "Sent" ELSE "Outstanding",
                                       !.timer = kind = "get" /\ ~Connected]
<1>1. /\ operations[o].place = "New" /\ operations' = [operations EXCEPT ![o] = new]
      /\ \A p \in 1 .. o - 1 : operations[p].place # "New"
      /\ requests' = IF CanSend THEN Append(requests, Operation(o)) ELSE requests
      /\ UNCHANGED <<connectionState, responses, log>>
  BY DEF Call, connectionVars, outside
<1>2. new.place = (IF CanSend THEN "Sent" ELSE "Outstanding") /\ new.outcome = "None"
  BY DEF NewOperation
<1> HIDE DEF new
<1>3. /\ operations'[o] = new
      /\ \A p \in Operations : p # o => operations'[p] = operations[p]
  BY <1>1 DEF IInv, TypeOK, RequestsTypeOK
<1>4. Wire' = IF CanSend THEN Append(Wire, Operation(o)) ELSE Wire
  <2>1. CASE CanSend
    <3>1. Operation(o) \in RequestRecords
      BY NewRequests
    <3> QED BY <1>1, <2>1, <3>1, WireSent DEF IInv, TypeOK
  <2>2. CASE ~CanSend
    BY <1>1, <2>2 DEF Wire
  <2> QED BY <2>1, <2>2
<1> QED BY <1>1, <1>2, <1>3, <1>4 DEF Called

\* The backend answers the first request.
LEMMA AnswersEffect ==
  ASSUME IInv, ServerAnswers
  PROVE  \E ok \in BOOLEAN : Answered(ok)
<1> DEFINE first == Head(requests)
<1>1. /\ requests # <<>> /\ requests' = Tail(requests)
      /\ UNCHANGED <<connectionState, operations>>
  BY DEF ServerAnswers, connectionVars
<1>2. PICK ok \in BOOLEAN :
        /\ responses' = Append(responses, [request |-> first, ok |-> ok])
        /\ log' = IF ok /\ first.kind = "operation" /\ operations[first.id].kind \in Puts
                  THEN Append(log, first.id) ELSE log
  <2>1. requests \in Seq(RequestRecords) /\ revoked \in Nat
    BY DEF IInv, TypeOK, RequestsTypeOK
  <2>2. first \in RequestRecords
    BY <1>1, <2>1, HeadTailProperties
  <2> HIDE DEF first
  <2>3. first.id \in Nat
    BY <2>2, RequestFields
  <2>4. (first.id > revoked) \in BOOLEAN
    BY <2>1, <2>3
  <2>5. Verdicts(first) \subseteq BOOLEAN
    BY <2>4 DEF Verdicts
  <2> QED BY <2>5 DEF ServerAnswers, first
<1>3. Wire' = Wire
  BY <1>1, <1>2, WireAnswered DEF IInv, TypeOK
<1>4. Answered(ok)
  BY <1>1, <1>2, <1>3 DEF Answered, IsPutRequest
<1> QED BY <1>4
\* The state is restored, and no operation was sent on the connection before.
LEMMA RestoresEffect ==
  ASSUME IInv, WireOrderInv, RestoreState, connectionState # "Connected", log' = log,
         RequestsTypeOK',
         \A i \in DOMAIN responses' : \E j \in DOMAIN responses : responses'[i] = responses[j]
  PROVE  Restored
<1> DEFINE n == Len(requests)
           N == Len(requests')
           m == Len(responses')
<1>1. connectionState' = "Connected" /\ operations' = OutstandingSent
  BY DEF RestoreState
<1>2. RequestsTypeOK /\ operations \in [Operations -> OperationRecords]
  BY DEF IInv, TypeOK, RequestsTypeOK
<1>3. /\ \A i \in n + 1 .. N : requests'[i].kind = "operation" => requests'[i].id \in ToRestore
      /\ \A i, j \in n + 1 .. N :
           i < j /\ requests'[i].kind = "operation" /\ requests'[j].kind = "operation" =>
             Before(requests'[i].id, requests'[j].id)
      /\ \A o \in ToRestore : \E i \in n + 1 .. N : requests'[i] = Operation(o)
      /\ \A i \in 1 .. n : requests'[i] = requests[i]
      /\ n \in Nat /\ N >= n
  BY <1>2, RestoredRequests, WireParts
<1>4. /\ \A i \in 1 .. n : requests[i].kind # "operation"
      /\ \A i \in DOMAIN responses : responses[i].request.kind # "operation"
  <2>1. \A i \in DOMAIN Wire : Wire[i].kind # "operation"
    BY DEF WireOrderInv, SentWhenConnected
  <2> HIDE DEF Wire
  <2> QED BY <1>2, <2>1, WireParts
<1>5. \A i \in DOMAIN responses' : responses'[i].request.kind # "operation"
  BY <1>4
<1>6. /\ m \in Nat /\ N \in Nat /\ DOMAIN requests' = 1 .. N
      /\ \A i \in DOMAIN requests' : m + i \in DOMAIN Wire' /\ Wire'[m + i] = requests'[i]
      /\ \A i \in DOMAIN Wire' :
           \/ i \in DOMAIN responses' /\ Wire'[i] = responses'[i].request
           \/ i - m \in DOMAIN requests' /\ Wire'[i] = requests'[i - m]
      /\ DOMAIN Wire' \subseteq Int
  <2> DEFINE w == AnsweredOf(responses') \o requests'
  <2>1. responses' \in Seq(ResponseRecords) /\ requests' \in Seq(RequestRecords)
    BY DEF RequestsTypeOK, ResponseRecords
  <2>2. Wire' = w
    BY DEF Wire, AnsweredOf
  <2>3. /\ m \in Nat /\ N \in Nat /\ DOMAIN requests' = 1 .. N
        /\ w \in Seq(RequestRecords)
        /\ \A i \in DOMAIN requests' : m + i \in DOMAIN w /\ w[m + i] = requests'[i]
        /\ \A i \in DOMAIN w :
             \/ i \in DOMAIN responses' /\ w[i] = responses'[i].request
             \/ i - m \in DOMAIN requests' /\ w[i] = requests'[i - m]
    BY <2>1, JoinedParts
  <2> HIDE DEF w, Wire, m, N
  <2>4. DOMAIN w \subseteq Int
    BY <2>3, LenProperties
  <2> QED BY <2>2, <2>3, <2>4
<1> HIDE DEF n, N, m, Wire
\* The operations on the new wire are those that restoreState sends.
<1>7. ASSUME NEW i \in DOMAIN Wire', Wire'[i].kind = "operation"
      PROVE  i - m \in n + 1 .. N /\ Wire'[i] = requests'[i - m]
  <2>1. i - m \in 1 .. N /\ Wire'[i] = requests'[i - m]
    BY <1>5, <1>6, <1>7
  <2>2. i - m \notin 1 .. n
    BY <1>3, <1>4, <1>7, <2>1
  <2>3. i - m \in n + 1 .. N
    BY <1>3, <1>6, <2>1, <2>2
  <2> QED BY <2>1, <2>3
<1>8. \A i \in DOMAIN Wire' : Wire'[i].kind = "operation" => Wire'[i].id \in ToRestore
  BY <1>3, <1>7
<1>9. ASSUME NEW i \in DOMAIN Wire', NEW j \in DOMAIN Wire', i < j,
             IsPutRequest(Wire'[i]), IsPutRequest(Wire'[j])
      PROVE  Wire'[i].id < Wire'[j].id
  <2>1. /\ i - m \in n + 1 .. N /\ Wire'[i] = requests'[i - m]
        /\ j - m \in n + 1 .. N /\ Wire'[j] = requests'[j - m]
        /\ Wire'[i].kind = "operation" /\ Wire'[j].kind = "operation"
    BY <1>7, <1>9 DEF IsPutRequest
  <2>2. i - m < j - m
    <3>1. i \in Int /\ j \in Int /\ m \in Int
      BY <1>6
    <3> QED BY <1>9, <3>1
  <2>3. Before(Wire'[i].id, Wire'[j].id)
    BY <1>3, <2>1, <2>2
  <2>4. Rank(operations[Wire'[i].id].kind) = 1 /\ Rank(operations[Wire'[j].id].kind) = 1
    BY <1>9 DEF IsPutRequest, Rank, Puts
  <2> QED BY <2>3, <2>4 DEF Before
<1>10. ASSUME NEW o \in ToRestore
       PROVE  \E i \in DOMAIN Wire' : Wire'[i] = Operation(o)
  <2>1. PICK k \in n + 1 .. N : requests'[k] = Operation(o)
    BY <1>3
  <2>2. k \in DOMAIN requests'
    BY <1>3, <1>6
  <2> QED BY <1>6, <2>1, <2>2
<1>11. \A o \in Operations :
         /\ operations'[o].kind = operations[o].kind
         /\ operations'[o].outcome = operations[o].outcome
         /\ operations'[o].place =
              IF operations[o].place = "Outstanding" THEN "Sent" ELSE operations[o].place
  BY <1>1, <1>2, OutstandingSentFields
<1> QED BY <1>1, <1>5, <1>8, <1>9, <1>10, <1>11 DEF Restored

\* A handshake is followed by restoreAuth or restoreState.
LEMMA HandshakeEffect ==
  ASSUME IInv, IInv', WireOrderInv, Handshake
  PROVE  Restored \/ \E r : OtherSent(r)
<1>1. /\ connectionState = "Connecting" /\ authToken \in Tokens
      /\ UNCHANGED <<responses, log>>
  BY DEF Handshake, IInv, TypeOK, ConnectionTypeOK, ConnectionInv, ConnectionAssertions, outside
<1>2. CASE authToken = NoToken
  <2>1. RestoreState
    BY <1>2 DEF Handshake
  <2>2. RequestsTypeOK'
    BY DEF IInv, TypeOK
  <2> QED BY <1>1, <2>1, <2>2, RestoresEffect
<1>3. CASE authToken # NoToken
  <2> DEFINE r == Auth(authToken, TRUE)
  <2>1. /\ connectionState' = "Authenticating" /\ requests' = Append(requests, r)
        /\ operations' = operations
    BY <1>3 DEF Handshake
  <2>2. r \in RequestRecords /\ r.kind = "auth"
    BY <1>1, <1>3, NewRequests
  <2> HIDE DEF r
  <2>3. OtherSent(r)
    BY <1>1, <2>1, <2>2, SendsEffect
  <2> QED BY <2>3
<1> QED BY <1>2, <1>3

\* An answer other than to an operation: a listen's may let puts be told.
LEMMA OtherAnswerEffect ==
  ASSUME IInv, responses # <<>>, responses' = Tail(responses),
         Head(responses).request.kind # "operation",
         \/ operations' = operations
         \/ operations' = PutsAcked,
         UNCHANGED <<connectionState, requests, log>>
  PROVE  Received
<1>1. Wire # <<>> /\ Wire' = Tail(Wire) /\ Head(responses).request = Head(Wire)
  BY WireReceived DEF IInv, TypeOK
<1> HIDE DEF Wire
<1>2. ASSUME NEW o \in Operations
      PROVE  /\ MovesOn(operations[o], operations'[o]) /\ (Accepted(o)' => Accepted(o))
             /\ Head(Wire) # Operation(o)
  <2>1. Head(Wire) # Operation(o)
    BY <1>1, NewRequests
  <2>2. \/ operations'[o] = operations[o]
        \/ /\ operations[o].place = "ToAck"
           /\ operations'[o] = Told(operations[o], operations[o].outcome)
    BY DEF PutsAcked
  <2>3. CASE operations'[o] = operations[o]
    BY <2>1, <2>3 DEF MovesOn, Accepted
  <2>4. CASE /\ operations[o].place = "ToAck"
             /\ operations'[o] = Told(operations[o], operations[o].outcome)
    <3>1. operations[o] \in OperationRecords /\ operations[o].outcome \in Outcomes
      BY <2>4, RequestTypes DEF IInv, TypeOK, ToldInv, ToldOnce, Outcomes
    <3>2. /\ operations'[o].place = "Gone" /\ operations'[o].outcome = operations[o].outcome
          /\ operations'[o].kind = operations[o].kind
      BY <2>4, <3>1, ToldFields
    <3> QED BY <2>1, <2>4, <3>2 DEF MovesOn, Accepted
  <2> QED BY <2>2, <2>3, <2>4
<1> QED BY <1>1, <1>2 DEF Received

\* The answer to an operation: a put is no longer outstanding.
LEMMA OperationAnswerEffect ==
  ASSUME IInv, WireOrderInv, responses # <<>>, responses' = Tail(responses),
         Head(responses).request.kind = "operation",
         OperationAnswered(Head(responses).request.id, Head(responses).ok),
         UNCHANGED <<connectionState, requests, log>>
  PROVE  Received
<1> DEFINE o == Head(responses).request.id
           ok == Head(responses).ok
           op == operations[o]
           new == CASE op.place # "Sent" -> op
                    [] op.place = "Sent" /\ op.kind \in Puts /\ unackedListens # 0 ->
                         [op EXCEPT !.place = "ToAck", !.outcome = Outcome(ok)]
                    [] op.place = "Sent" /\ op.kind = "onDisconnect" /\ ok ->
                         [op EXCEPT !.place = "Gone"]
                    [] OTHER -> Told(op, Outcome(ok))
<1>1. /\ Wire # <<>> /\ Wire' = Tail(Wire) /\ Head(responses).request = Head(Wire)
      /\ 1 \in DOMAIN Wire /\ Wire[1] = Head(responses).request
  BY WireReceived DEF IInv, TypeOK
<1> HIDE DEF Wire
<1>2. o \in Operations /\ operations \in [Operations -> OperationRecords]
  <2>1. o \in Operations
    BY <1>1, WireFacts
  <2> QED BY <2>1 DEF IInv, TypeOK, RequestsTypeOK
<1>3. operations' = [operations EXCEPT ![o] = new]
  BY DEF OperationAnswered
<1>4. op \in OperationRecords /\ op.place # "New" /\ op.place # "Outstanding"
  <2>1. op.place # "New"
    BY <1>1, WireFacts
  <2>2. connectionState = "Connected"
    BY <1>1 DEF WireOrderInv, SentWhenConnected
  <2> QED BY <1>2, <2>1, <2>2 DEF WireOrderInv, NothingWaits
<1>5. Outcome(ok) \in Outcomes /\ (Outcome(ok) = "ok" => ok)
  BY DEF Outcome, Outcomes
<1> HIDE DEF op, o, ok
<1>6. /\ MovesOn(op, new) /\ ~IsOutstandingPut(new)
      /\ new.kind \in Puts /\ new.outcome = "ok" => ok \/ (op.kind \in Puts /\ op.outcome = "ok")
  <2>1. CASE op.place # "Sent"
    <3>1. new = op
      BY <2>1
    <3> QED BY <1>4, <2>1, <3>1 DEF MovesOn, IsOutstandingPut
  <2>2. CASE op.place = "Sent" /\ op.kind \in Puts /\ unackedListens # 0
    <3>1. new = [op EXCEPT !.place = "ToAck", !.outcome = Outcome(ok)]
      BY <2>2 DEF Puts
    <3> HIDE DEF new
    <3>2. new.place = "ToAck" /\ new.outcome = Outcome(ok) /\ new.kind = op.kind
      BY <1>4, <3>1 DEF OperationRecords
    <3> QED BY <1>5, <2>2, <3>2 DEF MovesOn, IsOutstandingPut
  <2>3. CASE op.place = "Sent" /\ op.kind = "onDisconnect" /\ ok
    <3>1. new = [op EXCEPT !.place = "Gone"]
      BY <2>3 DEF Puts
    <3> HIDE DEF new
    <3>2. new.place = "Gone" /\ new.outcome = op.outcome /\ new.kind = op.kind
      BY <1>4, <3>1 DEF OperationRecords
    <3> QED BY <2>3, <3>2 DEF MovesOn, IsOutstandingPut
  <2>4. CASE /\ op.place = "Sent" /\ ~(op.kind \in Puts /\ unackedListens # 0)
             /\ ~(op.kind = "onDisconnect" /\ ok)
    <3>1. new = Told(op, Outcome(ok))
      BY <2>4
    <3> HIDE DEF new
    <3>2. new.place = "Gone" /\ new.outcome = Outcome(ok) /\ new.kind = op.kind
      BY <1>4, <1>5, <3>1, ToldFields
    <3> QED BY <1>5, <2>4, <3>2 DEF MovesOn, IsOutstandingPut
  <2> QED BY <2>1, <2>2, <2>3, <2>4
<1> HIDE DEF new
<1>7. /\ operations'[o] = new
      /\ \A p \in Operations : p # o => operations'[p] = operations[p]
  BY <1>2, <1>3
<1>8. Head(Wire) = Operation(o)
  <2>1. Wire[1].kind = "operation" /\ Wire[1].id = o
    BY <1>1 DEF o
  <2> QED BY <1>1, <2>1, WireFacts
<1>9. ASSUME NEW p \in Operations
      PROVE  /\ MovesOn(operations[p], operations'[p])
             /\ \/ Accepted(p)' => Accepted(p)
                \/ ok /\ Head(Wire) = Operation(p)
             /\ Head(Wire) = Operation(p) => ~IsOutstandingPut(operations'[p])
  <2>1. CASE p = o
    BY <1>6, <1>7, <1>8, <2>1 DEF Accepted, op
  <2>2. CASE p # o
    <3>1. operations'[p] = operations[p]
      BY <1>7, <2>2
    <3>2. Head(Wire) # Operation(p)
      BY <1>2, <1>8, <2>2, NewRequests
    <3> QED BY <3>1, <3>2 DEF MovesOn, Accepted
  <2> QED BY <2>1, <2>2
<1> QED BY <1>1, <1>9 DEF Received, ok
\* An answer is received.
LEMMA ReceivesEffect ==
  ASSUME IInv, IInv', WireOrderInv, Receives
  PROVE  WireDropped \/ Restored \/ Received
<1> DEFINE response == Head(responses)
<1>1. /\ responses # <<>> /\ log' = log
      /\ RequestsKept /\ realtime = "Connected" /\ connectionState \in {"Authenticating", "Connected"}
  BY Parts DEF Kept, Receives, outside, IInv, ConnectionInv, Connected
<1>2. CASE response.request.kind = "auth" /\ AuthAnswered(response)
  <2>1. CASE ~response.ok
    <3>1. Disconnects(TRUE)
      BY <1>2, <2>1 DEF AuthAnswered, RejectsToken
    <3> QED BY <1>1, <3>1, DisconnectsEffect
  <2>2. CASE response.ok /\ response.request.restore
    <3>1. RestoreState /\ responses' = Tail(responses)
      BY <1>2, <2>2 DEF AuthAnswered
    <3>2. connectionState = "Authenticating"
      BY <1>1, <2>2, FirstAnswer
    <3>3. \A i \in DOMAIN responses' : \E j \in DOMAIN responses : responses'[i] = responses[j]
      BY <1>1, <3>1, FirstAnswer
    <3>4. RequestsTypeOK'
      BY DEF IInv, TypeOK
    <3> QED BY <1>1, <3>1, <3>2, <3>3, <3>4, RestoresEffect
  <2>3. CASE response.ok /\ ~response.request.restore
    <3>1. /\ connectionState' = "Connected" /\ responses' = Tail(responses)
          /\ UNCHANGED <<requests, operations>>
      BY <1>2, <2>3 DEF AuthAnswered
    <3>2. connectionState = "Connected"
      BY <1>1, <2>3, FirstAnswer
    <3> QED BY <1>1, <1>2, <3>1, <3>2, OtherAnswerEffect
  <2> QED BY <2>1, <2>2, <2>3
<1>3. CASE /\ response.request.kind = "operation"
           /\ OperationAnswered(response.request.id, response.ok)
           /\ responses' = Tail(responses) /\ UNCHANGED <<connectionVars, requests>>
  BY <1>1, <1>3, OperationAnswerEffect DEF connectionVars
<1>4. CASE /\ response.request.kind = "listen"
           /\ ListenAnswered(response.request.id, response.ok)
           /\ responses' = Tail(responses) /\ UNCHANGED <<connectionVars, requests>>
  <2>1. operations' = operations \/ operations' = PutsAcked
    BY <1>4 DEF ListenAnswered
  <2> QED BY <1>1, <1>4, <2>1, OtherAnswerEffect DEF connectionVars
<1> QED BY <1>2, <1>3, <1>4 DEF Receives

-----------------------------------------------------------------------------
(* The invariant.                                                          *)

\* Nothing is on the wire, and no operation is called.
LEMMA InitOrder == Init => WireOrderInv
<1> SUFFICES ASSUME Init PROVE WireOrderInv
  OBVIOUS
<1>1. /\ connectionState = "Disconnected" /\ requests = <<>> /\ responses = <<>> /\ log = <<>>
      /\ operations = [o \in Operations |-> NewOperation]
  BY DEF Init
<1>2. Wire = <<>> /\ DOMAIN Wire = {} /\ DOMAIN log = {} /\ DOMAIN responses = {}
  <2>1. Wire = <<>>
    BY <1>1 DEF Wire
  <2> HIDE DEF Wire
  <2> QED BY <1>1, <2>1
<1> HIDE DEF Wire
<1>3. \A o \in Operations : operations[o].place = "New" /\ operations[o].outcome = "None"
  BY <1>1 DEF NewOperation
<1> QED BY <1>1, <1>2, <1>3 DEF WireOrderInv, CalledInOrder, SentWhenConnected,
      PutsOnWireInOrder, NothingWaits, NothingEarlierFollows, AnswersAreLatest, LaterPutWins, Accepted

LEMMA NextOrder ==
  ASSUME StaleFailures = FALSE, IInv, IInv', WireOrderInv, [Next]_vars
  PROVE  WireOrderInv'
<1>1. /\ ConnectionInv /\ TypeOK /\ forceTokenRefreshes \in BOOLEAN
  BY DEF IInv, TypeOK, ConnectionTypeOK
\* The shapes of the steps.
<1>2. ASSUME WireRests PROVE WireOrderInv'
  BY <1>2, WireRestsKeeps
<1>3. ASSUME WireDropped PROVE WireOrderInv'
  BY <1>3, WireDroppedKeeps
<1>4. ASSUME NEW r, OtherSent(r) PROVE WireOrderInv'
  BY <1>4, OtherSentKeeps
<1>5. ASSUME NEW force \in BOOLEAN, Disconnects(force), log' = log
      PROVE  WireOrderInv'
  BY <1>3, <1>5, DisconnectsEffect
<1>6. ASSUME ~Connected, connectionState' # "Connected", UNCHANGED <<wireVars, log>>
      PROVE  WireOrderInv'
  BY <1>2, <1>6, RestsEffect DEF Connected
<1>7. ASSUME NEW reason, Resume(reason)
      PROVE  WireOrderInv'
  BY <1>2, <1>7, RestsEffect DEF Resume, outside, requestVars, wireVars
<1>8. ASSUME NEW reason, Interrupt(reason), UNCHANGED outside
      PROVE  WireOrderInv'
  <2>1. CASE realtime # "None"
    BY <1>1, <1>5, <1>8, <2>1 DEF Interrupt, outside
  <2>2. CASE realtime = "None"
    <3>1. connectionState' = "Disconnected" /\ UNCHANGED wireVars
      BY <1>8, <2>2 DEF Interrupt, CancelsRetry, requestVars, wireVars
    <3>2. ~Connected
      BY <1>1, <2>2 DEF ConnectionInv, ConnectionAssertions
    <3> QED BY <1>6, <1>8, <3>1, <3>2 DEF outside
  <2> QED BY <2>1, <2>2
<1>9. CASE Open \/ GoOnline
  BY <1>7, <1>9 DEF Open, GoOnline
<1>10. CASE GoOffline
  BY <1>8, <1>10 DEF GoOffline
<1>11. CASE ServerKills
  BY <1>8, <1>11 DEF ServerKills
<1>12. CASE SystemClockChanges
  <2>1. UNCHANGED outside
    BY <1>12 DEF SystemClockChanges
  <2>2. CASE Disconnects(forceTokenRefreshes)
    BY <1>1, <1>5, <2>1, <2>2 DEF outside
  <2>3. CASE realtime = "None" /\ connectionState' = "Disconnected" /\ UNCHANGED wireVars
    <3>1. ~Connected
      BY <1>1, <2>3 DEF ConnectionInv, ConnectionAssertions
    <3> QED BY <1>6, <2>1, <2>3, <3>1 DEF outside
  <2> QED BY <1>12, <2>2, <2>3 DEF SystemClockChanges, CancelsRetry, requestVars, wireVars
<1>13. CASE EnteringForeground
  BY <1>2, <1>13, RestsEffect DEF EnteringForeground, outside, requestVars, wireVars
<1>14. CASE RetryFires
  <2>1. /\ scheduledRetry # "None" /\ connectionState' = "GettingToken"
        /\ UNCHANGED <<wireVars, outside>>
    BY <1>14 DEF RetryFires, requestVars, wireVars
  <2>2. ~Connected
    BY <1>1, <2>1 DEF ConnectionInv, ConnectionAssertions, Connected
  <2> QED BY <1>6, <2>1, <2>2 DEF outside
<1>15. CASE FetchSucceeds
  <2>1. fetch # NoFetch /\ TokenArrives(Fetched) /\ log' = log
    BY <1>15 DEF FetchSucceeds
  <2>2. ~Connected
    BY <1>1, <2>1 DEF ConnectionInv, ConnectionAssertions, Connected
  <2>3. CASE connectionState = "GettingToken"
    <3>1. requests = <<>> /\ responses = <<>>
      BY <1>1, <2>2 DEF ConnectionInv, ConnectionAssertions
    <3>2. connectionState' = "Connecting" /\ UNCHANGED wireVars
      BY <2>1, <2>3, <3>1 DEF TokenArrives, OpenNetworkConnection, wireVars
    <3> QED BY <1>6, <2>1, <2>2, <3>2
  <2>4. CASE connectionState # "GettingToken"
    BY <1>2, <2>1, <2>4, RestsEffect DEF TokenArrives, requestVars, wireVars
  <2> QED BY <2>3, <2>4
<1>16. CASE FetchFails
  <2>1. fetch # NoFetch /\ connectionState' = "Disconnected" /\ UNCHANGED <<wireVars, outside>>
    BY <1>16 DEF FetchFails, requestVars, wireVars
  <2>2. ~Connected
    BY <1>1, <2>1 DEF ConnectionInv, ConnectionAssertions, Connected
  <2> QED BY <1>6, <2>1, <2>2 DEF outside
<1>17. CASE ConnectionLost
  BY <1>1, <1>5, <1>17 DEF ConnectionLost, outside
<1>18. CASE AuthRevoked
  BY <1>5, <1>18 DEF AuthRevoked, RejectsToken, outside
<1>19. CASE TokenRevoked
  BY <1>2, <1>19, RestsEffect DEF TokenRevoked, connectionVars, requestVars, wireVars
<1>20. CASE Handshake
  BY <1>4, <1>20, HandshakeEffect, RestoredKeeps
<1>21. CASE Receives
  BY <1>3, <1>21, ReceivesEffect, RestoredKeeps, ReceivedKeeps
<1>22. CASE ServerAnswers
  BY <1>22, AnswersEffect, AnsweredKeeps
<1>23. CASE AuthChanges
  BY <1>2, <1>4, <1>23, AuthChangesEffect
<1>24. CASE PurgeOutstandingWrites
  BY <1>2, <1>24, PurgesEffect
<1>25. ASSUME NEW o \in Operations, GetTimesOut(o)
       PROVE  WireOrderInv'
  BY <1>2, <1>25, TimesOutEffect
<1>26. ASSUME NEW o \in Operations, NEW kind \in Kinds, Call(o, kind)
       PROVE  WireOrderInv'
  BY <1>26, CallEffect, CalledKeeps
<1>27. ASSUME NEW q \in Queries, ListenTo(q)
       PROVE  WireOrderInv'
  BY <1>2, <1>4, <1>27, ListenEffect
<1>28. ASSUME NEW q \in Queries, Unlisten(q)
       PROVE  WireOrderInv'
  <2>1. UNCHANGED <<connectionState, operations, requests, responses, log>>
    BY <1>28 DEF Unlisten, connectionVars, outside
  <2>2. NothingAccepted
    BY <2>1 DEF NothingAccepted, MovesOn, Accepted
  <2> QED BY <1>2, <2>1, <2>2, MovesEffect
<1>29. CASE UNCHANGED vars
  BY <1>2, <1>29, RestsEffect DEF vars, connectionVars, outside, requestVars, wireVars
<1>30. CASE Next
  BY <1>9, <1>10, <1>11, <1>12, <1>13, <1>14, <1>15, <1>16, <1>17, <1>18, <1>19, <1>20, <1>21,
     <1>22, <1>23, <1>24, <1>25, <1>26, <1>27, <1>28, <1>30 DEF Next, Fetches, Network
<1> QED BY <1>29, <1>30

LEMMA SpecOrder ==
  ASSUME StaleFailures = FALSE
  PROVE  Spec => []WireOrderInv
<1>1. IInv /\ IInv' /\ WireOrderInv /\ [Next]_vars => WireOrderInv'
  BY NextOrder
<1> QED BY <1>1, InitOrder, SpecIInv, PTL DEF Spec

\* An outstanding put is sent once: two of them on the wire would be out of order.
LEMMA OnTheWireOnce ==
  ASSUME IInv, WireOrderInv, ListensInv
  PROVE  OutstandingOnTheWire
<1> HIDE DEF Wire
<1> SUFFICES ASSUME connectionState = "Connected", NEW o \in Operations
             PROVE  /\ operations[o].place # "Outstanding"
                    /\ IsOutstandingPut(operations[o]) => Times(Operation(o)) = 1
  BY DEF OutstandingOnTheWire, ListensInv, ListensReachBackend
<1>1. /\ operations[o].place # "Outstanding"
      /\ IsOutstandingPut(operations[o]) => \E i \in DOMAIN Wire : Wire[i] = Operation(o)
  BY DEF WireOrderInv, NothingWaits
<1>2. ASSUME IsOutstandingPut(operations[o])
      PROVE  Times(Operation(o)) = 1
  <2>1. PICK i \in DOMAIN Wire : Wire[i] = Operation(o)
    BY <1>1, <1>2
  <2>2. DOMAIN Wire = 1 .. Len(Wire) /\ Len(Wire) \in Nat /\ o \in Nat
    BY WireFacts
  <2>3. ASSUME NEW j \in DOMAIN Wire, Wire[j] = Operation(o)
        PROVE  j = i
    <3>1. /\ IsPutRequest(Wire[i]) /\ Wire[i].id = o
          /\ IsPutRequest(Wire[j]) /\ Wire[j].id = o
      BY <1>2, <2>1, <2>3, NewRequests DEF IsPutRequest, IsOutstandingPut
    <3>2. ~(i < j) /\ ~(j < i)
      <4>1. i < j => o < o
        BY <3>1 DEF WireOrderInv, PutsOnWireInOrder
      <4>2. j < i => o < o
        BY <3>1 DEF WireOrderInv, PutsOnWireInOrder
      <4>3. ~(o < o)
        BY <2>2
      <4> QED BY <4>1, <4>2, <4>3
    <3> QED BY <2>2, <3>2
  <2>4. {j \in DOMAIN Wire : Wire[j] = Operation(o)} = {i}
    BY <2>1, <2>3
  <2> QED BY <2>4, FS_Singleton DEF Times
<1> QED BY <1>1, <1>2

-----------------------------------------------------------------------------
(* The listens.                                                            *)

\* Answers that are still to be received were answered before.
AnswersStay ==
  /\ accepted \subseteq accepted'
  /\ \A i \in DOMAIN responses' : \E j \in DOMAIN responses : responses'[i] = responses[j]

\* Requests on the wire stay there.
WireStays == \A i \in DOMAIN Wire : \E j \in DOMAIN Wire' : Wire'[j] = Wire[i]

\* No listen is new.
NoNewListens == \A q \in Queries : listens'[q] \in {listens[q], NotListening}

LEMMA AnswersStayAccepted ==
  ASSUME ListensInv, AnswersStay
  PROVE  AnswersAccepted'
BY DEF ListensInv, AnswersAccepted, AnswersStay

\* Without a restored connection nothing is said of the listens.
LEMMA NotConnectedListens ==
  ASSUME ListensInv, connectionState' # "Connected",
         responses' = <<>> \/ AnswersStay
  PROVE  ListensInv'
<1>1. AnswersAccepted'
  <2>1. CASE responses' = <<>>
    <3>1. DOMAIN responses' = {}
      BY <2>1
    <3> QED BY <3>1 DEF AnswersAccepted
  <2> QED BY <2>1, AnswersStayAccepted
<1> QED BY <1>1 DEF ListensInv, ListensReachBackend

\* What is on the wire, or accepted, remains so.
LEMMA SteadyListens ==
  ASSUME ListensInv, AnswersStay, WireStays, NoNewListens,
         connectionState' = "Connected" => connectionState = "Connected"
  PROVE  ListensInv'
<1> HIDE DEF Wire
<1>1. ASSUME connectionState' = "Connected", NEW q \in Queries, listens'[q] # NotListening
      PROVE  \/ listens'[q] \in accepted'
             \/ \E i \in DOMAIN Wire' : Wire'[i] = Listen(listens'[q])
  <2>1. listens'[q] = listens[q] /\ q \in Listening /\ connectionState = "Connected"
    BY <1>1 DEF NoNewListens, Listening
  <2>2. \/ listens[q] \in accepted
        \/ \E i \in DOMAIN Wire : Wire[i] = Listen(listens[q])
    BY <2>1 DEF ListensInv, ListensReachBackend
  <2>3. CASE listens[q] \in accepted
    BY <2>1, <2>3 DEF AnswersStay
  <2>4. ASSUME NEW i \in DOMAIN Wire, Wire[i] = Listen(listens[q])
        PROVE  \E j \in DOMAIN Wire' : Wire'[j] = Listen(listens'[q])
    <3>1. PICK j \in DOMAIN Wire' : Wire'[j] = Wire[i]
      BY DEF WireStays
    <3> QED BY <2>1, <2>4, <3>1
  <2> QED BY <2>2, <2>3, <2>4
<1>2. ListensReachBackend'
  <2>1. \A q \in Listening' : q \in Queries /\ listens'[q] # NotListening
    BY DEF Listening
  <2> QED BY <1>1, <2>1 DEF ListensReachBackend
<1> QED BY <1>2, AnswersStayAccepted DEF ListensInv

\* A request is sent, and stays on the wire with those before it.
LEMMA SentStays ==
  ASSUME IInv, responses' = responses,
         requests' = requests \/ \E r \in RequestRecords : requests' = Append(requests, r)
  PROVE  WireStays
<1>1. CASE requests' = requests
  BY <1>1 DEF WireStays, Wire
<1>2. ASSUME NEW r \in RequestRecords, requests' = Append(requests, r)
      PROVE  WireStays
  <2>1. Wire' = Append(Wire, r)
    BY <1>2, WireSent DEF IInv, TypeOK
  <2> HIDE DEF Wire
  <2>2. Wire \in Seq(RequestRecords)
    BY WireFacts
  <2>3. \A i \in DOMAIN Wire : i \in DOMAIN Wire' /\ Wire'[i] = Wire[i]
    BY <2>1, <2>2, AppendProperties
  <2> QED BY <2>3 DEF WireStays
<1> QED BY <1>1, <1>2

\* Nothing is sent or accepted, and no listen is new.
LEMMA SameListens ==
  ASSUME IInv, ListensInv, NoNewListens, UNCHANGED <<connectionState, responses, accepted>>,
         requests' = requests \/ \E r \in RequestRecords : requests' = Append(requests, r)
  PROVE  ListensInv'
<1>1. AnswersStay
  BY DEF AnswersStay
<1> QED BY <1>1, SentStays, SteadyListens

\* restoreState sends all listens again.
LEMMA RestoresListens ==
  ASSUME IInv, RequestsTypeOK', ListensInv, AnswersStay, RestoreState, listens' = listens
  PROVE  ListensInv'
<1> DEFINE n == Len(requests)
           N == Len(requests')
           m == Len(responses')
<1>1. /\ RequestsTypeOK /\ n \in Nat
  BY WireParts DEF IInv, TypeOK
<1>2. /\ \A q \in Listening : \E i \in n + 1 .. N : requests'[i] = Listen(listens[q])
      /\ requests' \in Seq(RequestRecords)
  BY <1>1, RestoredRequests
<1>3. /\ DOMAIN requests' = 1 .. N
      /\ \A i \in DOMAIN requests' : m + i \in DOMAIN Wire' /\ Wire'[m + i] = requests'[i]
  <2> DEFINE w == AnsweredOf(responses') \o requests'
  <2>1. responses' \in Seq(ResponseRecords) /\ requests' \in Seq(RequestRecords)
    BY DEF RequestsTypeOK, ResponseRecords
  <2>2. Wire' = w
    BY DEF Wire, AnsweredOf
  <2>3. /\ DOMAIN requests' = 1 .. N
        /\ \A i \in DOMAIN requests' : m + i \in DOMAIN w /\ w[m + i] = requests'[i]
    BY <2>1, JoinedParts
  <2> HIDE DEF w, Wire, m, N
  <2> QED BY <2>2, <2>3
<1> HIDE DEF n, N, m, Wire
<1>4. ASSUME NEW q \in Listening
      PROVE  \E i \in DOMAIN Wire' : Wire'[i] = Listen(listens[q])
  <2>1. PICK i \in n + 1 .. N : requests'[i] = Listen(listens[q])
    BY <1>2
  <2>2. i \in DOMAIN requests'
    BY <1>1, <1>3
  <2> QED BY <1>3, <2>1, <2>2
<1>5. Listening' = Listening
  BY DEF Listening
<1>6. ListensReachBackend'
  BY <1>4, <1>5 DEF ListensReachBackend
<1> QED BY <1>6, AnswersStayAccepted DEF ListensInv

\* A new listen is sent at once on a restored connection.
LEMMA ListenListens ==
  ASSUME IInv, ListensInv, NEW q \in Queries, ListenTo(q)
  PROVE  ListensInv'
<1> DEFINE n == listenCount'
           r == Listen(n)
<1>1. /\ n \in Nat \ {NotListening} /\ listens \in [Queries -> Nat]
      /\ UNCHANGED <<connectionState, responses, accepted>>
      /\ listens' = [listens EXCEPT ![q] = n]
      /\ Connected => requests' = Append(requests, r)
  BY DEF ListenTo, connectionVars, IInv, TypeOK, RequestsTypeOK, NotListening
<1>2. r \in RequestRecords
  BY <1>1, NewRequests
<1> HIDE DEF n, r
<1>3. AnswersStay
  BY <1>1 DEF AnswersStay
<1>4. CASE connectionState # "Connected"
  BY <1>1, <1>3, <1>4, NotConnectedListens
<1>5. CASE connectionState = "Connected"
  <2>1. requests' = Append(requests, r)
    BY <1>1, <1>5 DEF Connected
  <2>2. Wire' = Append(Wire, r)
    BY <1>1, <1>2, <2>1, WireSent DEF IInv, TypeOK
  <2> HIDE DEF Wire
  <2>3. /\ Wire \in Seq(RequestRecords) /\ Len(Wire) \in Nat
        /\ DOMAIN Wire = 1 .. Len(Wire)
    BY WireFacts
  <2>4. /\ \A i \in DOMAIN Wire : i \in DOMAIN Wire' /\ Wire'[i] = Wire[i]
        /\ Len(Wire) + 1 \in DOMAIN Wire' /\ Wire'[Len(Wire) + 1] = r
    BY <1>2, <2>2, <2>3, AppendProperties
  <2>5. ASSUME NEW p \in Queries, listens'[p] # NotListening
        PROVE  \/ listens'[p] \in accepted'
               \/ \E i \in DOMAIN Wire' : Wire'[i] = Listen(listens'[p])
    <3>1. CASE p = q
      <4>1. listens'[p] = n
        BY <1>1, <3>1
      <4>2. Listen(n) = r
        BY DEF r, n
      <4> QED BY <2>4, <4>1, <4>2
    <3>2. CASE p # q
      <4>1. listens'[p] = listens[p]
        BY <1>1, <3>2
      <4>2. p \in Listening
        BY <2>5, <4>1 DEF Listening
      <4>3. listens[p] \in accepted \/ \E i \in DOMAIN Wire : Wire[i] = Listen(listens[p])
        BY <1>5, <4>2 DEF ListensInv, ListensReachBackend
      <4> QED BY <1>1, <2>4, <4>1, <4>3
    <3> QED BY <3>1, <3>2
  <2>6. ListensReachBackend'
    <3>1. \A p \in Listening' : p \in Queries /\ listens'[p] # NotListening
      BY DEF Listening
    <3> QED BY <2>5, <3>1 DEF ListensReachBackend
  <2> QED BY <1>3, <2>6, AnswersStayAccepted DEF ListensInv
<1> QED BY <1>4, <1>5

\* The backend accepts a listen, or refuses it, while its request stays on the wire.
LEMMA AnswersListens ==
  ASSUME IInv, ListensInv, ServerAnswers
  PROVE  ListensInv'
<1> DEFINE first == Head(requests)
<1>1. /\ requests # <<>> /\ requests' = Tail(requests)
      /\ UNCHANGED <<connectionState, listens>>
  BY DEF ServerAnswers, connectionVars
<1>2. PICK ok \in Verdicts(first) :
        /\ responses' = Append(responses, [request |-> first, ok |-> ok])
        /\ accepted' = IF ok /\ first.kind = "listen" THEN accepted \cup {first.id} ELSE accepted
  BY DEF ServerAnswers
<1>3. ok \in BOOLEAN /\ first \in RequestRecords
  <2>1. requests \in Seq(RequestRecords) /\ revoked \in Nat
    BY DEF IInv, TypeOK, RequestsTypeOK
  <2>2. first \in RequestRecords
    BY <1>1, <2>1, HeadTailProperties
  <2> HIDE DEF first
  <2>3. (first.id > revoked) \in BOOLEAN
    BY <2>1, <2>2, RequestFields
  <2> QED BY <2>2, <2>3 DEF Verdicts
<1>4. Wire' = Wire
  BY <1>1, <1>2, <1>3, WireAnswered DEF IInv, TypeOK
<1> DEFINE x == [request |-> first, ok |-> ok]
<1>5. x \in ResponseRecords /\ x.request = first /\ x.ok = ok
  BY <1>3 DEF ResponseRecords
<1> HIDE DEF Wire, x, first
<1>6. /\ responses \in Seq(ResponseRecords) /\ responses' = Append(responses, x)
  BY <1>2, WireFacts DEF x
<1>7. ASSUME NEW i \in DOMAIN responses', responses'[i].ok,
             responses'[i].request.kind = "listen"
      PROVE  responses'[i].request.id \in accepted'
  <2>1. (i \in DOMAIN responses /\ responses'[i] = responses[i]) \/ responses'[i] = x
    <3>1. /\ DOMAIN responses = 1 .. Len(responses) /\ Len(responses) \in Nat
          /\ DOMAIN responses' = 1 .. Len(responses) + 1
          /\ \A j \in 1 .. Len(responses) : responses'[j] = responses[j]
          /\ responses'[Len(responses) + 1] = x
      BY <1>5, <1>6, LenProperties, AppendProperties
    <3> QED BY <3>1
  <2>2. CASE i \in DOMAIN responses /\ responses'[i] = responses[i]
    BY <1>2, <1>7, <2>2 DEF ListensInv, AnswersAccepted
  <2>3. CASE responses'[i] = x
    BY <1>2, <1>5, <1>7, <2>3
  <2> QED BY <2>1, <2>2, <2>3
<1>8. AnswersAccepted'
  BY <1>7 DEF AnswersAccepted
<1>9. accepted \subseteq accepted'
  BY <1>2
<1>10. ListensReachBackend'
  <2>1. Listening' = Listening
    BY <1>1 DEF Listening
  <2> QED BY <1>1, <1>4, <1>9, <2>1 DEF ListensInv, ListensReachBackend
<1> QED BY <1>8, <1>10 DEF ListensInv

\* An answer is taken from the wire: a listen's only once the backend has accepted it, or
\* with the listen.
LEMMA TakenListens ==
  ASSUME IInv, ListensInv, responses # <<>>, responses' = Tail(responses),
         UNCHANGED <<requests, accepted>>,
         connectionState' = "Connected" => connectionState = "Connected",
         \/ Head(responses).request.kind # "listen" /\ listens' = listens
         \/ Head(responses).request.kind = "listen"
            /\ ListenAnswered(Head(responses).request.id, Head(responses).ok)
  PROVE  ListensInv'
<1> DEFINE first == Head(responses)
<1>1. /\ \A i \in DOMAIN responses' : \E j \in DOMAIN responses : responses'[i] = responses[j]
      /\ 1 \in DOMAIN responses /\ first = responses[1] /\ first \in ResponseRecords
  BY Parts, FirstAnswer DEF Kept
<1>2. /\ Wire' = Tail(Wire) /\ Wire # <<>> /\ Wire[1] = first.request
  BY WireReceived DEF IInv, TypeOK
<1>3. Wire \in Seq(RequestRecords) /\ Len(Wire) \in Nat /\ DOMAIN Wire = 1 .. Len(Wire)
  BY WireFacts
<1> HIDE DEF Wire, first
<1>4. ASSUME NEW i \in DOMAIN Wire, i # 1
      PROVE  \E j \in DOMAIN Wire' : Wire'[j] = Wire[i]
  <2>1. /\ Wire' \in Seq(RequestRecords) /\ Len(Wire') = Len(Wire) - 1
        /\ \A j \in 1 .. Len(Wire') : Wire'[j] = Wire[j + 1]
    BY <1>2, <1>3, HeadTailProperties
  <2>2. DOMAIN Wire' = 1 .. Len(Wire')
    BY <2>1, LenProperties
  <2>3. i - 1 \in DOMAIN Wire' /\ Wire'[i - 1] = Wire[i]
    BY <1>3, <1>4, <2>1, <2>2
  <2> QED BY <2>3
<1>5. AnswersStay
  BY <1>1 DEF AnswersStay
\* A listen that is kept was accepted, if its answer is the one.
<1>6. ASSUME NEW q \in Listening', Wire[1] = Listen(listens'[q])
      PROVE  listens'[q] \in accepted
  <2>1. first.request.kind = "listen" /\ first.request.id = listens'[q]
    BY <1>2, <1>6 DEF Listen
  <2>2. ListenAnswered(first.request.id, first.ok)
    BY <2>1 DEF first
  <2>3. q \in Queries /\ listens'[q] # NotListening
    BY DEF Listening
  <2>4. first.ok
    <3>1. listens'[q] = IF listens[q] = first.request.id /\ ~first.ok THEN NotListening
                        ELSE listens[q]
      BY <2>2, <2>3 DEF ListenAnswered
    <3> QED BY <2>1, <2>3, <3>1
  <2> QED BY <1>1, <2>1, <2>4 DEF ListensInv, AnswersAccepted
<1>7. \A q \in Listening' : q \in Listening /\ listens'[q] = listens[q]
  <2>1. \A q \in Queries : listens'[q] \in {listens[q], NotListening}
    BY DEF ListenAnswered
  <2> QED BY <2>1 DEF Listening
<1>8. ListensReachBackend'
  <2>1. ASSUME connectionState' = "Connected", NEW q \in Listening'
        PROVE  \/ listens'[q] \in accepted'
               \/ \E i \in DOMAIN Wire' : Wire'[i] = Listen(listens'[q])
    <3>1. listens[q] \in accepted \/ \E i \in DOMAIN Wire : Wire[i] = Listen(listens[q])
      BY <1>7, <2>1 DEF ListensInv, ListensReachBackend
    <3>2. ASSUME NEW i \in DOMAIN Wire, Wire[i] = Listen(listens[q])
          PROVE  \/ listens'[q] \in accepted
                 \/ \E j \in DOMAIN Wire' : Wire'[j] = Listen(listens'[q])
      <4>1. CASE i = 1
        BY <1>6, <1>7, <3>2, <4>1
      <4>2. CASE i # 1
        BY <1>4, <1>7, <3>2, <4>2
      <4> QED BY <4>1, <4>2
    <3> QED BY <1>7, <3>1, <3>2
  <2> QED BY <2>1 DEF ListensReachBackend
<1> QED BY <1>5, <1>8, AnswersStayAccepted DEF ListensInv

LEMMA HandshakeListens ==
  ASSUME IInv, IInv', ListensInv, Handshake
  PROVE  ListensInv'
<1>1. UNCHANGED <<listens, responses, accepted>> /\ RequestsTypeOK'
  BY DEF Handshake, IInv, TypeOK
<1>2. AnswersStay
  BY <1>1 DEF AnswersStay
<1>3. CASE authToken = NoToken
  BY <1>1, <1>2, <1>3, RestoresListens DEF Handshake
<1>4. CASE authToken # NoToken
  BY <1>2, <1>4, NotConnectedListens DEF Handshake
<1> QED BY <1>3, <1>4

LEMMA ReceivesListens ==
  ASSUME IInv, IInv', ListensInv, Receives
  PROVE  ListensInv'
<1> DEFINE response == Head(responses)
<1>1. responses # <<>> /\ RequestsKept /\ RequestsTypeOK'
  BY Parts DEF Kept, Receives, IInv, TypeOK
<1>2. CASE response.request.kind = "auth" /\ AuthAnswered(response)
  <2>1. CASE ~response.ok
    <3>1. connectionState' = "Disconnected" /\ responses' = <<>>
      BY <1>2, <2>1 DEF AuthAnswered, RejectsToken, Disconnects
    <3> QED BY <3>1, NotConnectedListens
  <2>2. CASE response.ok
    <3>1. responses' = Tail(responses) /\ UNCHANGED <<listens, accepted>>
      BY <1>2, <2>2 DEF AuthAnswered
    <3>2. CASE response.request.restore
      <4>1. RestoreState
        BY <1>2, <2>2, <3>2 DEF AuthAnswered
      <4>2. \A i \in DOMAIN responses' : \E j \in DOMAIN responses : responses'[i] = responses[j]
        BY <1>1, <3>1, FirstAnswer
      <4> QED BY <1>1, <3>1, <4>1, <4>2, RestoresListens DEF AnswersStay
    <3>3. CASE ~response.request.restore
      <4>1. requests' = requests
        BY <1>2, <2>2, <3>3 DEF AuthAnswered
      <4>2. connectionState = "Connected"
        <5>1. connectionState # "Authenticating"
          BY <1>1, <3>3, FirstAnswer
        <5>2. Connected
          BY <1>1 DEF IInv, ConnectionInv
        <5> QED BY <5>1, <5>2 DEF Connected
      <4> QED BY <1>1, <1>2, <3>1, <4>1, <4>2, TakenListens
    <3> QED BY <3>2, <3>3
  <2> QED BY <2>1, <2>2
<1>3. CASE /\ response.request.kind = "operation"
           /\ OperationAnswered(response.request.id, response.ok)
           /\ responses' = Tail(responses) /\ UNCHANGED <<connectionVars, requests, accepted>>
  BY <1>1, <1>3, TakenListens DEF OperationAnswered, connectionVars
<1>4. CASE /\ response.request.kind = "listen"
           /\ ListenAnswered(response.request.id, response.ok)
           /\ responses' = Tail(responses) /\ UNCHANGED <<connectionVars, requests, accepted>>
  BY <1>1, <1>4, TakenListens DEF connectionVars
<1> QED BY <1>2, <1>3, <1>4 DEF Receives

LEMMA InitListens == Init => ListensInv
<1> SUFFICES ASSUME Init PROVE ListensInv
  OBVIOUS
<1>1. connectionState = "Disconnected" /\ DOMAIN responses = {}
  BY DEF Init
<1> QED BY <1>1 DEF ListensInv, AnswersAccepted, ListensReachBackend

LEMMA NextListens ==
  ASSUME StaleFailures = FALSE, IInv, IInv', ListensInv, [Next]_vars
  PROVE  ListensInv'
<1>1. /\ ConnectionInv /\ revoked \in Nat
  BY DEF IInv, TypeOK
\* The shapes of the steps.
<1>2. ASSUME NEW force, Disconnects(force)
      PROVE  ListensInv'
  BY <1>2, NotConnectedListens DEF Disconnects
<1>3. ASSUME connectionState' # "Connected", UNCHANGED <<responses, accepted>>
      PROVE  ListensInv'
  BY <1>3, NotConnectedListens DEF AnswersStay
<1>4. ASSUME NoNewListens, UNCHANGED <<connectionState, responses, accepted>>,
             requests' = requests \/ \E r \in RequestRecords : requests' = Append(requests, r)
      PROVE  ListensInv'
  BY <1>4, SameListens
<1>5. ASSUME UNCHANGED <<connectionState, listens, requests, responses, accepted>>
      PROVE  ListensInv'
  BY <1>4, <1>5 DEF NoNewListens
<1>6. ASSUME NEW reason, Resume(reason)
      PROVE  ListensInv'
  BY <1>5, <1>6 DEF Resume, requestVars
<1>7. ASSUME NEW reason, Interrupt(reason)
      PROVE  ListensInv'
  BY <1>2, <1>3, <1>7 DEF Interrupt, CancelsRetry, requestVars
<1>8. CASE Open \/ GoOnline
  BY <1>6, <1>8 DEF Open, GoOnline
<1>9. CASE GoOffline \/ ServerKills
  BY <1>7, <1>9 DEF GoOffline, ServerKills
<1>10. CASE SystemClockChanges
  BY <1>2, <1>3, <1>10 DEF SystemClockChanges, CancelsRetry, requestVars
<1>11. CASE EnteringForeground
  BY <1>5, <1>11 DEF EnteringForeground, requestVars
<1>12. CASE RetryFires \/ FetchFails
  BY <1>3, <1>12 DEF RetryFires, FetchFails, requestVars
<1>13. CASE FetchSucceeds
  <2>1. CASE connectionState = "GettingToken"
    <3>1. connectionState' = "Connecting" /\ responses' = <<>>
      BY <1>13, <2>1 DEF FetchSucceeds, TokenArrives, OpenNetworkConnection
    <3> QED BY <3>1, NotConnectedListens
  <2>2. CASE connectionState # "GettingToken"
    BY <1>5, <1>13, <2>2 DEF FetchSucceeds, TokenArrives, requestVars
  <2> QED BY <2>1, <2>2
<1>14. CASE ConnectionLost \/ AuthRevoked
  BY <1>2, <1>14 DEF ConnectionLost, AuthRevoked, RejectsToken
<1>15. CASE TokenRevoked
  BY <1>5, <1>15 DEF TokenRevoked, connectionVars, requestVars
<1>16. CASE Handshake
  BY <1>16, HandshakeListens
<1>17. CASE Receives
  BY <1>17, ReceivesListens
<1>18. CASE ServerAnswers
  BY <1>18, AnswersListens
<1>19. CASE AuthChanges
  <2>1. /\ token' \in Tokens /\ UNCHANGED <<connectionState, listens, responses, accepted>>
        /\ requests' = IF Connected /\ token' # NoToken
                       THEN Append(requests, Auth(token', FALSE)) ELSE requests
    BY <1>1, <1>19 DEF AuthChanges, RefreshAuthToken, Tokens, NoToken
  <2>2. token' # NoToken => Auth(token', FALSE) \in RequestRecords
    BY <2>1, NewRequests
  <2>3. requests' = requests \/ \E r \in RequestRecords : requests' = Append(requests, r)
    BY <2>1, <2>2
  <2> QED BY <1>4, <2>1, <2>3 DEF NoNewListens
<1>20. CASE PurgeOutstandingWrites
  BY <1>5, <1>20 DEF PurgeOutstandingWrites, connectionVars
<1>21. ASSUME NEW o \in Operations, GetTimesOut(o)
       PROVE  ListensInv'
  BY <1>5, <1>21 DEF GetTimesOut, connectionVars
<1>22. ASSUME NEW o \in Operations, NEW kind \in Kinds, Call(o, kind)
       PROVE  ListensInv'
  <2>1. /\ UNCHANGED <<connectionState, listens, responses, accepted>>
        /\ requests' = IF CanSend THEN Append(requests, Operation(o)) ELSE requests
    BY <1>22 DEF Call, connectionVars
  <2>2. requests' = requests \/ \E r \in RequestRecords : requests' = Append(requests, r)
    BY <2>1, NewRequests
  <2> QED BY <1>4, <2>1, <2>2 DEF NoNewListens
<1>23. ASSUME NEW q \in Queries, ListenTo(q)
       PROVE  ListensInv'
  BY <1>23, ListenListens
<1>24. ASSUME NEW q \in Queries, Unlisten(q)
       PROVE  ListensInv'
  <2>1. /\ listens' = [listens EXCEPT ![q] = NotListening]
        /\ UNCHANGED <<connectionState, requests, responses, accepted>>
    BY <1>24 DEF Unlisten, connectionVars
  <2>2. NoNewListens
    BY <2>1 DEF NoNewListens, IInv, TypeOK, RequestsTypeOK
  <2> QED BY <1>4, <2>1, <2>2
<1>25. CASE UNCHANGED vars
  BY <1>5, <1>25 DEF vars, connectionVars, requestVars
<1>26. CASE Next
  BY <1>8, <1>9, <1>10, <1>11, <1>12, <1>13, <1>14, <1>15, <1>16, <1>17, <1>18, <1>19, <1>20,
     <1>21, <1>22, <1>23, <1>24, <1>26 DEF Next, Fetches, Network
<1> QED BY <1>25, <1>26

LEMMA SpecListens ==
  ASSUME StaleFailures = FALSE
  PROVE  Spec => []ListensInv
<1>1. IInv /\ IInv' /\ ListensInv /\ [Next]_vars => ListensInv'
  BY NextListens
<1> QED BY <1>1, InitListens, SpecIInv, PTL DEF Spec

-----------------------------------------------------------------------------
(* The theorems.                                                           *)

\* The invariant holds whatever is lost, interrupted, revoked or purged, if no attempt to
\* fetch a token fails after a later one began (restoreState, putInternal, sendPut,
\* sendListen).
THEOREM WireInvariantHolds ==
  ASSUME StaleFailures = FALSE
  PROVE  Spec => []WireInv
<1>1. IInv /\ WireOrderInv /\ ListensInv => WireInv
  BY DEF WireInv
<1> QED BY <1>1, SpecIInv, SpecOrder, SpecListens, PTL

\* Then the backend never applies an earlier put after a later one that it accepted,
\* although puts are sent again on every new connection (restoreState, putInternal,
\* sendPut).
THEOREM LaterPutsWin ==
  ASSUME StaleFailures = FALSE
  PROVE  Spec => []LaterPutWins
<1>1. WireOrderInv => LaterPutWins
  BY DEF WireOrderInv
<1> QED BY <1>1, SpecOrder, PTL

\* Then every outstanding put is on the wire of a restored connection, once, no operation
\* waits there unsent, and every listen is on that wire or was accepted on that connection
\* (putInternal, listen, restoreState).
THEOREM PutsOnTheWire ==
  ASSUME StaleFailures = FALSE
  PROVE  Spec => []OutstandingOnTheWire
<1>1. IInv /\ WireOrderInv /\ ListensInv => OutstandingOnTheWire
  BY OnTheWireOnce
<1> QED BY <1>1, SpecIInv, SpecOrder, SpecListens, PTL
=============================================================================
