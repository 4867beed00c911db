--------------------------- MODULE WriteTokenProofs ---------------------------
(***************************************************************************)
(* Proofs of TokenInv: whichever handler sets, stores, loads or resets a    *)
(* stream token, it stays the current user's, also across user changes and *)
(* restarts.                                                               *)
(***************************************************************************)
EXTENDS WriteOrderProofs

-----------------------------------------------------------------------------
(* The steps within a task.                                                 *)

LEMMA StartKeepsCall ==
  ASSUME NEW r \in Remotes
  PROVE  LET s == StartIfNeeded(r) IN
         /\ s.requests = r.requests /\ s.token = r.token /\ s.enabled = r.enabled
         /\ s.handshake = r.handshake /\ s.pipeline = r.pipeline
BY DEF StartIfNeeded, StartStream, HardAssert, Remotes

\* FillWritePipeline sends writes with the token in memory, after the handshake.
LEMMA FillUsesToken ==
  ASSUME NEW r, NEW q \in Seq(Batches), Increasing(q), Consistent(r, q),
         NEW u, TokenUsed(r, u)
  PROVE  LET f == FillWritePipeline(r, q) IN
         TokenUsed(f, u) /\ f.token = r.token /\ f.enabled = r.enabled
<1> DEFINE f == FillWritePipeline(r, q)
           added == BatchesToAdd(r, q)
           more == MutationRequests(r, added)
           full == [r EXCEPT !.pipeline = @ \o added]
           sent == IF IsOpen(r) /\ r.handshake THEN Send(full, more) ELSE full
           ready == IF r.enabled /\ full.pipeline = <<>> THEN MarkIdle(sent) ELSE sent
<1>1. f.token = r.token /\ f.enabled = r.enabled /\ f.handshake = r.handshake
  BY FillSound
<1>2. r \in Remotes /\ r.requests \in Seq(Requests) /\ r.pipeline \in Seq(Batches)
      /\ IsFront(r.pipeline, q) /\ Len(r.pipeline) <= MaxPendingWrites
  BY DEF Consistent, Remotes
<1>3. added \in Seq(Batches)
  BY <1>2, BatchesToAddFront
<1>4. more \in Seq(Requests) /\ \A i \in 1 .. Len(more) : more[i].token = r.token
  BY <1>2, <1>3, MutationRequestsOf DEF MutationRequests
<1>5. full \in Remotes /\ full.requests = r.requests
  <2>1. r.pipeline \o added \in Seq(Batches)
    BY <1>2, <1>3, ConcatParts
  <2> QED BY <1>2, <2>1 DEF Remotes
<1> HIDE DEF added, more, full
<1>6. /\ sent \in Remotes
      /\ sent.requests = IF IsOpen(r) /\ r.handshake THEN r.requests \o more ELSE r.requests
  <2> DEFINE s == Send(full, more)
  <2>1. s \in Remotes /\ s.requests = full.requests \o more
    BY <1>4, <1>5, SendFields
  <2> HIDE DEF s
  <2>2. s.requests = r.requests \o more
    BY <1>5, <2>1
  <2>3. sent = IF IsOpen(r) /\ r.handshake THEN s ELSE full
    BY DEF s
  <2> HIDE DEF sent
  <2>4. CASE IsOpen(r) /\ r.handshake
    BY <2>1, <2>2, <2>3, <2>4
  <2>5. CASE ~(IsOpen(r) /\ r.handshake)
    BY <1>5, <2>3, <2>5
  <2> QED BY <2>4, <2>5
<1> HIDE DEF sent
<1>7. ready \in Remotes /\ ready.requests = sent.requests
  BY <1>6 DEF MarkIdle, Remotes
<1> HIDE DEF ready
<1>8. f = StartIfNeeded(ready)
  BY DEF FillWritePipeline, ready, sent, full, more, added
<1>9. f.requests = sent.requests
  BY <1>7, <1>8, StartKeepsCall
<1>10. ASSUME NEW i \in 1 .. Len(f.requests), f.requests[i].write # Handshake
       PROVE  f.requests[i].token = u
  <2>1. CASE IsOpen(r) /\ r.handshake
    <3> DEFINE n == Len(r.requests)
    <3>1. /\ f.requests = r.requests \o more /\ Len(r.requests \o more) = n + Len(more)
          /\ \A j \in 1 .. n : (r.requests \o more)[j] = r.requests[j]
          /\ \A j \in 1 .. Len(more) : (r.requests \o more)[n + j] = more[j]
      BY <1>2, <1>4, <1>6, <1>9, <2>1, ConcatParts
    <3>2. n \in Nat /\ Len(more) \in Nat
      BY <1>2, <1>4
    <3> HIDE DEF n
    <3>3. CASE i <= n
      <4>1. i \in 1 .. n
        BY <1>10, <3>1, <3>2, <3>3
      <4> QED BY <1>10, <3>1, <4>1 DEF TokenUsed, n
    <3>4. CASE i > n
      <4>1. i - n \in 1 .. Len(more) /\ n + (i - n) = i
        BY <1>10, <3>1, <3>2, <3>4
      <4>2. f.requests[n + (i - n)] = more[i - n]
        BY <3>1, <4>1
      <4>3. more[i - n].token = r.token /\ r.token = u
        BY <1>4, <2>1, <4>1 DEF TokenUsed
      <4> QED BY <4>1, <4>2, <4>3
    <3> QED BY <1>10, <3>1, <3>2, <3>3, <3>4
  <2>2. CASE ~(IsOpen(r) /\ r.handshake)
    BY <1>6, <1>9, <1>10, <2>2 DEF TokenUsed
  <2> QED BY <2>1, <2>2
<1> QED BY <1>1, <1>10 DEF TokenUsed

\* A RemoteStore with nothing on a call uses no token.
LEMMA NothingSent ==
  ASSUME NEW r, ~r.handshake, r.requests = <<>>, NEW u
  PROVE  TokenUsed(r, u)
BY DEF TokenUsed

LEMMA EnableUsesToken ==
  ASSUME NEW r, NEW token \in Tokens, NEW q \in Seq(Batches), Increasing(q),
         Consistent(r, q), NEW u, TokenUsed(r, u), r.handshake => token = u
  PROVE  LET e == EnableNetworkInternal(r, token, q) IN
         TokenUsed(e, u) /\ e.token = token /\ e.enabled = TRUE
<1> DEFINE s == [r EXCEPT !.enabled = TRUE, !.token = token]
<1>1. r \in Remotes
  BY DEF Consistent
<1>2. /\ s \in Remotes /\ s.enabled = TRUE /\ s.token = token /\ s.pipeline = r.pipeline
      /\ s.state = r.state /\ s.handshake = r.handshake /\ s.idle = r.idle
      /\ s.requests = r.requests /\ s.responses = r.responses /\ s.fault = r.fault
      /\ s.status = r.status
  BY <1>1 DEF Remotes
<1> HIDE DEF s
<1>3. Consistent(s, q)
  BY <1>2, ConsistentKeeps DEF Consistent
<1>4. TokenUsed(s, u)
  BY <1>2 DEF TokenUsed
<1> QED BY <1>2, <1>3, <1>4, FillUsesToken DEF EnableNetworkInternal, s

\* Starting over uses no token, but loads the one it is given.
LEMMA OffEnabled ==
  ASSUME NEW r, Off(r), NEW token \in Tokens, NEW q \in Seq(Batches), Increasing(q), NEW u
  PROVE  LET e == EnableNetworkInternal(r, token, q) IN
         TokenUsed(e, u) /\ e.token = token /\ e.enabled = TRUE
<1>1. Consistent(r, q) /\ ~r.handshake /\ r.requests = <<>>
  BY OffConsistent DEF Sound, Off, Quiet
<1> QED BY <1>1, NothingSent, EnableUsesToken

LEMMA RestartUsesToken ==
  ASSUME NEW r, NEW q, Consistent(r, q), NEW token \in Tokens,
         NEW new \in Seq(Batches), Increasing(new), NEW u
  PROVE  LET s == RestartNetwork(r, token, new) IN
         TokenUsed(s, u) /\ s.token = token /\ s.enabled = TRUE
<1> DEFINE d == DisabledRemote(r)
           i == InhibitBackoff(d)
<1>1. Off(d)
  BY DisabledOff
<1> HIDE DEF d
<1>2. i = [d EXCEPT !.state = "Initial"]
  BY <1>1 DEF Off, InhibitBackoff, HardAssert
<1>3. Off(i)
  BY <1>1, <1>2 DEF Off, Quiet, IsStarted, Remotes
<1> HIDE DEF i
<1>4. RestartNetwork(r, token, new) = EnableNetworkInternal(i, token, new)
  BY DEF RestartNetwork, i, d
<1> DEFINE e == EnableNetworkInternal(i, token, new)
<1>5. TokenUsed(e, u) /\ e.token = token /\ e.enabled = TRUE
  BY <1>3, OffEnabled
<1> HIDE DEF e
<1> QED BY <1>4, <1>5 DEF e

LEMMA NewRemoteUsesToken ==
  ASSUME NEW token \in Tokens, NEW q \in Seq(Batches), Increasing(q), NEW u
  PROVE  LET s == EnableNetworkInternal(NewRemote, token, q) IN
         TokenUsed(s, u) /\ s.token = token /\ s.enabled = TRUE
<1>1. <<>> \in Seq(Batches) /\ <<>> \in Seq(Requests)
      /\ <<>> \in Seq(Writes \cup {Handshake})
  OBVIOUS
<1>2. Off(NewRemote)
  BY <1>1 DEF NewRemote, Off, Quiet, IsStarted, Remotes, Tokens, Faults
<1> QED BY <1>2, OffEnabled

-----------------------------------------------------------------------------
(* The tasks.                                                              *)

LEMMA TokenFacts ==
  ASSUME IInv, TokenInv
  PROVE  /\ currentUser \in Users /\ rs \in Remotes
         /\ queue[currentUser] \in Seq(Batches) /\ Increasing(queue[currentUser])
         /\ Consistent(rs, queue[currentUser])
         /\ \A u \in Users : storedToken[u] \in Tokens /\ queue[u] \in Seq(Batches)
                              /\ Increasing(queue[u])
         /\ TokenUsed(rs, currentUser)
         /\ rs.handshake => storedToken[currentUser] = currentUser
<1>1. /\ currentUser \in Users /\ rs \in Remotes
      /\ queue[currentUser] \in Seq(Batches) /\ Increasing(queue[currentUser])
      /\ Consistent(rs, queue[currentUser])
  BY CurrentFacts
<1>2. \A u \in Users : storedToken[u] \in Tokens /\ queue[u] \in Seq(Batches)
                        /\ Increasing(queue[u])
  BY DEF IInv, TypeOK
<1>3. rs.handshake => rs.enabled
  BY <1>1 DEF Consistent, IsOpen, IsStarted, Quiet
<1> QED BY <1>1, <1>2, <1>3 DEF TokenInv, TokenUsed

\* A step that leaves the stored tokens, the user and the token in memory alone.
LEMMA TokenKept ==
  ASSUME TokenInv, UNCHANGED <<currentUser, storedToken>>,
         rs'.token = rs.token, rs'.enabled = rs.enabled, TokenUsed(rs', currentUser)
  PROVE  TokenInv'
BY DEF TokenInv

\* One that loads the stored token of the user.
LEMMA TokenLoaded ==
  ASSUME TokenInv, UNCHANGED storedToken,
         rs'.token = storedToken[currentUser'], TokenUsed(rs', currentUser')
  PROVE  TokenInv'
<1>1. TokenUsed(rs, currentUser)'
  BY DEF TokenUsed
<1> QED BY <1>1 DEF TokenInv

LEMMA WriteMutationsToken ==
  ASSUME IInv, TokenInv, WriteMutations
  PROVE  TokenInv'
<1> DEFINE q == queue[currentUser]
           batch == [id |-> nextBatchId, write |-> issued + 1]
           longer == Append(q, batch)
<1>1. issued + 1 \in Writes /\ nextBatchId \in Nat
  BY HistoryTyped DEF WriteMutations, Writes, IInv, TypeOK
<1>2. batch \in Batches /\ batch.id = nextBatchId
  BY <1>1 DEF Batches
<1>3. rs' = FillWritePipeline(rs, longer) /\ UNCHANGED <<currentUser, storedToken>>
  BY DEF WriteMutations
<1> HIDE DEF batch
<1>4. q \in Seq(Batches) /\ Increasing(q) /\ Consistent(rs, q) /\ Len(q) \in Nat
      /\ rs.pipeline \in Seq(Batches)
  BY TokenFacts DEF Remotes
<1>5. \A i \in 1 .. Len(q) : q[i].id < batch.id
  BY <1>2 DEF IInv, IdsBounded
<1>6. longer \in Seq(Batches) /\ Increasing(longer) /\ IsFront(rs.pipeline, longer)
  BY <1>2, <1>4, <1>5, AppendToQueue DEF Consistent
<1> HIDE DEF longer
<1>7. Consistent(rs, longer)
  BY <1>4, <1>6 DEF Consistent
<1>8. TokenUsed(rs', currentUser) /\ rs'.token = rs.token /\ rs'.enabled = rs.enabled
  BY <1>3, <1>6, <1>7, TokenFacts, FillUsesToken
<1> QED BY <1>3, <1>8, TokenKept

LEMMA NetworkToken ==
  ASSUME IInv, TokenInv,
         \/ EnableNetwork \/ DisableNetwork \/ ConnectivityChange
         \/ \E u \in Users : HandleCredentialChange(u)
  PROVE  TokenInv'
<1> DEFINE q == queue[currentUser]
<1>1. CASE EnableNetwork
  <2>1. rs' = EnableNetworkInternal(rs, storedToken[currentUser], q)
        /\ UNCHANGED <<currentUser, storedToken>>
    BY <1>1 DEF EnableNetwork, durableVars
  <2>2. TokenUsed(rs', currentUser) /\ rs'.token = storedToken[currentUser]
    BY <2>1, TokenFacts, EnableUsesToken
  <2> QED BY <2>1, <2>2, TokenLoaded
<1>2. CASE DisableNetwork
  <2>1. UNCHANGED <<currentUser, storedToken>> /\ rs' = DisabledRemote(rs)
    BY <1>2 DEF DisableNetwork, durableVars
  <2>2. Off(rs')
    BY <2>1, TokenFacts, DisabledOff
  <2> QED BY <2>1, <2>2, NothingSent DEF TokenInv, Off, Quiet
<1>3. CASE ConnectivityChange
  <2>1. rs' = RestartNetwork(rs, storedToken[currentUser], q)
        /\ UNCHANGED <<currentUser, storedToken>>
    BY <1>3 DEF ConnectivityChange, durableVars
  <2>2. TokenUsed(rs', currentUser) /\ rs'.token = storedToken[currentUser]
    BY <2>1, TokenFacts, RestartUsesToken
  <2> QED BY <2>1, <2>2, TokenLoaded
<1>4. ASSUME NEW u \in Users, HandleCredentialChange(u) PROVE TokenInv'
  <2>1. UNCHANGED storedToken /\ currentUser' = u
    BY <1>4 DEF HandleCredentialChange, durableVars
  <2>2. CASE rs.enabled
    <3>1. rs' = RestartNetwork(rs, storedToken[u], queue[u])
      BY <1>4, <2>2 DEF HandleCredentialChange
    <3>2. TokenUsed(rs', u) /\ rs'.token = storedToken[u]
      <4>1. /\ Consistent(rs, queue[currentUser]) /\ storedToken[u] \in Tokens
            /\ queue[u] \in Seq(Batches) /\ Increasing(queue[u])
        BY TokenFacts
      <4> QED BY <3>1, <4>1, RestartUsesToken
    <3> QED BY <2>1, <3>2, TokenLoaded
  <2>3. CASE ~rs.enabled
    <3>1. rs' = rs /\ ~rs.handshake /\ rs.requests = <<>>
      BY <1>4, <2>3, TokenFacts
         DEF HandleCredentialChange, Consistent, IsStarted, IsOpen, Quiet
    <3> QED BY <2>1, <2>3, <3>1, NothingSent DEF TokenInv
  <2> QED BY <2>2, <2>3
<1> QED BY <1>1, <1>2, <1>3, <1>4

LEMMA RestartedToken ==
  ASSUME IInv, TokenInv, NEW u \in Users,
         Crash(u) \/ CrashBeforeAcknowledge(u) \/ CrashAfterReject(u)
  PROVE  TokenInv'
<1>1. UNCHANGED storedToken /\ currentUser' = u
  BY DEF Crash, CrashBeforeAcknowledge, CrashAfterReject, Restarted, durableVars
<1>2. PICK q \in Seq(Batches) : Increasing(q)
                               /\ rs' = EnableNetworkInternal(NewRemote, storedToken[u], q)
  <2>1. CASE Crash(u) \/ CrashBeforeAcknowledge(u)
    BY <2>1, TokenFacts DEF Crash, CrashBeforeAcknowledge, Restarted
  <2>2. CASE CrashAfterReject(u)
    <3> DEFINE left == [queue EXCEPT ![currentUser] =
                                       RemoveBatch(@, Head(rs.pipeline).id)]
    <3>1. Restarted(u, left) /\ rs.pipeline # <<>>
      BY <2>2 DEF CrashAfterReject
    <3>2. left[u] \in Seq(Batches) /\ Increasing(left[u])
      BY <3>1, FrontRemoved
    <3> QED BY <3>1, <3>2 DEF Restarted
  <2> QED BY <2>1, <2>2
<1>3. TokenUsed(rs', u) /\ rs'.token = storedToken[u]
  BY <1>2, TokenFacts, NewRemoteUsesToken
<1> QED BY <1>1, <1>3, TokenLoaded

LEMMA StreamToken ==
  ASSUME IInv, TokenInv, StreamOpens \/ BackoffElapses \/ IdleTimeout
  PROVE  TokenInv'
<1>1. UNCHANGED <<currentUser, storedToken>> /\ rs \in Remotes
  BY TokenFacts DEF StreamOpens, BackoffElapses, IdleTimeout, durableVars
<1>2. CASE StreamOpens
  <2> DEFINE hello == [write |-> Handshake, token |-> NoUser]
             open == [rs EXCEPT !.state = "Open"]
  <2>1. open \in Remotes /\ open.requests = <<>> /\ open.token = rs.token
        /\ open.enabled = rs.enabled /\ open.handshake = rs.handshake
    BY <1>2, TokenFacts DEF StreamOpens, Consistent, IsOpen, Quiet, Remotes
  <2>2. <<hello>> \in Seq(Requests) /\ <<>> \o <<hello>> = <<hello>>
    BY DEF Requests, Tokens
  <2>3. rs' = Send(open, <<hello>>)
    BY <1>2 DEF StreamOpens
  <2>4. hello.write = Handshake /\ Len(<<hello>>) = 1 /\ <<hello>>[1] = hello
    OBVIOUS
  <2> HIDE DEF open, hello
  <2>5. /\ rs'.requests = <<hello>> /\ rs'.token = rs.token /\ rs'.enabled = rs.enabled
        /\ rs'.handshake = rs.handshake
    <3>1. /\ rs'.requests = open.requests \o <<hello>> /\ rs'.token = open.token
          /\ rs'.enabled = open.enabled /\ rs'.handshake = open.handshake
      BY <2>1, <2>2, <2>3, SendFields
    <3> QED BY <2>1, <2>2, <3>1
  <2>6. \A i \in 1 .. Len(rs'.requests) : rs'.requests[i].write = Handshake
    BY <2>4, <2>5
  <2> QED BY <1>1, <2>5, <2>6, TokenFacts, TokenKept DEF TokenUsed
<1>3. CASE BackoffElapses
  <2>1. /\ rs'.token = rs.token /\ rs'.enabled = rs.enabled /\ rs'.requests = rs.requests
        /\ rs'.handshake = rs.handshake
    BY <1>1, <1>3 DEF BackoffElapses, StartStream, HardAssert, Remotes
  <2> QED BY <1>1, <2>1, TokenFacts, TokenKept DEF TokenUsed
<1>4. CASE IdleTimeout
  <2>1. IsStarted(rs) /\ rs.pipeline = <<>>
    BY <1>4, TokenFacts DEF IdleTimeout, Consistent, IsOpen, IsStarted, Quiet
  <2>2. rs' = ClosedGracefully(rs)
    BY <1>4, <2>1 DEF IdleTimeout, StopStream
  <2>3. Quiet(rs') /\ rs'.enabled = rs.enabled /\ rs'.token = rs.token
    BY <1>1, <2>1, <2>2, ClosedGracefullyFields
  <2> QED BY <1>1, <2>3, NothingSent, TokenKept DEF Quiet
<1> QED BY <1>2, <1>3, <1>4

LEMMA BackendToken ==
  ASSUME IInv, TokenInv,
         \/ ServerAnswers \/ ServerRefuses
         \/ \E code \in ServerStatuses : ServerEndsCall(code)
  PROVE  TokenInv'
<1>1. UNCHANGED <<currentUser, storedToken>> /\ rs \in Remotes
      /\ rs.requests \in Seq(Requests)
  BY TokenFacts DEF ServerAnswers, ServerRefuses, ServerEndsCall, durableVars, Remotes
<1>2. CASE ServerAnswers
  <2>1. rs.requests # <<>> /\ rs'.token = rs.token /\ rs'.enabled = rs.enabled
        /\ rs'.requests = Tail(rs.requests) /\ rs'.handshake = rs.handshake
    BY <1>1, <1>2 DEF ServerAnswers, Remotes
  <2>2. /\ Len(Tail(rs.requests)) = Len(rs.requests) - 1 /\ Len(rs.requests) \in Nat
        /\ \A i \in 1 .. Len(Tail(rs.requests)) :
             Tail(rs.requests)[i] = rs.requests[i + 1]
    BY <1>1, <2>1, HeadTailProperties
  <2>3. ASSUME NEW i \in 1 .. Len(rs'.requests), rs'.requests[i].write # Handshake
        PROVE  rs'.requests[i].token = currentUser
    <3>1. i + 1 \in 1 .. Len(rs.requests) /\ rs'.requests[i] = rs.requests[i + 1]
      BY <2>1, <2>2, <2>3
    <3> QED BY <2>3, <3>1, TokenFacts DEF TokenUsed
  <2> QED BY <1>1, <2>1, <2>3, TokenFacts, TokenKept DEF TokenUsed
<1>3. CASE ServerRefuses \/ \E code \in ServerStatuses : ServerEndsCall(code)
  <2>1. rs'.token = rs.token /\ rs'.enabled = rs.enabled /\ rs'.requests = rs.requests
        /\ rs'.handshake = rs.handshake
    BY <1>1, <1>3 DEF ServerRefuses, ServerEndsCall, Remotes
  <2> QED BY <1>1, <2>1, TokenFacts, TokenKept DEF TokenUsed
<1> QED BY <1>2, <1>3

\* The token of the handshake's response is in memory before the pipeline is sent.
LEMMA ReceiveHandshakeToken ==
  ASSUME IInv, TokenInv, ReceiveHandshake
  PROVE  TokenInv'
<1> DEFINE r == [rs EXCEPT !.responses = Tail(@), !.handshake = TRUE,
                           !.token = currentUser]
           more == MutationRequests(r, r.pipeline)
<1>1. /\ currentUser \in Users /\ rs \in Remotes /\ storedToken \in [Users -> Tokens]
      /\ rs.responses \in Seq(Writes \cup {Handshake}) /\ rs.responses # <<>>
      /\ rs.pipeline \in Seq(Batches) /\ rs.requests \in Seq(Requests)
  BY TokenFacts DEF ReceiveHandshake, Remotes, IInv, TypeOK
<1>2. Tail(rs.responses) \in Seq(Writes \cup {Handshake})
  BY <1>1, HeadTailProperties
<1>3. /\ r \in Remotes /\ r.token = currentUser /\ r.handshake = TRUE
      /\ r.enabled = rs.enabled /\ r.pipeline = rs.pipeline /\ r.requests = rs.requests
  BY <1>1, <1>2 DEF Remotes, Tokens
<1>4. rs' = Send(r, more) /\ UNCHANGED currentUser
      /\ storedToken' = [storedToken EXCEPT ![currentUser] = currentUser]
  BY DEF ReceiveHandshake
<1> HIDE DEF r
<1>5. more \in Seq(Requests) /\ \A i \in 1 .. Len(more) : more[i].token = currentUser
  BY <1>1, <1>3, MutationRequestsOf DEF MutationRequests
<1> HIDE DEF more
<1>6. /\ rs'.requests = rs.requests \o more /\ rs'.token = currentUser
      /\ rs'.enabled = rs.enabled /\ rs'.handshake = TRUE
  <2>1. /\ rs'.requests = r.requests \o more /\ rs'.token = r.token
        /\ rs'.enabled = r.enabled /\ rs'.handshake = r.handshake
    BY <1>3, <1>4, <1>5, SendFields
  <2> QED BY <1>3, <2>1
<1>7. ASSUME NEW i \in 1 .. Len(rs'.requests), rs'.requests[i].write # Handshake
      PROVE  rs'.requests[i].token = currentUser
  <2> DEFINE n == Len(rs.requests)
             s == rs.requests \o more
  <2>1. /\ Len(s) = n + Len(more) /\ n \in Nat /\ Len(more) \in Nat
        /\ \A j \in 1 .. n : s[j] = rs.requests[j]
        /\ \A j \in 1 .. Len(more) : s[n + j] = more[j]
    BY <1>1, <1>5, ConcatParts
  <2>2. i \in 1 .. Len(s) /\ rs'.requests[i] = s[i]
    BY <1>6, <1>7
  <2> HIDE DEF s, n
  <2>3. CASE i <= n
    <3>1. i \in 1 .. n /\ s[i] = rs.requests[i]
      BY <2>1, <2>2, <2>3
    <3> QED BY <1>7, <2>2, <3>1, TokenFacts DEF TokenUsed, n
  <2>4. CASE i > n
    <3>1. i - n \in 1 .. Len(more) /\ n + (i - n) = i
      BY <2>1, <2>2, <2>4
    <3>2. s[n + (i - n)] = more[i - n]
      BY <2>1, <3>1
    <3> QED BY <1>5, <2>2, <3>1, <3>2
  <2> QED BY <2>1, <2>2, <2>3, <2>4
<1>8. storedToken'[currentUser] = currentUser
      /\ \A u \in Users \ {currentUser} : storedToken'[u] = storedToken[u]
  BY <1>1, <1>4
<1> QED BY <1>4, <1>6, <1>7, <1>8 DEF TokenInv, TokenUsed

LEMMA ReceiveResultToken ==
  ASSUME IInv, TokenInv, ReceiveResult
  PROVE  TokenInv'
<1> DEFINE q == queue[currentUser]
           batch == Head(rs.pipeline)
           popped == [rs EXCEPT !.responses = Tail(@), !.token = currentUser,
                                !.pipeline = Tail(@)]
<1>1. /\ rs \in Remotes /\ Consistent(rs, q) /\ q \in Seq(Batches)
      /\ currentUser \in Users /\ currentUser \in Tokens
      /\ IsOpen(rs) /\ rs.handshake /\ rs.responses # <<>>
      /\ storedToken \in [Users -> Tokens]
  BY TokenFacts DEF ReceiveResult, ResultReady, Tokens, IInv, TypeOK
<1>2. /\ popped.token = currentUser /\ popped.requests = rs.requests
      /\ popped.enabled = rs.enabled
  BY <1>1 DEF Remotes
<1> HIDE DEF popped
<1>3. Consistent(popped, Tail(q)) /\ rs.pipeline # <<>>
  BY <1>1, PoppedConsistent DEF popped
<1>4. /\ RemoveBatch(q, batch.id) = Tail(q) /\ Queued(q, batch.id)
      /\ Tail(q) \in Seq(Batches) /\ Increasing(Tail(q))
  BY <1>3, FrontRemoved
<1>5. rs' = FillWritePipeline(popped, Tail(q))
  <2>1. WithResult = [rs EXCEPT !.responses = Tail(@), !.token = currentUser]
    BY <1>3 DEF WithResult, HardAssert
  <2>2. [WithResult EXCEPT !.pipeline = Tail(@)] = popped
    BY <1>1, <2>1 DEF popped, Remotes
  <2>3. rs' = FillWritePipeline(
                HardAssert([WithResult EXCEPT !.pipeline = Tail(@)],
                           Queued(q, batch.id), "BatchDidNotExist"),
                RemoveBatch(q, batch.id))
    BY <1>3 DEF ReceiveResult
  <2> QED BY <1>4, <2>2, <2>3 DEF HardAssert
<1>6. TokenUsed(popped, currentUser)
  BY <1>2, TokenFacts DEF TokenUsed
<1>7. TokenUsed(rs', currentUser) /\ rs'.token = currentUser
  BY <1>2, <1>3, <1>4, <1>5, <1>6, FillUsesToken
<1>8. UNCHANGED currentUser
      /\ storedToken' = [storedToken EXCEPT ![currentUser] = currentUser]
  BY <1>3 DEF ReceiveResult, AcknowledgeBatch
<1>9. storedToken'[currentUser] = currentUser
      /\ \A u \in Users \ {currentUser} : storedToken'[u] = storedToken[u]
  BY <1>1, <1>8
<1> QED BY <1>7, <1>8, <1>9 DEF TokenInv

\* FinishStream, when the write at the front is rejected: the token is kept.
LEMMA FrontRejectedToken ==
  ASSUME IInv, TokenInv, IsStarted(rs), rs.pipeline # <<>>, NEW code \in ErrorCodes,
         FrontRejected(code), UNCHANGED currentUser
  PROVE  TokenInv'
<1> DEFINE q == queue[currentUser]
           batch == Head(rs.pipeline)
           c == Closed(rs, code)
           tail == [c EXCEPT !.pipeline = Tail(@)]
           popped == [tail EXCEPT !.state = "Initial"]
<1>1. /\ rs \in Remotes /\ Consistent(rs, q) /\ q \in Seq(Batches) /\ Increasing(q)
      /\ rs.pipeline \in Seq(Batches) /\ IsFront(rs.pipeline, q) /\ rs.enabled
      /\ rs.fault = "None" /\ Len(rs.pipeline) <= MaxPendingWrites
  BY TokenFacts DEF Remotes, Consistent
<1>2. /\ c \in Remotes /\ Quiet(c) /\ c.state = "Error" /\ c.token = rs.token
      /\ c.enabled = rs.enabled /\ c.pipeline = rs.pipeline /\ c.fault = "None"
  <2>1. code # "OK"
    BY DEF ErrorCodes
  <2>2. /\ c \in Remotes /\ Quiet(c) /\ c.state = IF code = "OK" THEN "Initial" ELSE "Error"
        /\ c.token = rs.token
        /\ c.enabled = rs.enabled /\ c.pipeline = rs.pipeline /\ c.fault = rs.fault
    BY <1>1, ClosedFields
  <2> HIDE DEF c
  <2> QED BY <1>1, <2>1, <2>2
<1> HIDE DEF c
<1>3. /\ IsFront(Tail(rs.pipeline), Tail(q)) /\ Tail(rs.pipeline) \in Seq(Batches)
      /\ Len(Tail(rs.pipeline)) = Len(rs.pipeline) - 1
  BY <1>1, TailIsFront
<1>4. /\ tail \in Remotes /\ Quiet(tail) /\ tail.state = "Error"
      /\ tail.enabled = rs.enabled /\ tail.pipeline = Tail(rs.pipeline)
      /\ tail.fault = "None" /\ tail.token = rs.token
  BY <1>2, <1>3 DEF Remotes, Quiet
<1> HIDE DEF tail
<1>5. /\ popped \in Remotes /\ Quiet(popped) /\ popped.state = "Initial"
      /\ popped.enabled = rs.enabled /\ popped.pipeline = Tail(rs.pipeline)
      /\ popped.fault = "None" /\ popped.token = rs.token
  BY <1>4 DEF Remotes, Quiet
<1>6. InhibitBackoff(tail) = popped
  BY <1>4 DEF InhibitBackoff, HardAssert, IsStarted
<1> HIDE DEF popped
<1>7. Consistent(popped, Tail(q))
  <2>1. Len(Tail(rs.pipeline)) <= MaxPendingWrites
    BY <1>1, <1>3, ConstantsAssumption
  <2> QED BY <1>1, <1>3, <1>5, <2>1 DEF Consistent, IsStarted, IsOpen, Quiet
<1>8. /\ RemoveBatch(q, batch.id) = Tail(q) /\ Queued(q, batch.id)
      /\ Tail(q) \in Seq(Batches) /\ Increasing(Tail(q))
  BY FrontRemoved
<1>9. rs' = StartIfNeeded(FillWritePipeline(popped, Tail(q))) /\ UNCHANGED storedToken
  BY <1>6, <1>8 DEF FrontRejected, HardAssert, c, tail
<1> DEFINE f == FillWritePipeline(popped, Tail(q))
<1>10. f \in Remotes /\ TokenUsed(f, currentUser) /\ f.token = rs.token
       /\ f.enabled = rs.enabled
  <2>1. TokenUsed(popped, currentUser)
    BY <1>5, NothingSent DEF Quiet
  <2> QED BY <1>5, <1>7, <1>8, <2>1, FillSound, FillUsesToken DEF Sound, Consistent
<1> HIDE DEF f
<1>11. rs'.requests = f.requests /\ rs'.token = f.token /\ rs'.enabled = f.enabled
       /\ rs'.handshake = f.handshake
  BY <1>9, <1>10, StartKeepsCall DEF f
<1> QED BY <1>9, <1>10, <1>11, TokenKept DEF TokenUsed

LEMMA FinishStreamToken ==
  ASSUME IInv, TokenInv, IsStarted(rs), NEW code \in ErrorCodes, FinishStream(code)
  PROVE  TokenInv'
<1> DEFINE c == Closed(rs, code)
<1>1. rs \in Remotes /\ code # "OK" /\ UNCHANGED currentUser /\ currentUser \in Users
      /\ storedToken \in [Users -> Tokens]
  BY TokenFacts DEF FinishStream, ErrorCodes, IInv, TypeOK
<1>2. c \in Remotes /\ Quiet(c) /\ c.enabled = rs.enabled /\ c.token = rs.token
  BY <1>1, ClosedFields
<1> HIDE DEF c
<1>3. CASE ~rs.handshake
  <2> DEFINE reset == IsPermanentError(code) /\ rs.pipeline # <<>>
             r == IF reset THEN [c EXCEPT !.token = NoUser] ELSE c
  <2>1. /\ rs' = StartIfNeeded(r)
        /\ storedToken' = IF reset THEN [storedToken EXCEPT ![currentUser] = NoUser]
                                   ELSE storedToken
    BY <1>1, <1>3 DEF FinishStream, HandshakeFailed, c
  <2>2. /\ r \in Remotes /\ Quiet(r) /\ r.enabled = rs.enabled
        /\ r.token = IF reset THEN NoUser ELSE rs.token
    <3>1. NoUser \in Tokens
      BY DEF Tokens
    <3> QED BY <1>2, <3>1 DEF Remotes, Quiet
  <2> HIDE DEF r, reset
  <2>3. /\ rs'.requests = r.requests /\ rs'.token = r.token /\ rs'.enabled = r.enabled
        /\ rs'.handshake = r.handshake
    BY <2>1, <2>2, StartKeepsCall
  <2>4. TokenUsed(rs', currentUser)
    BY <2>2, <2>3, NothingSent DEF Quiet
  <2>5. CASE reset
    <3>1. storedToken'[currentUser] = NoUser
          /\ \A u \in Users \ {currentUser} : storedToken'[u] = storedToken[u]
      BY <1>1, <2>1, <2>5
    <3> QED BY <1>1, <2>2, <2>3, <2>4, <2>5, <3>1 DEF TokenInv
  <2>6. CASE ~reset
    BY <1>1, <2>1, <2>2, <2>3, <2>4, <2>6, TokenKept
  <2> QED BY <2>5, <2>6
<1>4. CASE rs.handshake /\ IsPermanentWriteError(code) /\ rs.pipeline # <<>>
  <2>1. FrontRejected(code)
    BY <1>1, <1>4 DEF FinishStream
  <2> QED BY <1>1, <1>4, <2>1, FrontRejectedToken
<1>5. CASE rs.handshake /\ ~(IsPermanentWriteError(code) /\ rs.pipeline # <<>>)
  <2>1. rs' = StartIfNeeded(c) /\ UNCHANGED storedToken
    BY <1>1, <1>5 DEF FinishStream, durableVars, c
  <2>2. /\ rs'.requests = c.requests /\ rs'.token = c.token /\ rs'.enabled = c.enabled
        /\ rs'.handshake = c.handshake
    BY <1>2, <2>1, StartKeepsCall
  <2>3. TokenUsed(rs', currentUser)
    BY <1>2, <2>2, NothingSent DEF Quiet
  <2> QED BY <1>1, <1>2, <2>1, <2>2, <2>3, TokenKept
<1> QED BY <1>3, <1>4, <1>5

\* Tasks and calls that touch neither the stream nor a token.
LEMMA OtherToken ==
  ASSUME IInv, TokenInv,
         \/ WaitForPendingWrites \/ (\E s \in lingering : LingeringRequest(s))
         \/ (\E s \in lingering : LingeringCallEnds(s)) \/ UNCHANGED vars
  PROVE  TokenInv'
<1>1. UNCHANGED <<currentUser, storedToken, rs>>
  BY DEF WaitForPendingWrites, LingeringRequest, LingeringCallEnds, vars, clientVars,
         durableVars
<1> QED BY <1>1, TokenFacts, TokenKept

-----------------------------------------------------------------------------
(* The invariant.                                                          *)

LEMMA InitToken ==
  ASSUME Init
  PROVE  TokenInv
<1>1. /\ currentUser \in Users /\ storedToken = [u \in Users |-> NoUser]
      /\ rs = EnableNetworkInternal(NewRemote, NoUser, <<>>)
  BY DEF Init
<1>2. NoUser \in Tokens /\ <<>> \in Seq(Batches) /\ Increasing(<<>>)
  BY DEF Tokens, Increasing
<1>3. TokenUsed(rs, currentUser) /\ rs.token = NoUser
  BY <1>1, <1>2, NewRemoteUsesToken
<1> QED BY <1>1, <1>3 DEF TokenInv

LEMMA NextToken ==
  ASSUME IInv, TokenInv, [Next]_vars
  PROVE  TokenInv'
<1>1. CASE WriteMutations
  BY <1>1, WriteMutationsToken
<1>2. CASE \/ EnableNetwork \/ DisableNetwork \/ ConnectivityChange
           \/ \E u \in Users : HandleCredentialChange(u)
  BY <1>2, NetworkToken
<1>3. CASE \/ (\E u \in Users : Crash(u)) \/ (\E u \in Users : CrashBeforeAcknowledge(u))
           \/ (\E u \in Users : CrashAfterReject(u))
  BY <1>3, RestartedToken
<1>4. CASE StreamOpens \/ BackoffElapses \/ IdleTimeout
  BY <1>4, StreamToken
<1>5. CASE ReceiveHandshake
  BY <1>5, ReceiveHandshakeToken
<1>6. CASE ReceiveResult
  BY <1>6, ReceiveResultToken
<1>7. CASE CredentialsFail \/ ConnectionLost \/ StatusArrives \/ ResponseUndecodable
  <2>1. "Transient" \in ErrorCodes /\ "Permanent" \in ErrorCodes
    BY DEF ErrorCodes
  <2>2. StatusArrives => rs.status \in ErrorCodes
    BY CurrentFacts DEF StatusArrives, Remotes, Consistent
  <2>3. PICK code \in ErrorCodes : FinishStream(code)
    BY <1>7, <2>1, <2>2
       DEF CredentialsFail, ConnectionLost, StatusArrives, ResponseUndecodable
  <2>4. IsStarted(rs)
    BY <1>7 DEF CredentialsFail, ConnectionLost, StatusArrives, ResponseUndecodable,
                IsOpen, IsStarted
  <2> QED BY <2>3, <2>4, FinishStreamToken
<1>8. CASE \/ ServerAnswers \/ ServerRefuses
           \/ \E code \in ServerStatuses : ServerEndsCall(code)
  BY <1>8, BackendToken
<1>9. CASE \/ WaitForPendingWrites \/ (\E s \in lingering : LingeringRequest(s))
           \/ (\E s \in lingering : LingeringCallEnds(s)) \/ UNCHANGED vars
  BY <1>9, OtherToken
<1> QED BY <1>1, <1>2, <1>3, <1>4, <1>5, <1>6, <1>7, <1>8, <1>9 DEF Next

\* The token invariant, the invariant of the pipeline and that of the order give the
\* property: a write on the call is one of the pipeline, so of the user's own queue.
LEMMA TokensFromInvariants ==
  ASSUME IInv, OrderInv, TokenInv
  PROVE  TokensBelongToUser
<1> DEFINE q == queue[currentUser]
<1>1. ASSUME NEW i \in 1 .. Len(rs.requests), rs.requests[i].write # Handshake
      PROVE  author[rs.requests[i].write] = currentUser
  <2> DEFINE k == Len(rs.responses)
             l == Len(rs.requests)
             n == Len(rs.pipeline)
             m == Len(q)
  <2>1. /\ Consistent(rs, q) /\ currentUser \in Users /\ k \in Nat /\ l \in Nat /\ n \in Nat
        /\ m \in Nat
    BY TokenFacts DEF Remotes
  <2>2. IsOpen(rs) /\ Correlated(rs)
    <3>1. rs.requests # <<>>
      BY <1>1, <2>1
    <3> QED BY <2>1, <3>1 DEF Consistent, Quiet
  <2>3. rs.handshake
    BY <1>1, <2>2 DEF Correlated
  <2>4. k + l = n /\ rs.requests[i].write = rs.pipeline[k + i].write
    BY <1>1, <2>2, <2>3 DEF Correlated
  <2>5. n <= m /\ \A j \in 1 .. n : rs.pipeline[j] = q[j]
    BY <2>1 DEF Consistent, IsFront
  <2>6. i \in 1 .. l
    OBVIOUS
  <2> HIDE DEF k, l, n, m
  <2>7. k + i \in 1 .. n /\ k + i \in 1 .. m
    BY <2>1, <2>4, <2>5, <2>6
  <2>8. rs.requests[i].write = q[k + i].write
    BY <2>4, <2>5, <2>7
  <2> QED BY <2>1, <2>7, <2>8 DEF OrderInv, QueuesHoldPendingWrites, m
<1> QED BY <1>1 DEF TokenInv, TokenUsed, TokensBelongToUser

\* A stream token never leaves its user: not into another user's database, nor onto
\* a call made for another user, nor past the reset of HandleHandshakeError.
THEOREM TokensStayWithUser ==
  ASSUME "OK" \notin ServerStatuses
  PROVE  Spec => []TokensBelongToUser
<1>1. Init => TokenInv
  BY InitToken
<1>2. IInv /\ TokenInv /\ [Next]_vars => TokenInv'
  BY NextToken
<1>3. IInv /\ OrderInv /\ TokenInv => TokensBelongToUser
  BY TokensFromInvariants
<1>4. Spec => []IInv /\ []OrderInv
  BY InvariantHolds, OrderHolds
<1> QED BY <1>1, <1>2, <1>3, <1>4, PTL DEF Spec
=============================================================================
