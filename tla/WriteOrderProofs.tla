--------------------------- MODULE WriteOrderProofs ---------------------------
(***************************************************************************)
(* Proofs of WriteOrder: OrderInv is inductive relative to IInv, for a      *)
(* backend that ends its calls with an error, and every step of the write  *)
(* path is a step of DurableWrites or leaves its variables alone.          *)
(*                                                                         *)
(* Both rest on one lemma (NextEffects): whatever the handler, a task has  *)
(* one of five effects on the history, the ones DurableWrites describes.   *)
(***************************************************************************)
EXTENDS WriteOrder, WritePipelineProofs

-----------------------------------------------------------------------------
(* What the two invariants say between tasks.                               *)

LEMMA HistoryTyped ==
  ASSUME IInv
  PROVE  /\ issued \in Nat /\ issued <= MaxWrites /\ MaxWrites \in Nat
         /\ currentUser \in Users
         /\ queue \in [Users -> Seq(Batches)]
         /\ author \in [Writes -> Tokens]
         /\ fate \in [Writes -> {"None", "Queued", "Acked", "Rejected"}]
         /\ told \in [Writes -> {"Nothing", "Ok", "Error"}]
         /\ callbacks \in [Users -> SUBSET Batches]
         /\ committed \subseteq Writes /\ waited \subseteq Writes
         /\ lingering \subseteq Seq(Writes \cup {Handshake}) \ {<<>>}
BY ConstantsAssumption DEF IInv, TypeOK

\* A write of the same user before a queued one is settled, or queued before it.
LEMMA EarlierInQueue ==
  ASSUME IInv, OrderInv, NEW u \in Users, NEW k \in 1 .. Len(queue[u]), NEW v \in Writes,
         Precedes(v, queue[u][k].write)
  PROVE  Settled(v) \/ \E j \in 1 .. k - 1 : queue[u][j].write = v
<1> DEFINE q == queue[u]
           w == q[k].write
<1>1. q \in Seq(Batches) /\ Len(q) \in Nat
  BY HistoryTyped
<1>2. w <= issued /\ author[w] = u /\ v < w /\ author[v] = u /\ w \in Nat
  <2>1. q[k] \in Batches
    BY <1>1, ElementOfSeq
  <2> QED BY <2>1 DEF OrderInv, QueuesHoldPendingWrites, Precedes, Batches, Writes
<1>3. v \in 1 .. issued
  BY <1>2, HistoryTyped DEF Writes
<1>4. CASE fate[v] # "Queued"
  <2>1. fate[v] # "None" /\ fate[v] \in {"None", "Queued", "Acked", "Rejected"}
    BY <1>3, HistoryTyped DEF OrderInv, QueuesHoldPendingWrites
  <2> QED BY <1>4, <2>1 DEF Settled
<1>5. CASE fate[v] = "Queued"
  <2>1. PICK i \in 1 .. Len(q) : q[i].write = v
    BY <1>2, <1>3, <1>5 DEF OrderInv, QueuesHoldPendingWrites
  <2>2. ~(k < i)
    <3>1. k < i => q[k].write < q[i].write
      BY DEF OrderInv, QueuesHoldPendingWrites
    <3> QED BY <1>2, <2>1, <3>1 DEF Writes
  <2>3. i # k
    BY <1>2, <2>1 DEF Writes
  <2>4. i \in 1 .. k - 1
    BY <1>1, <2>2, <2>3
  <2> QED BY <2>1, <2>4
<1> QED BY <1>4, <1>5

\* A settled write is accounted for.
LEMMA SettledAccounted ==
  ASSUME IInv, NEW v \in Writes, Settled(v)
  PROVE  Accounted(v)
BY DEF IInv, SuccessMeansCommitted, Settled, Accounted

\* The requests of the current call are in order.
LEMMA CallInOrder ==
  ASSUME IInv, OrderInv
  PROVE  InOrder([i \in 1 .. Len(rs.requests) |-> rs.requests[i].write])
<1> DEFINE q == queue[currentUser]
           p == rs.pipeline
           k == Len(rs.responses)
           l == Len(rs.requests)
           s == [i \in 1 .. l |-> rs.requests[i].write]
<1>1. /\ currentUser \in Users /\ Consistent(rs, q) /\ q \in Seq(Batches)
      /\ rs \in Remotes /\ p \in Seq(Batches) /\ k \in Nat /\ l \in Nat
      /\ Len(p) \in Nat /\ Len(q) \in Nat
  BY CurrentFacts DEF Remotes
<1>2. Len(s) = l
  BY <1>1
<1>3. SUFFICES ASSUME NEW i \in 1 .. l, s[i] # Handshake
               PROVE  /\ s[i] <= issued
                      /\ \A v \in Writes :
                           Precedes(v, s[i]) =>
                             Accounted(v) \/ \E j \in 1 .. i - 1 : s[j] = v
  BY <1>2 DEF InOrder
<1>4. s[i] = rs.requests[i].write
  OBVIOUS
<1>5. IsOpen(rs) /\ Correlated(rs) /\ rs.handshake
  <2>1. rs.requests # <<>>
    BY <1>1, <1>3
  <2>2. IsOpen(rs) /\ Correlated(rs)
    BY <1>1, <2>1 DEF Consistent, Quiet
  <2> QED BY <1>3, <1>4, <2>2 DEF Correlated
<1>6. /\ k + l = Len(p)
      /\ \A j \in 1 .. k : rs.responses[j] = p[j].write
      /\ \A j \in 1 .. l : rs.requests[j].write = p[k + j].write
  BY <1>5 DEF Correlated
<1>7. \A j \in 1 .. k : p[j].write \in committed
  BY <1>5, <1>6 DEF IInv, ResultsCommitted
<1>8. Len(p) <= Len(q) /\ \A j \in 1 .. Len(p) : p[j] = q[j]
  BY <1>1 DEF Consistent, IsFront
<1> DEFINE n == Len(p)
           m == Len(q)
<1> HIDE DEF k, l, n, m, s
<1>9. k + i \in 1 .. n /\ k + i \in 1 .. m /\ n \in Nat
  <2>1. k + l = n /\ n <= m /\ k \in Nat /\ l \in Nat /\ n \in Nat /\ m \in Nat
    BY <1>1, <1>6, <1>8 DEF n, m
  <2> QED BY <2>1
<1>10. s[i] = q[k + i].write
  BY <1>4, <1>6, <1>8, <1>9 DEF n, m
<1>11. s[i] <= issued
  BY <1>1, <1>9, <1>10 DEF OrderInv, QueuesHoldPendingWrites, m
<1>12. ASSUME NEW v \in Writes, Precedes(v, s[i])
       PROVE  Accounted(v) \/ \E j \in 1 .. i - 1 : s[j] = v
  <2>1. Settled(v) \/ \E j \in 1 .. (k + i) - 1 : q[j].write = v
    BY <1>1, <1>9, <1>10, <1>12, EarlierInQueue DEF m
  <2>2. CASE Settled(v)
    BY <2>2, SettledAccounted
  <2>3. CASE \E j \in 1 .. (k + i) - 1 : q[j].write = v
    <3>1. PICK j \in 1 .. (k + i) - 1 : q[j].write = v
      BY <2>3
    <3>2. j \in 1 .. n /\ p[j].write = v
      <4>1. j \in 1 .. n
        BY <1>1, <1>9
      <4> QED BY <1>8, <3>1, <4>1 DEF n
    <3>3. CASE j <= k
      BY <1>1, <1>7, <3>2, <3>3 DEF Accounted
    <3>4. CASE j > k
      <4>1. j - k \in 1 .. i - 1 /\ j - k \in 1 .. l /\ k + (j - k) = j
        BY <1>1, <1>3, <3>4
      <4>2. s[j - k] = v
        BY <1>6, <3>2, <4>1 DEF s
      <4> QED BY <4>1, <4>2
    <3> QED BY <1>1, <3>3, <3>4
  <2> QED BY <2>1, <2>2, <2>3
<1> QED BY <1>11, <1>12

-----------------------------------------------------------------------------
(* The effects a task can have on the history.                              *)

NothingHappens ==
  UNCHANGED <<issued, author, queue, fate, told, committed, waited>>

Issues ==
  LET batch == [id |-> nextBatchId, write |-> issued + 1] IN
  /\ issued < MaxWrites /\ issued' = issued + 1
  /\ author' = [author EXCEPT ![issued + 1] = currentUser]
  /\ queue' = [queue EXCEPT ![currentUser] = Append(@, batch)]
  /\ fate' = [fate EXCEPT ![issued + 1] = "Queued"]
  /\ UNCHANGED <<told, committed, waited>>

\* The backend applies a write whose predecessors are accounted for.
Commits(w) ==
  /\ w <= issued
  /\ \A v \in Writes : Precedes(v, w) => Accounted(v)
  /\ committed' = committed \cup {w}
  /\ UNCHANGED <<issued, author, queue, fate, told, waited>>

\* The first write of the current user's queue.
Oldest == Head(queue[currentUser]).write

TellsFront(result) ==
  \/ UNCHANGED told
  \/ told[Oldest] = "Nothing" /\ told' = [told EXCEPT ![Oldest] = result]

\* It leaves the queue, and the application may hear of it.
Settles(end, result) ==
  /\ queue[currentUser] # <<>>
  /\ queue' = [queue EXCEPT ![currentUser] = Tail(@)]
  /\ fate' = [fate EXCEPT ![Oldest] = end]
  /\ TellsFront(result)
  /\ waited' \subseteq waited \cup {Oldest}
  /\ UNCHANGED <<issued, author, committed>>

Acknowledges == Oldest \in committed /\ Settles("Acked", "Ok")
Rejects == Settles("Rejected", "Error")

\* The application and its waiters hear of it, and it is still queued when the
\* process stops.
OnlyTells ==
  /\ queue[currentUser] # <<>> /\ Oldest \in committed
  /\ TellsFront("Ok")
  /\ waited' \subseteq waited \cup {Oldest}
  /\ UNCHANGED <<issued, author, queue, fate, committed>>

HasEffect ==
  NothingHappens \/ Issues \/ (\E w \in Writes : Commits(w)) \/ Acknowledges \/ Rejects
    \/ OnlyTells

\* What an action shows besides its effect.
KeepsRest == LingeringInOrder' /\ CallbacksUntold' /\ WaitsCanResolve'

-----------------------------------------------------------------------------
(* Actions that leave the history alone.                                    *)

LEMMA LingeringStep ==
  ASSUME IInv, OrderInv, UNCHANGED <<issued, author>>, committed \subseteq committed',
         \A v \in Writes : fate[v] = "Rejected" => fate'[v] = "Rejected",
         Linger(rs) \/ lingering' \subseteq lingering
  PROVE  LingeringInOrder'
<1> DEFINE left == [i \in 1 .. Len(rs.requests) |-> rs.requests[i].write]
<1>1. lingering' \subseteq lingering \cup {left}
  BY DEF Linger
<1>2. InOrder(left)
  BY CallInOrder
<1> HIDE DEF left
<1>3. \A s \in lingering' : InOrder(s)
  BY <1>1, <1>2 DEF OrderInv, LingeringInOrder
<1>4. \A v \in Writes : Accounted(v) => Accounted(v)'
  BY DEF Accounted
<1>5. ASSUME NEW s \in lingering' PROVE InOrder(s)'
  BY <1>3, <1>4, <1>5 DEF InOrder, Precedes
<1> QED BY <1>5 DEF LingeringInOrder

\* A process that starts knows of no callback and no waiter.
LEMMA ForgetfulStep ==
  ASSUME \A u \in Users : callbacks'[u] = {}, waits' = {}, LingeringInOrder'
  PROVE  KeepsRest
BY DEF KeepsRest, CallbacksUntold, WaitsCanResolve

LEMMA QuietStep ==
  ASSUME IInv, OrderInv, NothingHappens, UNCHANGED <<currentUser, callbacks, waits>>,
         Linger(rs) \/ lingering' \subseteq lingering
  PROVE  HasEffect /\ KeepsRest
<1>1. LingeringInOrder'
  BY LingeringStep DEF NothingHappens
<1>2. CallbacksUntold' /\ WaitsCanResolve'
  BY DEF NothingHappens, OrderInv, CallbacksUntold, WaitsCanResolve
<1> QED BY <1>1, <1>2 DEF HasEffect, KeepsRest

LEMMA QuietActions ==
  ASSUME IInv, OrderInv,
         \/ EnableNetwork \/ DisableNetwork \/ ConnectivityChange \/ StreamOpens
         \/ BackoffElapses \/ IdleTimeout \/ ReceiveHandshake \/ ServerRefuses
         \/ (\E code \in ServerStatuses : ServerEndsCall(code))
         \/ (\E s \in lingering : LingeringCallEnds(s)) \/ UNCHANGED vars
  PROVE  HasEffect /\ KeepsRest
<1>1. NothingHappens /\ UNCHANGED <<currentUser, callbacks, waits>>
  BY DEF EnableNetwork, DisableNetwork, ConnectivityChange, StreamOpens, BackoffElapses,
         IdleTimeout, ReceiveHandshake, ServerRefuses, ServerEndsCall, LingeringCallEnds,
         NothingHappens, vars, clientVars, durableVars, serverVars, historyVars
<1>2. Linger(rs) \/ lingering' \subseteq lingering
  BY DEF EnableNetwork, DisableNetwork, ConnectivityChange, StreamOpens, BackoffElapses,
         IdleTimeout, ReceiveHandshake, ServerRefuses, ServerEndsCall, LingeringCallEnds,
         vars
<1> QED BY <1>1, <1>2, QuietStep

LEMMA WaitForPendingWritesEffect ==
  ASSUME IInv, OrderInv, WaitForPendingWrites
  PROVE  HasEffect /\ KeepsRest
<1> DEFINE q == queue[currentUser]
<1>1. NothingHappens /\ UNCHANGED <<currentUser, callbacks, lingering, rs>>
  BY DEF WaitForPendingWrites, durableVars, serverVars, historyVars, NothingHappens
<1>2. LingeringInOrder'
  BY <1>1, LingeringStep DEF NothingHappens
<1>3. CallbacksUntold'
  BY <1>1 DEF NothingHappens, OrderInv, CallbacksUntold
<1>4. Last(q) \in Range(q) /\ Last(q) \in Batches
  <2>1. q \in Seq(Batches) /\ q # <<>>
    BY CurrentFacts DEF WaitForPendingWrites
  <2>2. Len(q) \in 1 .. Len(q)
    BY <2>1
  <2> QED BY <2>1, <2>2, ElementOfSeq DEF Last, Range
<1>5. [id |-> Last(q).id, write |-> Last(q).write] = Last(q)
  BY <1>4 DEF Batches
<1>6. WaitsCanResolve'
  <2>1. waits' = waits \cup {[id |-> Last(q).id, upTo |-> Last(q).write]}
    BY DEF WaitForPendingWrites
  <2>2. \A x \in waits : [id |-> x.id, write |-> x.upTo] \in Range(q)
    BY DEF OrderInv, WaitsCanResolve
  <2>3. queue'[currentUser'] = q
    BY <1>1 DEF NothingHappens
  <2> HIDE DEF q
  <2>4. \A x \in waits' : [id |-> x.id, write |-> x.upTo] \in Range(q)
    <3> DEFINE y == [id |-> Last(q).id, upTo |-> Last(q).write]
    <3>1. [id |-> y.id, write |-> y.upTo] = Last(q)
      BY <1>5
    <3> HIDE DEF y
    <3>2. waits' = waits \cup {y}
      BY <2>1 DEF y
    <3> QED BY <1>4, <2>2, <3>1, <3>2
  <2> QED BY <2>3, <2>4 DEF WaitsCanResolve
<1> QED BY <1>1, <1>2, <1>3, <1>6 DEF HasEffect, KeepsRest

LEMMA CredentialChangeEffect ==
  ASSUME IInv, OrderInv, NEW u \in Users, HandleCredentialChange(u)
  PROVE  HasEffect /\ KeepsRest
<1>1. NothingHappens /\ UNCHANGED callbacks /\ (Linger(rs) \/ lingering' \subseteq lingering)
      /\ currentUser' = u /\ (waits' = {} \/ (u = currentUser /\ waits' = waits))
  BY DEF HandleCredentialChange, FailOutstandingPendingWriteCallbacks, durableVars,
         serverVars, historyVars, NothingHappens
<1>2. LingeringInOrder'
  BY <1>1, LingeringStep DEF NothingHappens
<1>3. CallbacksUntold' /\ WaitsCanResolve'
  BY <1>1 DEF NothingHappens, OrderInv, CallbacksUntold, WaitsCanResolve
<1> QED BY <1>1, <1>2, <1>3 DEF HasEffect, KeepsRest

LEMMA CrashEffect ==
  ASSUME IInv, OrderInv, NEW u \in Users, Crash(u)
  PROVE  HasEffect /\ KeepsRest
<1>1. NothingHappens /\ Linger(rs) /\ waits' = {} /\ callbacks' = [v \in Users |-> {}]
  BY DEF Crash, Restarted, durableVars, serverVars, historyVars, NothingHappens
<1>2. LingeringInOrder'
  BY <1>1, LingeringStep DEF NothingHappens
<1> QED BY <1>1, <1>2, ForgetfulStep DEF HasEffect

-----------------------------------------------------------------------------
(* The backend.                                                            *)

LEMMA ServerAnswersEffect ==
  ASSUME IInv, OrderInv, ServerAnswers
  PROVE  HasEffect /\ KeepsRest
<1> DEFINE s == [i \in 1 .. Len(rs.requests) |-> rs.requests[i].write]
           w == Head(rs.requests).write
<1>1. UNCHANGED <<currentUser, callbacks, waits, queue, lingering, issued, author, fate,
                  told, waited>>
  BY DEF ServerAnswers, durableVars, historyVars
<1>2. committed' = IF w = Handshake THEN committed ELSE committed \cup {w}
  BY DEF ServerAnswers
<1>3. rs.requests \in Seq(Requests) /\ rs.requests # <<>>
  BY CurrentFacts DEF ServerAnswers, Remotes
<1>4. 1 \in 1 .. Len(rs.requests) /\ Len(s) = Len(rs.requests) /\ s[1] = w
  BY <1>3
<1>5. InOrder(s)
  BY CallInOrder
<1> HIDE DEF s
<1>6. w # Handshake => /\ w <= issued
                       /\ \A v \in Writes : Precedes(v, w) => Accounted(v)
  <2>1. ~\E j \in 1 .. 1 - 1 : TRUE
    OBVIOUS
  <2> QED BY <1>4, <1>5, <2>1 DEF InOrder
<1>7. w \in Writes \cup {Handshake}
  <2>1. rs.requests[1] \in Requests
    BY <1>3, <1>4, ElementOfSeq
  <2> QED BY <1>3, <2>1 DEF Requests
<1>8. HasEffect
  BY <1>1, <1>2, <1>6, <1>7 DEF HasEffect, NothingHappens, Commits
<1>9. KeepsRest
  <2>1. LingeringInOrder'
    BY <1>1, <1>2, LingeringStep
  <2> QED BY <1>1, <2>1 DEF KeepsRest, OrderInv, CallbacksUntold, WaitsCanResolve
<1> QED BY <1>8, <1>9

\* Serving the first request of a closed call leaves the rest of it in order.
LEMMA LingeringRequestEffect ==
  ASSUME IInv, OrderInv, NEW s \in lingering, LingeringRequest(s)
  PROVE  HasEffect /\ KeepsRest
<1> DEFINE w == Head(s)
<1>1. UNCHANGED <<currentUser, callbacks, waits, queue, issued, author, fate, told, waited>>
  BY DEF LingeringRequest, clientVars, durableVars, historyVars
<1>2. committed' = IF w = Handshake THEN committed ELSE committed \cup {w}
  BY DEF LingeringRequest
<1>3. s \in Seq(Writes \cup {Handshake}) /\ s # <<>> /\ InOrder(s)
  BY HistoryTyped DEF OrderInv, LingeringInOrder
<1>4. 1 \in 1 .. Len(s) /\ s[1] = w /\ Len(s) \in Nat /\ w \in Writes \cup {Handshake}
  BY <1>3
<1>5. w # Handshake => /\ w <= issued
                       /\ \A v \in Writes : Precedes(v, w) => Accounted(v)
  <2>1. ~\E j \in 1 .. 1 - 1 : TRUE
    OBVIOUS
  <2> QED BY <1>3, <1>4, <2>1 DEF InOrder
<1>6. HasEffect
  BY <1>1, <1>2, <1>4, <1>5 DEF HasEffect, NothingHappens, Commits
<1>7. \A v \in Writes : Accounted(v) => Accounted(v)'
  BY <1>1, <1>2 DEF Accounted
<1>8. InOrder(Tail(s))'
  <2> DEFINE t == Tail(s)
  <2>1. Len(t) = Len(s) - 1 /\ \A i \in 1 .. Len(t) : t[i] = s[i + 1]
    BY <1>3, HeadTailProperties
  <2> HIDE DEF t
  <2>2. ASSUME NEW i \in 1 .. Len(t), t[i] # Handshake
        PROVE  /\ t[i] <= issued
               /\ \A v \in Writes :
                    Precedes(v, t[i]) => Accounted(v)' \/ \E j \in 1 .. i - 1 : t[j] = v
    <3>1. i + 1 \in 1 .. Len(s) /\ t[i] = s[i + 1]
      BY <1>4, <2>1
    <3>2. t[i] <= issued
      BY <1>3, <2>2, <3>1 DEF InOrder
    <3>3. ASSUME NEW v \in Writes, Precedes(v, t[i])
          PROVE  Accounted(v)' \/ \E j \in 1 .. i - 1 : t[j] = v
      <4>1. Accounted(v) \/ \E j \in 1 .. (i + 1) - 1 : s[j] = v
        BY <1>3, <2>2, <3>1, <3>3 DEF InOrder
      <4>2. CASE Accounted(v)
        BY <1>7, <4>2
      <4>3. CASE \E j \in 1 .. (i + 1) - 1 : s[j] = v
        <5>1. PICK j \in 1 .. (i + 1) - 1 : s[j] = v
          BY <4>3
        <5>2. CASE j = 1
          BY <1>2, <1>4, <5>1, <5>2 DEF Accounted, Writes, Handshake
        <5>3. CASE j # 1
          <6>1. j - 1 \in 1 .. i - 1 /\ j - 1 \in 1 .. Len(t) /\ (j - 1) + 1 = j
            BY <1>4, <2>1, <5>1, <5>3
          <6> QED BY <2>1, <5>1, <6>1
        <5> QED BY <5>2, <5>3
      <4> QED BY <4>1, <4>2, <4>3
    <3> QED BY <3>2, <3>3
  <2> QED BY <1>1, <2>2 DEF InOrder, Precedes, t
<1>9. LingeringInOrder'
  <2>1. ASSUME NEW t \in lingering PROVE InOrder(t)'
    <3>1. InOrder(t)
      BY DEF OrderInv, LingeringInOrder
    <3> QED BY <1>1, <1>7, <3>1 DEF InOrder, Precedes
  <2>2. \A t \in lingering' : t \in lingering \/ t = Tail(s)
    BY DEF LingeringRequest
  <2> QED BY <1>8, <2>1, <2>2 DEF LingeringInOrder
<1> QED BY <1>1, <1>6, <1>9 DEF KeepsRest, OrderInv, CallbacksUntold, WaitsCanResolve

-----------------------------------------------------------------------------
(* A new write.                                                            *)

LEMMA WriteMutationsEffect ==
  ASSUME IInv, OrderInv, WriteMutations
  PROVE  HasEffect /\ KeepsRest
<1> DEFINE new == issued + 1
           batch == [id |-> nextBatchId, write |-> new]
           q == queue[currentUser]
<1>1. /\ issued < MaxWrites /\ issued' = new
      /\ author' = [author EXCEPT ![new] = currentUser]
      /\ queue' = [queue EXCEPT ![currentUser] = Append(@, batch)]
      /\ fate' = [fate EXCEPT ![new] = "Queued"]
      /\ callbacks' = [callbacks EXCEPT ![currentUser] = @ \cup {batch}]
      /\ UNCHANGED <<currentUser, waits, committed, lingering, told, waited>>
  BY DEF WriteMutations, WriteLocally, serverVars
<1>2. new \in Writes /\ new \in Nat /\ q \in Seq(Batches) /\ Len(q) \in Nat
      /\ nextBatchId \in Nat /\ new > issued
  BY <1>1, HistoryTyped DEF Writes, IInv, TypeOK
<1>3. HasEffect
  BY <1>1 DEF HasEffect, Issues
<1>4. \A v \in Writes : v # new => author'[v] = author[v] /\ fate'[v] = fate[v]
  BY <1>1, HistoryTyped
<1>5. LingeringInOrder'
  <2>1. ASSUME NEW s \in lingering, NEW i \in 1 .. Len(s), s[i] # Handshake
        PROVE  /\ s[i] <= issued'
               /\ \A v \in Writes :
                    Precedes(v, s[i])' => Accounted(v)' \/ \E j \in 1 .. i - 1 : s[j] = v
    <3>1. s \in Seq(Writes \cup {Handshake}) /\ InOrder(s)
      BY HistoryTyped DEF OrderInv, LingeringInOrder
    <3>2. s[i] \in Writes /\ s[i] <= issued
      BY <2>1, <3>1, ElementOfSeq DEF InOrder
    <3>3. \A v \in Writes : Precedes(v, s[i])' => Precedes(v, s[i])
      BY <1>1, <1>2, <1>4, <3>2, HistoryTyped DEF Precedes, Writes
    <3>4. \A v \in Writes : Accounted(v) => Accounted(v)'
      BY <1>1, <1>4, <1>2 DEF Accounted, OrderInv, FutureIsBlank
    <3>5. s[i] <= issued'
      BY <1>1, <1>2, <3>2, HistoryTyped DEF Writes
    <3> QED BY <2>1, <3>1, <3>3, <3>4, <3>5 DEF InOrder
  <2> QED BY <1>1, <2>1 DEF LingeringInOrder, InOrder
<1>6. CallbacksUntold'
  <2>1. told[new] = "Nothing" /\ batch.write = new
    BY <1>2 DEF OrderInv, FutureIsBlank
  <2> HIDE DEF batch, new
  <2>2. ASSUME NEW u \in Users, NEW b \in callbacks'[u] PROVE b \in callbacks[u] \/ b = batch
    BY <1>1, <2>2, HistoryTyped
  <2> QED BY <1>1, <2>1, <2>2 DEF OrderInv, CallbacksUntold
<1>7. WaitsCanResolve'
  <2>1. batch \in Batches
    BY <1>2 DEF Batches
  <2> HIDE DEF batch
  <2>2. Append(q, batch) \in Seq(Batches) /\ Len(Append(q, batch)) = Len(q) + 1
        /\ \A i \in 1 .. Len(q) : Append(q, batch)[i] = q[i]
    BY <1>2, <2>1, AppendProperties
  <2>3. Range(q) \subseteq Range(Append(q, batch))
    <3>1. \A i \in 1 .. Len(q) : i \in 1 .. Len(Append(q, batch))
      BY <1>2, <2>2
    <3>2. Range(q) = {q[i] : i \in 1 .. Len(q)}
      BY <1>2, RangeEquality
    <3> DEFINE r == Append(q, batch)
    <3>3. r \in Seq(Batches) /\ \A i \in 1 .. Len(q) : i \in 1 .. Len(r) /\ r[i] = q[i]
      BY <2>2, <3>1
    <3> HIDE DEF r
    <3>4. Range(r) = {r[i] : i \in 1 .. Len(r)}
      BY <3>3, RangeEquality
    <3>5. Range(q) \subseteq Range(r)
      BY <3>2, <3>3, <3>4
    <3> QED BY <3>5 DEF r
  <2>4. queue'[currentUser'] = Append(q, batch)
    BY <1>1, HistoryTyped
  <2> QED BY <1>1, <2>3, <2>4 DEF OrderInv, WaitsCanResolve
<1> QED BY <1>3, <1>5, <1>6, <1>7 DEF KeepsRest

-----------------------------------------------------------------------------
(* The first write of the queue is settled, or only told.                   *)

LEMMA FrontWrite ==
  ASSUME IInv, OrderInv, rs.pipeline # <<>>
  PROVE  LET q == queue[currentUser] IN
         /\ q \in Seq(Batches) /\ q # <<>> /\ Len(q) \in Nat /\ 1 \in 1 .. Len(q)
         /\ Increasing(q) /\ currentUser \in Users
         /\ Head(rs.pipeline) = q[1] /\ Oldest = q[1].write /\ q[1] \in Batches
         /\ Oldest \in Writes /\ fate[Oldest] = "Queued"
<1> DEFINE q == queue[currentUser]
<1>1. /\ q \in Seq(Batches) /\ Increasing(q) /\ currentUser \in Users /\ q # <<>>
      /\ Head(rs.pipeline) = q[1] /\ q[1] \in Batches
  BY CurrentFacts, FrontFacts
<1>2. 1 \in 1 .. Len(q) /\ Len(q) \in Nat /\ Oldest = q[1].write
  BY <1>1 DEF Oldest
<1>3. fate[q[1].write] = "Queued" /\ q[1].write \in Writes
  BY <1>1, <1>2 DEF OrderInv, QueuesHoldPendingWrites, Batches
<1> QED BY <1>1, <1>2, <1>3

\* Among the batches queued by any user, it is the write of the first one only.
LEMMA FrontIsUnique ==
  ASSUME IInv, OrderInv, rs.pipeline # <<>>, NEW u \in Users, NEW b \in Range(queue[u]),
         b.write = Oldest
  PROVE  u = currentUser /\ b = Head(rs.pipeline)
<1> DEFINE q == queue[currentUser]
<1>1. PICK i \in 1 .. Len(queue[u]) : b = queue[u][i]
  BY HistoryTyped, RangeEquality
<1>2. 1 \in 1 .. Len(q) /\ Oldest = q[1].write /\ Head(rs.pipeline) = q[1]
      /\ currentUser \in Users /\ Oldest \in Writes /\ Len(q) \in Nat
  BY FrontWrite
<1>3. author[Oldest] = u /\ author[Oldest] = currentUser
  BY <1>1, <1>2 DEF OrderInv, QueuesHoldPendingWrites
<1>4. ~(1 < i)
  <2>1. 1 < i => q[1].write < q[i].write
    BY <1>1, <1>2, <1>3 DEF OrderInv, QueuesHoldPendingWrites
  <2> QED BY <1>1, <1>2, <1>3, <2>1 DEF Writes
<1> QED BY <1>1, <1>2, <1>3, <1>4

\* Its callback is called if it is registered, and only then.
LEMMA ToldFront ==
  ASSUME IInv, OrderInv, rs.pipeline # <<>>, NEW result,
         told' = Told(Head(rs.pipeline).id, result)
  PROVE  TellsFront(result)
<1> DEFINE front == Head(rs.pipeline)
<1>1. /\ \A b \in callbacks[currentUser] : b.id = front.id => b = front
      /\ Oldest = front.write /\ Oldest \in Writes /\ currentUser \in Users
  BY FrontFacts, FrontWrite
<1> HIDE DEF front
<1>2. CASE front \in callbacks[currentUser]
  <2>1. told[Oldest] = "Nothing"
    BY <1>1, <1>2 DEF OrderInv, CallbacksUntold
  <2>2. told' = [w \in Writes |-> IF w = Oldest THEN result ELSE told[w]]
    BY <1>1, <1>2 DEF front, Told
  <2>3. told' = [told EXCEPT ![Oldest] = result]
    BY <2>2, HistoryTyped
  <2> QED BY <2>1, <2>3 DEF TellsFront
<1>3. CASE front \notin callbacks[currentUser]
  <2>1. told' = [w \in Writes |-> told[w]]
    BY <1>1, <1>3 DEF front, Told
  <2> QED BY <2>1, HistoryTyped DEF TellsFront
<1> QED BY <1>2, <1>3

LEMMA NotifiedFront ==
  ASSUME IInv, OrderInv, rs.pipeline # <<>>, NEW result,
         NotifyUser(Head(rs.pipeline).id, result)
  PROVE  TellsFront(result) /\ CallbacksUntold'
<1> DEFINE front == Head(rs.pipeline)
<1>1. TellsFront(result)
  BY ToldFront DEF NotifyUser
<1>2. ASSUME NEW u \in Users, NEW b \in callbacks'[u]
      PROVE  b \in callbacks[u] /\ ~(u = currentUser /\ b = front)
  BY <1>2, HistoryTyped DEF NotifyUser
<1>3. ASSUME NEW u \in Users, NEW b \in callbacks'[u] PROVE told'[b.write] = "Nothing"
  <2>1. b \in callbacks[u] /\ b \in Range(queue[u])
    BY <1>2, <1>3 DEF IInv, CallbacksMatchQueue
  <2>2. b.write # Oldest
    BY <1>2, <1>3, <2>1, FrontIsUnique
  <2>3. b.write \in Writes
    BY <2>1, HistoryTyped DEF Batches
  <2>4. told'[b.write] = told[b.write]
    BY <1>1, <2>2, <2>3, HistoryTyped DEF TellsFront
  <2> QED BY <2>1, <2>4 DEF OrderInv, CallbacksUntold
<1> QED BY <1>1, <1>3 DEF CallbacksUntold

\* Its waiters are those registered when it was the last write of the queue.
LEMMA ResolvedFront ==
  ASSUME IInv, OrderInv, rs.pipeline # <<>>
  PROVE  Resolved(Head(rs.pipeline).id) \subseteq waited \cup {Oldest}
<1> DEFINE q == queue[currentUser]
           front == Head(rs.pipeline)
<1>1. /\ q \in Seq(Batches) /\ q # <<>> /\ Increasing(q) /\ front = q[1]
      /\ Oldest = front.write /\ 1 \in 1 .. Len(q) /\ front \in Batches
  BY FrontWrite
<1>2. \A b \in Range(q) : b.id = front.id => b = front
  <2>1. ASSUME NEW b \in Range(q), b.id = front.id PROVE b = front
    <3>1. PICK i \in 1 .. Len(q) : b = q[i]
      BY <1>1, RangeEquality
    <3>2. ~(1 < i)
      BY <1>1, <2>1, <3>1 DEF Increasing, Batches
    <3> QED BY <1>1, <3>1, <3>2
  <2> QED BY <2>1
<1>3. \A x \in waits : [id |-> x.id, write |-> x.upTo] \in Range(q)
  BY DEF OrderInv, WaitsCanResolve
<1> HIDE DEF q, front
<1>4. ASSUME NEW x \in waits, x.id = front.id PROVE x.upTo = Oldest
  <2> DEFINE b == [id |-> x.id, write |-> x.upTo]
  <2>1. b = front
    BY <1>2, <1>3, <1>4
  <2> QED BY <1>1, <2>1
<1> QED BY <1>4 DEF Resolved, front

LEMMA TriggeredFront ==
  ASSUME IInv, OrderInv, rs.pipeline # <<>>,
         TriggerPendingWriteCallbacks(Head(rs.pipeline).id), UNCHANGED currentUser,
         queue'[currentUser] = Tail(queue[currentUser])
  PROVE  waited' \subseteq waited \cup {Oldest} /\ WaitsCanResolve'
<1> DEFINE q == queue[currentUser]
           front == Head(rs.pipeline)
<1>1. q \in Seq(Batches) /\ q # <<>> /\ front = q[1] /\ Increasing(q)
  BY FrontWrite
<1>2. \A b \in Range(q) : b = front \/ b \in Range(Tail(q))
  BY <1>1, RemoveFront
<1>3. waited' \subseteq waited \cup {Oldest}
  BY ResolvedFront DEF TriggerPendingWriteCallbacks
<1>4. \A x \in waits : [id |-> x.id, write |-> x.upTo] \in Range(q)
  BY DEF OrderInv, WaitsCanResolve
<1>5. waits' = {x \in waits : x.id # front.id}
  BY DEF TriggerPendingWriteCallbacks
<1> HIDE DEF q, front
<1>6. ASSUME NEW x \in waits, x.id # front.id
      PROVE  [id |-> x.id, write |-> x.upTo] \in Range(Tail(q))
  <2> DEFINE b == [id |-> x.id, write |-> x.upTo]
  <2>1. b \in Range(q) /\ b.id = x.id
    BY <1>4
  <2>2. b # front
    BY <1>6, <2>1
  <2> QED BY <1>2, <2>1, <2>2
<1>7. \A x \in waits' : [id |-> x.id, write |-> x.upTo] \in Range(Tail(q))
  BY <1>5, <1>6
<1> QED BY <1>3, <1>7 DEF WaitsCanResolve, q

\* A task that settles it: the local store, the waiters and the application agree.
LEMMA SettledEffect ==
  ASSUME IInv, OrderInv, rs.pipeline # <<>>, NEW end, NEW result,
         \/ end = "Acked" /\ result = "Ok" /\ Head(rs.pipeline).write \in committed
         \/ end = "Rejected" /\ result = "Error",
         UNCHANGED <<currentUser, issued, author, committed>>,
         NotifyUser(Head(rs.pipeline).id, result),
         TriggerPendingWriteCallbacks(Head(rs.pipeline).id),
         queue' = [queue EXCEPT ![currentUser] = RemoveBatch(@, Head(rs.pipeline).id)],
         fate' = [fate EXCEPT ![Head(rs.pipeline).write] = end],
         Linger(rs) \/ lingering' \subseteq lingering
  PROVE  HasEffect /\ KeepsRest
<1> DEFINE q == queue[currentUser]
           front == Head(rs.pipeline)
<1>1. /\ q # <<>> /\ front = q[1] /\ Oldest = front.write /\ currentUser \in Users
      /\ Oldest \in Writes /\ fate[Oldest] = "Queued"
  BY FrontWrite
<1>2. RemoveBatch(q, front.id) = Tail(q)
  BY FrontRemoved
<1>3. queue' = [queue EXCEPT ![currentUser] = Tail(@)] /\ queue'[currentUser] = Tail(q)
  BY <1>1, <1>2, HistoryTyped
<1>4. TellsFront(result) /\ CallbacksUntold'
  BY NotifiedFront
<1>5. waited' \subseteq waited \cup {Oldest} /\ WaitsCanResolve'
  BY <1>3, TriggeredFront
<1>6. Settles(end, result)
  BY <1>1, <1>3, <1>4, <1>5 DEF Settles
<1>7. LingeringInOrder'
  <2>1. \A v \in Writes : fate[v] = "Rejected" => fate'[v] = "Rejected"
    BY <1>1, HistoryTyped
  <2> QED BY <2>1, LingeringStep
<1> QED BY <1>1, <1>4, <1>5, <1>6, <1>7 DEF HasEffect, KeepsRest, Acknowledges, Rejects

LEMMA ReceiveResultEffect ==
  ASSUME IInv, OrderInv, ReceiveResult
  PROVE  HasEffect /\ KeepsRest
<1>1. rs.pipeline # <<>>
  <2>1. rs \in Remotes /\ Consistent(rs, queue[currentUser]) /\ IsOpen(rs) /\ rs.handshake
        /\ rs.responses # <<>> /\ queue[currentUser] \in Seq(Batches)
        /\ storedToken[currentUser] \in Tokens
    BY CurrentFacts DEF ReceiveResult, ResultReady
  <2> DEFINE r == [rs EXCEPT !.responses = Tail(@), !.token = storedToken[currentUser],
                             !.pipeline = Tail(@)]
  <2>2. r = [rs EXCEPT !.responses = Tail(@), !.token = storedToken[currentUser],
                       !.pipeline = Tail(@)]
    OBVIOUS
  <2> HIDE DEF r
  <2> QED BY <2>1, <2>2, PoppedConsistent
<1>2. Head(rs.pipeline).write \in committed
  BY <1>1, FrontFacts DEF ReceiveResult, ResultReady
<1>3. /\ NotifyUser(Head(rs.pipeline).id, "Ok")
      /\ TriggerPendingWriteCallbacks(Head(rs.pipeline).id)
      /\ AcknowledgeBatch(Head(rs.pipeline), currentUser)
      /\ UNCHANGED <<currentUser, issued, author, committed, lingering>>
  BY <1>1 DEF ReceiveResult, serverVars
<1> QED BY <1>1, <1>2, <1>3, SettledEffect DEF AcknowledgeBatch

LEMMA FinishStreamEffect ==
  ASSUME IInv, OrderInv, NEW code \in ErrorCodes, FinishStream(code)
  PROVE  HasEffect /\ KeepsRest
<1>1. UNCHANGED <<currentUser, issued, author, committed>> /\ Linger(rs)
  BY DEF FinishStream, serverVars
<1>2. code # "OK"
  BY DEF ErrorCodes
<1>3. CASE rs.handshake /\ IsPermanentWriteError(code) /\ rs.pipeline # <<>>
  <2>1. FrontRejected(code)
    BY <1>2, <1>3 DEF FinishStream
  <2> QED BY <1>1, <1>3, <2>1, SettledEffect DEF FrontRejected, RejectBatch
<1>4. CASE ~(rs.handshake /\ IsPermanentWriteError(code) /\ rs.pipeline # <<>>)
  <2>1. UNCHANGED <<callbacks, waits, told, waited, queue, fate>>
    BY <1>2, <1>4 DEF FinishStream, HandshakeFailed, durableVars
  <2> QED BY <1>1, <2>1, QuietStep DEF NothingHappens
<1> QED BY <1>3, <1>4

\* The process stops after the callback ran and before the batch is removed: the
\* write is acknowledged again later, with no callback left to call.
LEMMA CrashBeforeAcknowledgeEffect ==
  ASSUME IInv, OrderInv, NEW u \in Users, CrashBeforeAcknowledge(u)
  PROVE  HasEffect /\ KeepsRest
<1>1. rs.pipeline # <<>> /\ IsOpen(rs) /\ rs.handshake /\ rs.responses # <<>>
  BY DEF CrashBeforeAcknowledge, ResultReady
<1>2. TellsFront("Ok")
  <2>1. told' = Told(Head(rs.pipeline).id, "Ok")
    BY DEF CrashBeforeAcknowledge
  <2> QED BY <1>1, <2>1, ToldFront
<1>3. queue[currentUser] # <<>> /\ Oldest \in committed
      /\ waited' \subseteq waited \cup {Oldest}
  BY <1>1, FrontFacts, FrontWrite, ResolvedFront DEF CrashBeforeAcknowledge
<1>4. UNCHANGED <<issued, author, queue, fate, committed>> /\ Linger(rs)
      /\ waits' = {} /\ callbacks' = [v \in Users |-> {}]
  BY DEF CrashBeforeAcknowledge, Restarted, durableVars, serverVars
<1>5. LingeringInOrder'
  BY <1>4, LingeringStep
<1> QED BY <1>2, <1>3, <1>4, <1>5, ForgetfulStep DEF HasEffect, OnlyTells

LEMMA CrashAfterRejectEffect ==
  ASSUME IInv, OrderInv, NEW u \in Users, CrashAfterReject(u)
  PROVE  HasEffect /\ KeepsRest
<1> DEFINE q == queue[currentUser]
           front == Head(rs.pipeline)
<1>1. rs.pipeline # <<>>
  BY DEF CrashAfterReject
<1>2. /\ q # <<>> /\ Oldest = front.write /\ currentUser \in Users
      /\ RemoveBatch(q, front.id) = Tail(q) /\ Oldest \in Writes /\ fate[Oldest] = "Queued"
  BY <1>1, FrontWrite, FrontRemoved
<1>3. /\ queue' = [queue EXCEPT ![currentUser] = RemoveBatch(@, front.id)]
      /\ fate' = [fate EXCEPT ![front.write] = "Rejected"]
      /\ UNCHANGED <<issued, author, committed, waited>> /\ Linger(rs)
      /\ waits' = {} /\ callbacks' = [v \in Users |-> {}]
      /\ told' \in {told, Told(front.id, "Error")}
  BY DEF CrashAfterReject, RejectBatch, Restarted, serverVars
<1>4. queue' = [queue EXCEPT ![currentUser] = Tail(@)]
  BY <1>2, <1>3, HistoryTyped
<1>5. Rejects
  <2>1. TellsFront("Error")
    BY <1>1, <1>3, ToldFront DEF TellsFront
  <2> QED BY <1>2, <1>3, <1>4, <2>1 DEF Rejects, Settles
<1>6. LingeringInOrder'
  <2>1. \A v \in Writes : fate[v] = "Rejected" => fate'[v] = "Rejected"
    BY <1>2, <1>3, HistoryTyped
  <2> QED BY <1>3, <2>1, LingeringStep
<1> QED BY <1>3, <1>5, <1>6, ForgetfulStep DEF HasEffect

-----------------------------------------------------------------------------
(* Every task has one of the effects.                                       *)

LEMMA NextEffects ==
  ASSUME IInv, OrderInv, [Next]_vars
  PROVE  HasEffect /\ KeepsRest
<1>1. CASE WriteMutations
  BY <1>1, WriteMutationsEffect
<1>2. CASE WaitForPendingWrites
  BY <1>2, WaitForPendingWritesEffect
<1>3. CASE \E u \in Users : HandleCredentialChange(u)
  BY <1>3, CredentialChangeEffect
<1>4. CASE \E u \in Users : Crash(u)
  BY <1>4, CrashEffect
<1>5. CASE \E u \in Users : CrashBeforeAcknowledge(u)
  BY <1>5, CrashBeforeAcknowledgeEffect
<1>6. CASE \E u \in Users : CrashAfterReject(u)
  BY <1>6, CrashAfterRejectEffect
<1>7. CASE ReceiveResult
  BY <1>7, ReceiveResultEffect
<1>8. CASE CredentialsFail \/ ConnectionLost \/ StatusArrives \/ ResponseUndecodable
  <2>1. "Transient" \in ErrorCodes /\ "Permanent" \in ErrorCodes
    BY DEF ErrorCodes
  <2>2. StatusArrives => rs.status \in ErrorCodes
    BY CurrentFacts DEF StatusArrives, Remotes, Consistent
  <2>3. PICK code \in ErrorCodes : FinishStream(code)
    BY <1>8, <2>1, <2>2
       DEF CredentialsFail, ConnectionLost, StatusArrives, ResponseUndecodable
  <2> QED BY <2>3, FinishStreamEffect
<1>9. CASE ServerAnswers
  BY <1>9, ServerAnswersEffect
<1>10. CASE \E s \in lingering : LingeringRequest(s)
  BY <1>10, LingeringRequestEffect
<1>11. CASE \/ EnableNetwork \/ DisableNetwork \/ ConnectivityChange \/ StreamOpens
            \/ BackoffElapses \/ IdleTimeout \/ ReceiveHandshake \/ ServerRefuses
            \/ (\E code \in ServerStatuses : ServerEndsCall(code))
            \/ (\E s \in lingering : LingeringCallEnds(s)) \/ UNCHANGED vars
  BY <1>11, QuietActions
<1> QED BY <1>1, <1>2, <1>3, <1>4, <1>5, <1>6, <1>7, <1>8, <1>9, <1>10, <1>11 DEF Next

-----------------------------------------------------------------------------
(* Every effect keeps the order of writes.                                  *)

\* The part of OrderInv the effects are about.
HistoryInOrder ==
  QueuesHoldPendingWrites /\ FutureIsBlank /\ SettlesInOrder /\ CommitsInOrder
    /\ WaitCoversEarlierWrites

LEMMA CommitsKeeps ==
  ASSUME IInv, OrderInv, NEW w \in Writes, Commits(w)
  PROVE  HistoryInOrder'
<1>1. UNCHANGED <<issued, author, queue, fate, told, waited>> /\ w <= issued
      /\ committed' = committed \cup {w}
      /\ \A v \in Writes : Precedes(v, w) => Accounted(v)
  BY DEF Commits
<1>2. QueuesHoldPendingWrites' /\ SettlesInOrder' /\ WaitCoversEarlierWrites'
  BY <1>1 DEF OrderInv, QueuesHoldPendingWrites, SettlesInOrder, WaitCoversEarlierWrites,
              Settled, Precedes
<1>3. FutureIsBlank'
  BY <1>1, HistoryTyped DEF OrderInv, FutureIsBlank, Writes
<1>4. CommitsInOrder'
  BY <1>1 DEF OrderInv, CommitsInOrder, Precedes, Accounted
<1> QED BY <1>2, <1>3, <1>4 DEF HistoryInOrder

\* What precedes the first write of the queue is settled.
LEMMA OldestIsNext ==
  ASSUME IInv, OrderInv, queue[currentUser] # <<>>
  PROVE  \A v \in Writes : Precedes(v, Oldest) => Settled(v)
<1> DEFINE q == queue[currentUser]
<1>1. q \in Seq(Batches) /\ currentUser \in Users /\ 1 \in 1 .. Len(q)
      /\ Oldest = q[1].write
  BY CurrentFacts DEF Oldest
<1>2. ~\E j \in 1 .. 1 - 1 : TRUE
  OBVIOUS
<1> QED BY <1>1, <1>2, EarlierInQueue

LEMMA OnlyTellsKeeps ==
  ASSUME IInv, OrderInv, OnlyTells
  PROVE  HistoryInOrder'
<1>1. UNCHANGED <<issued, author, queue, fate, committed>> /\ TellsFront("Ok")
      /\ Oldest \in committed /\ waited' \subseteq waited \cup {Oldest}
      /\ queue[currentUser] # <<>>
  BY DEF OnlyTells
<1>2. QueuesHoldPendingWrites' /\ SettlesInOrder' /\ CommitsInOrder'
  BY <1>1 DEF OrderInv, QueuesHoldPendingWrites, SettlesInOrder, CommitsInOrder,
              Settled, Precedes
<1>3. WaitCoversEarlierWrites'
  <2>1. \A v \in Writes : Precedes(v, Oldest) => Settled(v)
    BY <1>1, OldestIsNext
  <2> QED BY <1>1, <2>1 DEF OrderInv, WaitCoversEarlierWrites, Settled, Precedes
<1>4. \A w \in Writes : w # Oldest => told'[w] = told[w]
  BY <1>1, HistoryTyped DEF TellsFront
<1>5. FutureIsBlank'
  BY <1>1, <1>4 DEF OrderInv, FutureIsBlank
<1> QED BY <1>2, <1>3, <1>5 DEF HistoryInOrder

LEMMA IssuesKeeps ==
  ASSUME IInv, OrderInv, Issues
  PROVE  HistoryInOrder'
<1> DEFINE new == issued + 1
           batch == [id |-> nextBatchId, write |-> new]
           q == queue[currentUser]
           longer == Append(q, batch)
<1>1. /\ issued < MaxWrites /\ issued' = new
      /\ author' = [author EXCEPT ![new] = currentUser]
      /\ queue' = [queue EXCEPT ![currentUser] = Append(@, batch)]
      /\ fate' = [fate EXCEPT ![new] = "Queued"]
      /\ UNCHANGED <<told, committed, waited>>
  BY DEF Issues
<1>2. /\ new \in Writes /\ issued \in Nat /\ q \in Seq(Batches) /\ Len(q) \in Nat
      /\ batch \in Batches /\ batch.write = new /\ currentUser \in Users
      /\ currentUser \in Tokens
  <2>1. new \in Writes /\ issued \in Nat /\ currentUser \in Users
    BY <1>1, HistoryTyped DEF Writes
  <2>2. q \in Seq(Batches) /\ Len(q) \in Nat /\ currentUser \in Tokens
    BY CurrentFacts DEF Tokens
  <2>3. nextBatchId \in Nat
    BY DEF IInv, TypeOK
  <2> HIDE DEF new
  <2> QED BY <2>1, <2>2, <2>3 DEF Batches
<1> HIDE DEF batch
<1>3. /\ author'[new] = currentUser /\ fate'[new] = "Queued"
      /\ \A v \in Writes \ {new} : author'[v] = author[v] /\ fate'[v] = fate[v]
  BY <1>1, <1>2, HistoryTyped
<1>4. /\ queue'[currentUser] = longer
      /\ \A u \in Users \ {currentUser} : queue'[u] = queue[u]
  BY <1>1, <1>2, HistoryTyped
<1>5. /\ Len(longer) = Len(q) + 1 /\ longer[Len(q) + 1] = batch
      /\ \A i \in 1 .. Len(q) : longer[i] = q[i]
  BY <1>2, AppendProperties
<1> HIDE DEF longer
<1>6. ASSUME NEW u \in Users, NEW i \in 1 .. Len(queue[u])
      PROVE  LET w == queue[u][i].write IN
             w \in 1 .. issued /\ w \in Writes \ {new} /\ author[w] = u
               /\ fate[w] = "Queued"
  <2>1. queue[u][i] \in Batches
    BY HistoryTyped, ElementOfSeq
  <2> QED BY <1>2, <2>1 DEF OrderInv, QueuesHoldPendingWrites, Batches, Writes
<1>7. QueuesHoldPendingWrites'
  <2>1. ASSUME NEW u \in Users, NEW i \in 1 .. Len(queue'[u])
        PROVE  LET w == queue'[u][i].write IN
               w <= issued' /\ author'[w] = u /\ fate'[w] = "Queued"
    <3>1. CASE u = currentUser /\ i = Len(q) + 1
      BY <1>1, <1>2, <1>3, <1>4, <1>5, <3>1
    <3>2. CASE ~(u = currentUser /\ i = Len(q) + 1)
      <4>1. i \in 1 .. Len(queue[u]) /\ queue'[u][i] = queue[u][i]
        BY <1>2, <1>4, <1>5, <2>1, <3>2
      <4> QED BY <1>1, <1>2, <1>3, <1>6, <4>1
    <3> QED BY <3>1, <3>2
  <2>2. ASSUME NEW u \in Users, NEW i \in 1 .. Len(queue'[u]),
               NEW j \in 1 .. Len(queue'[u]), i < j
        PROVE  queue'[u][i].write < queue'[u][j].write
    <3>1. CASE u = currentUser
      <4>1. i \in 1 .. Len(q) /\ longer[i] = q[i]
        BY <1>2, <1>4, <1>5, <2>2, <3>1
      <4>2. CASE j = Len(q) + 1
        BY <1>2, <1>4, <1>5, <1>6, <3>1, <4>1, <4>2
      <4>3. CASE j # Len(q) + 1
        <5>1. j \in 1 .. Len(q) /\ longer[j] = q[j]
          BY <1>2, <1>4, <1>5, <2>2, <3>1, <4>3
        <5> QED BY <1>4, <2>2, <3>1, <4>1, <5>1 DEF OrderInv, QueuesHoldPendingWrites
      <4> QED BY <4>2, <4>3
    <3>2. CASE u # currentUser
      BY <1>4, <2>2, <3>2 DEF OrderInv, QueuesHoldPendingWrites
    <3> QED BY <3>1, <3>2
  <2>3. ASSUME NEW w \in 1 .. issued'
        PROVE  /\ author'[w] \in Users /\ fate'[w] # "None"
               /\ fate'[w] = "Queued" =>
                    \E i \in 1 .. Len(queue'[author'[w]]) : queue'[author'[w]][i].write = w
    <3>1. CASE w = new
      <4>1. Len(q) + 1 \in 1 .. Len(longer)
        BY <1>2, <1>5
      <4> QED BY <1>2, <1>3, <1>4, <1>5, <3>1, <4>1
    <3>2. CASE w # new
      <4>1. w \in 1 .. issued /\ w \in Writes \ {new}
        BY <1>1, <1>2, <2>3, <3>2, HistoryTyped DEF Writes
      <4>2. author[w] \in Users /\ fate[w] # "None" /\ author'[w] = author[w]
            /\ fate'[w] = fate[w]
        BY <1>3, <4>1 DEF OrderInv, QueuesHoldPendingWrites
      <4>3. ASSUME fate[w] = "Queued"
            PROVE  \E i \in 1 .. Len(queue'[author[w]]) : queue'[author[w]][i].write = w
        <5>1. PICK i \in 1 .. Len(queue[author[w]]) : queue[author[w]][i].write = w
          BY <4>1, <4>3 DEF OrderInv, QueuesHoldPendingWrites
        <5>2. i \in 1 .. Len(queue'[author[w]]) /\ queue'[author[w]][i] = queue[author[w]][i]
          <6>1. CASE author[w] = currentUser
            BY <1>2, <1>4, <1>5, <5>1, <6>1
          <6>2. CASE author[w] # currentUser
            BY <1>4, <4>2, <5>1, <6>2
          <6> QED BY <6>1, <6>2
        <5> QED BY <5>1, <5>2
      <4> QED BY <4>2, <4>3
    <3> QED BY <3>1, <3>2
  <2> QED BY <2>1, <2>2, <2>3 DEF QueuesHoldPendingWrites
<1>8. FutureIsBlank'
  BY <1>1, <1>2, <1>3 DEF OrderInv, FutureIsBlank, Writes
<1>9. \A w \in Writes : Settled(w)' <=> Settled(w)
  BY <1>2, <1>3 DEF Settled, OrderInv, FutureIsBlank
<1>10. \A v, w \in Writes : Precedes(v, w)' => w = new \/ Precedes(v, w)
  BY <1>1, <1>2, <1>3 DEF Precedes, Writes
<1>11. ~Settled(new) /\ new \notin committed /\ new \notin waited
  <2>1. fate[new] = "None" /\ new \notin committed
    BY <1>2 DEF OrderInv, FutureIsBlank
  <2>2. new \notin waited
    BY <1>2, <2>1 DEF OrderInv, WaitCoversEarlierWrites
  <2> QED BY <2>1, <2>2 DEF Settled
<1>12. SettlesInOrder'
  BY <1>9, <1>10, <1>11 DEF OrderInv, SettlesInOrder
<1>13. CommitsInOrder'
  <2>1. \A v \in Writes : Accounted(v) => Accounted(v)'
    BY <1>1, <1>2, <1>3 DEF Accounted, OrderInv, FutureIsBlank
  <2> QED BY <1>1, <1>10, <1>11, <2>1 DEF OrderInv, CommitsInOrder, Accounted
<1>14. WaitCoversEarlierWrites'
  <2>1. \A w \in waited : w # new
    BY <1>11
  <2>2. \A w \in Writes : fate[w] = "Rejected" => fate'[w] = "Rejected"
    BY <1>2, <1>3 DEF OrderInv, FutureIsBlank
  <2> QED BY <1>1, <1>9, <1>10, <2>1, <2>2 DEF OrderInv, WaitCoversEarlierWrites
<1> QED BY <1>7, <1>8, <1>12, <1>13, <1>14 DEF HistoryInOrder

LEMMA SettlesKeeps ==
  ASSUME IInv, OrderInv, NEW end \in {"Acked", "Rejected"}, NEW result,
         Settles(end, result), end = "Acked" => Oldest \in committed
  PROVE  HistoryInOrder'
<1> DEFINE q == queue[currentUser]
<1>1. /\ q # <<>> /\ queue' = [queue EXCEPT ![currentUser] = Tail(@)]
      /\ fate' = [fate EXCEPT ![Oldest] = end]
      /\ TellsFront(result)
      /\ waited' \subseteq waited \cup {Oldest}
      /\ UNCHANGED <<issued, author, committed>>
  BY DEF Settles
<1>2. /\ q \in Seq(Batches) /\ Len(q) \in Nat /\ Increasing(q) /\ currentUser \in Users
      /\ 1 \in 1 .. Len(q) /\ q[1] \in Batches /\ Oldest = q[1].write /\ Oldest \in Writes
  <2>1. /\ q \in Seq(Batches) /\ Len(q) \in Nat /\ Increasing(q) /\ currentUser \in Users
        /\ 1 \in 1 .. Len(q) /\ Oldest = q[1].write
    BY <1>1, CurrentFacts DEF Oldest
  <2>2. q[1] \in Batches
    BY <2>1, ElementOfSeq
  <2> QED BY <2>1, <2>2 DEF Batches
<1>3. /\ Oldest <= issued /\ author[Oldest] = currentUser /\ fate[Oldest] = "Queued"
  BY <1>2 DEF OrderInv, QueuesHoldPendingWrites
<1>4. /\ fate'[Oldest] = end
      /\ \A v \in Writes \ {Oldest} : fate'[v] = fate[v] /\ told'[v] = told[v]
  BY <1>1, <1>2, HistoryTyped DEF TellsFront
<1>5. /\ queue'[currentUser] = Tail(q) /\ Len(Tail(q)) = Len(q) - 1
      /\ \A i \in 1 .. Len(Tail(q)) : Tail(q)[i] = q[i + 1]
      /\ \A u \in Users \ {currentUser} : queue'[u] = queue[u]
  BY <1>1, <1>2, HeadTailProperties, HistoryTyped
<1>6. \A u \in Users : \A i \in 1 .. Len(queue[u]) :
        queue[u][i].write \in Writes /\ (queue[u][i].write = Oldest => u = currentUser /\ i = 1)
  <2>1. ASSUME NEW u \in Users, NEW i \in 1 .. Len(queue[u])
        PROVE  /\ queue[u][i].write \in Writes
               /\ queue[u][i].write = Oldest => u = currentUser /\ i = 1
    <3>1. queue[u][i] \in Batches
      BY HistoryTyped, ElementOfSeq
    <3>2. queue[u][i].write \in Writes
      BY <3>1 DEF Batches
    <3>3. ASSUME queue[u][i].write = Oldest PROVE u = currentUser /\ i = 1
      <4>1. u = currentUser
        BY <1>3, <3>3 DEF OrderInv, QueuesHoldPendingWrites
      <4>2. 1 < i => q[1].write < q[i].write
        BY <1>2, <4>1 DEF OrderInv, QueuesHoldPendingWrites
      <4> QED BY <1>2, <3>3, <4>1, <4>2 DEF Writes
    <3> QED BY <3>2, <3>3
  <2> QED BY <2>1
\* What is left in the queues was there before, one place further on if it is behind
\* the settled write.
<1>7. ASSUME NEW u \in Users, NEW i \in 1 .. Len(queue'[u])
      PROVE  LET k == IF u = currentUser THEN i + 1 ELSE i IN
             k \in 1 .. Len(queue[u]) /\ queue'[u][i] = queue[u][k]
               /\ queue[u][k].write \in Writes \ {Oldest}
  <2>1. CASE u = currentUser
    <3>1. i \in 1 .. Len(Tail(q)) /\ Tail(q)[i] = q[i + 1]
      BY <1>5, <1>7, <2>1
    <3> DEFINE m == Len(q)
               n == Len(Tail(q))
    <3>2. m \in Nat /\ n = m - 1 /\ i \in 1 .. n
      BY <1>2, <1>5, <3>1
    <3> HIDE DEF m, n
    <3>3. i + 1 \in 1 .. m /\ i + 1 # 1
      BY <3>2
    <3> QED BY <1>5, <1>6, <2>1, <3>1, <3>3 DEF m
  <2>2. CASE u # currentUser
    BY <1>5, <1>6, <1>7, <2>2
  <2> QED BY <2>1, <2>2
<1>8. QueuesHoldPendingWrites'
  <2>1. ASSUME NEW u \in Users, NEW i \in 1 .. Len(queue'[u])
        PROVE  LET w == queue'[u][i].write IN
               w <= issued' /\ author'[w] = u /\ fate'[w] = "Queued"
    <3> DEFINE k == IF u = currentUser THEN i + 1 ELSE i
    <3>1. /\ k \in 1 .. Len(queue[u]) /\ queue'[u][i] = queue[u][k]
          /\ queue[u][k].write \in Writes \ {Oldest}
      BY <1>7, <2>1
    <3> HIDE DEF k
    <3>2. queue[u][k].write <= issued /\ author[queue[u][k].write] = u
          /\ fate[queue[u][k].write] = "Queued"
      BY <3>1 DEF OrderInv, QueuesHoldPendingWrites
    <3> QED BY <1>1, <1>4, <3>1, <3>2
  <2>2. ASSUME NEW u \in Users, NEW i \in 1 .. Len(queue'[u]),
               NEW j \in 1 .. Len(queue'[u]), i < j
        PROVE  queue'[u][i].write < queue'[u][j].write
    <3> DEFINE k == IF u = currentUser THEN i + 1 ELSE i
               l == IF u = currentUser THEN j + 1 ELSE j
    <3>1. k \in 1 .. Len(queue[u]) /\ queue'[u][i] = queue[u][k]
      BY <1>7, <2>2
    <3>2. l \in 1 .. Len(queue[u]) /\ queue'[u][j] = queue[u][l]
      BY <1>7, <2>2
    <3>3. k < l
      BY <2>2
    <3> HIDE DEF k, l
    <3> QED BY <3>1, <3>2, <3>3 DEF OrderInv, QueuesHoldPendingWrites
  <2>3. ASSUME NEW w \in 1 .. issued'
        PROVE  /\ author'[w] \in Users /\ fate'[w] # "None"
               /\ fate'[w] = "Queued" =>
                    \E i \in 1 .. Len(queue'[author'[w]]) : queue'[author'[w]][i].write = w
    <3>1. w \in 1 .. issued /\ w \in Writes /\ author'[w] = author[w]
      BY <1>1, <2>3, HistoryTyped DEF Writes
    <3>2. author[w] \in Users /\ fate[w] # "None"
      BY <3>1 DEF OrderInv, QueuesHoldPendingWrites
    <3>3. CASE w = Oldest
      BY <1>4, <3>1, <3>2, <3>3
    <3>4. CASE w # Oldest
      <4>1. fate'[w] = fate[w]
        BY <1>4, <3>1, <3>4
      <4>2. ASSUME fate[w] = "Queued"
            PROVE  \E i \in 1 .. Len(queue'[author[w]]) : queue'[author[w]][i].write = w
        <5>1. PICK i \in 1 .. Len(queue[author[w]]) : queue[author[w]][i].write = w
          BY <3>1, <4>2 DEF OrderInv, QueuesHoldPendingWrites
        <5>2. CASE author[w] = currentUser
          <6>1. i # 1
            BY <1>2, <3>4, <5>1, <5>2
          <6> DEFINE before == i - 1
                     left == Len(Tail(q))
          <6>2. before \in 1 .. left /\ before + 1 = i
            BY <1>2, <1>5, <5>1, <5>2, <6>1
          <6>3. Tail(q)[before] = q[i] /\ q[i].write = w
            BY <1>5, <5>1, <5>2, <6>2
          <6>4. queue'[author[w]] = Tail(q)
            BY <1>5, <5>2
          <6> HIDE DEF q, before, left
          <6>5. before \in 1 .. Len(queue'[author[w]])
            BY <6>2, <6>4 DEF left
          <6>6. queue'[author[w]][before].write = w
            BY <6>3, <6>4
          <6> QED BY <6>5, <6>6
        <5>3. CASE author[w] # currentUser
          BY <1>5, <3>2, <5>1, <5>3
        <5> QED BY <5>2, <5>3
      <4> QED BY <3>1, <3>2, <4>1, <4>2
    <3> QED BY <3>3, <3>4
  <2> QED BY <2>1, <2>2, <2>3 DEF QueuesHoldPendingWrites
<1>9. FutureIsBlank'
  <2>1. \A w \in Writes : w > issued => w # Oldest
    BY <1>2, <1>3, HistoryTyped DEF Writes
  <2> QED BY <1>1, <1>4, <2>1 DEF OrderInv, FutureIsBlank
<1>10. /\ \A v \in Writes : Settled(v)' <=> Settled(v) \/ v = Oldest
       /\ \A v, w \in Writes : Precedes(v, w)' <=> Precedes(v, w)
       /\ \A v \in Writes : Accounted(v) => Accounted(v)'
  BY <1>1, <1>2, <1>3, <1>4 DEF Settled, Precedes, Accounted
<1>11. \A v \in Writes : Precedes(v, Oldest) => Settled(v)
  BY <1>1, OldestIsNext
<1>12. SettlesInOrder'
  BY <1>10, <1>11 DEF OrderInv, SettlesInOrder
<1>13. CommitsInOrder'
  BY <1>1, <1>10 DEF OrderInv, CommitsInOrder, Accounted
<1>14. WaitCoversEarlierWrites'
  <2>1. Oldest \in committed \/ fate'[Oldest] = "Rejected"
    BY <1>4
  <2> QED BY <1>1, <1>10, <1>11, <2>1 DEF OrderInv, WaitCoversEarlierWrites, Accounted
<1> QED BY <1>8, <1>9, <1>12, <1>13, <1>14 DEF HistoryInOrder

LEMMA EffectKeeps ==
  ASSUME IInv, OrderInv, HasEffect
  PROVE  HistoryInOrder'
<1>1. CASE NothingHappens
  BY <1>1 DEF NothingHappens, OrderInv, HistoryInOrder, QueuesHoldPendingWrites,
              FutureIsBlank, SettlesInOrder, CommitsInOrder, WaitCoversEarlierWrites,
              Settled, Precedes
<1>2. CASE Issues
  BY <1>2, IssuesKeeps
<1>3. CASE \E w \in Writes : Commits(w)
  BY <1>3, CommitsKeeps
<1>4. CASE Acknowledges \/ Rejects
  BY <1>4, SettlesKeeps DEF Acknowledges, Rejects
<1>5. CASE OnlyTells
  BY <1>5, OnlyTellsKeeps
<1> QED BY <1>1, <1>2, <1>3, <1>4, <1>5 DEF HasEffect

-----------------------------------------------------------------------------
(* The invariant.                                                          *)

LEMMA InitOrder ==
  ASSUME Init
  PROVE  OrderInv
<1>1. /\ issued = 0 /\ queue = [u \in Users |-> <<>>] /\ lingering = {} /\ waits = {}
      /\ committed = {} /\ waited = {} /\ callbacks = [u \in Users |-> {}]
      /\ fate = [w \in Writes |-> "None"] /\ told = [w \in Writes |-> "Nothing"]
  BY DEF Init
<1>2. QueuesHoldPendingWrites
  <2>1. \A u \in Users : \A i \in 1 .. Len(queue[u]) : FALSE
    BY <1>1
  <2>2. \A w \in 1 .. issued : FALSE
    BY <1>1
  <2> QED BY <2>1, <2>2 DEF QueuesHoldPendingWrites
<1>3. FutureIsBlank /\ SettlesInOrder /\ CommitsInOrder /\ WaitCoversEarlierWrites
  BY <1>1 DEF FutureIsBlank, SettlesInOrder, CommitsInOrder, WaitCoversEarlierWrites,
              Settled
<1>4. LingeringInOrder /\ CallbacksUntold /\ WaitsCanResolve
  BY <1>1 DEF LingeringInOrder, CallbacksUntold, WaitsCanResolve
<1> QED BY <1>2, <1>3, <1>4 DEF OrderInv

LEMMA NextOrder ==
  ASSUME IInv, OrderInv, [Next]_vars
  PROVE  OrderInv'
<1>1. HasEffect /\ KeepsRest
  BY NextEffects
<1>2. HistoryInOrder'
  BY <1>1, EffectKeeps
<1> QED BY <1>1, <1>2 DEF KeepsRest, OrderInv, HistoryInOrder

\* The order of every user's writes is the same in the durable queue, on the stream,
\* in the calls closed before and at the backend, in every reachable state.
THEOREM OrderHolds ==
  ASSUME "OK" \notin ServerStatuses
  PROVE  Spec => []OrderInv
<1>1. Init => OrderInv
  BY InitOrder
<1>2. IInv /\ OrderInv /\ [Next]_vars => OrderInv'
  BY NextOrder
<1>3. Spec => []IInv
  BY InvariantHolds
<1> QED BY <1>1, <1>2, <1>3, PTL DEF Spec

\* The backend never applies a write of a user before an earlier one that was not
\* rejected, though calls closed long ago may still deliver requests.
THEOREM CommitsOrdered ==
  ASSUME "OK" \notin ServerStatuses
  PROVE  Spec => []CommitsInOrder
<1>1. OrderInv => CommitsInOrder
  BY DEF OrderInv
<1> QED BY <1>1, OrderHolds, PTL

\* AcknowledgeBatch and RejectBatch settle the writes of a user in order.
THEOREM SettlesOrdered ==
  ASSUME "OK" \notin ServerStatuses
  PROVE  Spec => []SettlesInOrder
<1>1. OrderInv => SettlesInOrder
  BY DEF OrderInv
<1> QED BY <1>1, OrderHolds, PTL

\* No callback of waitForPendingWrites is left waiting for a batch that is gone.
THEOREM WaitsResolvable ==
  ASSUME "OK" \notin ServerStatuses
  PROVE  Spec => []WaitsCanResolve
<1>1. OrderInv => WaitsCanResolve
  BY DEF OrderInv
<1> QED BY <1>1, OrderHolds, PTL

\* One that succeeds covers every write its user had issued by then: all are
\* settled, but for the last if the process stops before AcknowledgeBatch, and
\* that one is committed.
THEOREM WaitsCover ==
  ASSUME "OK" \notin ServerStatuses
  PROVE  Spec => []WaitCoversEarlierWrites
<1>1. OrderInv => WaitCoversEarlierWrites
  BY DEF OrderInv
<1> QED BY <1>1, OrderHolds, PTL

-----------------------------------------------------------------------------
(* The refinement.                                                         *)

\* The writes of a queue of batches, and of the queue without its first batch or with
\* one more.
WritesOf(s) == [i \in 1 .. Len(s) |-> s[i].write]

LEMMA WritesOfQueue ==
  ASSUME NEW s \in Seq(Batches)
  PROVE  /\ WritesOf(s) \in Seq(Writes) /\ Len(WritesOf(s)) = Len(s) /\ Len(s) \in Nat
         /\ \A i \in 1 .. Len(s) : WritesOf(s)[i] = s[i].write
         /\ s # <<>> => WritesOf(s) # <<>> /\ Head(WritesOf(s)) = Head(s).write
<1>1. ASSUME NEW i \in 1 .. Len(s) PROVE s[i].write \in Writes
  <2>1. s[i] \in Batches
    BY ElementOfSeq
  <2> QED BY <2>1 DEF Batches
<1>2. Len(s) \in Nat /\ Len(WritesOf(s)) = Len(s)
  BY DEF WritesOf
<1>3. WritesOf(s) \in Seq(Writes)
  BY <1>1, <1>2 DEF WritesOf
<1>4. ASSUME s # <<>> PROVE WritesOf(s) # <<>> /\ Head(WritesOf(s)) = Head(s).write
  <2>1. 1 \in 1 .. Len(s) /\ Len(WritesOf(s)) # 0
    BY <1>2, <1>4
  <2>2. WritesOf(s)[1] = s[1].write
    BY <2>1 DEF WritesOf
  <2>3. WritesOf(s) # <<>>
    BY <1>3, <2>1
  <2> QED BY <1>3, <2>2, <2>3
<1> QED BY <1>2, <1>3, <1>4 DEF WritesOf

LEMMA WritesOfTail ==
  ASSUME NEW s \in Seq(Batches), s # <<>>
  PROVE  WritesOf(Tail(s)) = Tail(WritesOf(s))
<1> DEFINE p == WritesOf(s)
           t == Tail(s)
           l == WritesOf(t)
<1>1. p \in Seq(Writes) /\ Len(p) = Len(s) /\ p # <<>> /\ Len(s) \in Nat
      /\ \A i \in 1 .. Len(s) : p[i] = s[i].write
  BY WritesOfQueue
<1>2. t \in Seq(Batches) /\ Len(t) = Len(s) - 1 /\ \A i \in 1 .. Len(t) : t[i] = s[i + 1]
  BY HeadTailProperties
<1> HIDE DEF p, t
<1>3. l \in Seq(Writes) /\ Len(l) = Len(t) /\ \A i \in 1 .. Len(t) : l[i] = t[i].write
  BY <1>2, WritesOfQueue
<1> HIDE DEF l
<1>4. Tail(p) \in Seq(Writes) /\ Len(Tail(p)) = Len(p) - 1
      /\ \A i \in 1 .. Len(Tail(p)) : Tail(p)[i] = p[i + 1]
  BY <1>1, HeadTailProperties
<1>5. ASSUME NEW i \in 1 .. Len(l) PROVE l[i] = Tail(p)[i]
  <2>1. i + 1 \in 1 .. Len(s) /\ i \in 1 .. Len(t) /\ i \in 1 .. Len(Tail(p))
    BY <1>1, <1>2, <1>3, <1>4
  <2> QED BY <1>1, <1>2, <1>3, <1>4, <2>1
<1>6. l = Tail(p)
  BY <1>1, <1>2, <1>3, <1>4, <1>5, SeqEqual
<1> QED BY <1>6 DEF l, t, p

LEMMA WritesOfAppend ==
  ASSUME NEW s \in Seq(Batches), NEW b \in Batches
  PROVE  WritesOf(Append(s, b)) = Append(WritesOf(s), b.write)
<1> DEFINE p == WritesOf(s)
           t == Append(s, b)
           l == WritesOf(t)
           r == Append(p, b.write)
<1>1. p \in Seq(Writes) /\ Len(p) = Len(s) /\ Len(s) \in Nat
      /\ \A i \in 1 .. Len(s) : p[i] = s[i].write
  BY WritesOfQueue
<1>2. t \in Seq(Batches) /\ Len(t) = Len(s) + 1 /\ t[Len(s) + 1] = b
      /\ (\A i \in 1 .. Len(s) : t[i] = s[i]) /\ b.write \in Writes
  BY AppendProperties DEF Batches
<1> HIDE DEF p, t
<1>3. l \in Seq(Writes) /\ Len(l) = Len(t) /\ \A i \in 1 .. Len(t) : l[i] = t[i].write
  BY <1>2, WritesOfQueue
<1> HIDE DEF l
<1>4. r \in Seq(Writes) /\ Len(r) = Len(p) + 1 /\ r[Len(p) + 1] = b.write
      /\ \A i \in 1 .. Len(p) : r[i] = p[i]
  BY <1>1, <1>2, AppendProperties
<1> HIDE DEF r
<1>5. ASSUME NEW i \in 1 .. Len(l) PROVE l[i] = r[i]
  <2>1. CASE i = Len(s) + 1
    BY <1>1, <1>2, <1>3, <1>4, <2>1
  <2>2. CASE i # Len(s) + 1
    <3>1. i \in 1 .. Len(s) /\ i \in 1 .. Len(t)
      BY <1>1, <1>2, <1>3, <2>2
    <3> QED BY <1>1, <1>2, <1>3, <1>4, <3>1
  <2> QED BY <2>1, <2>2
<1>6. l = r
  BY <1>1, <1>2, <1>3, <1>4, <1>5, SeqEqual
<1> QED BY <1>6 DEF l, t, p, r

\* PendingWrites follows the mutation queues.
LEMMA PendingFollows ==
  /\ PendingWrites = [u \in Users |-> WritesOf(queue[u])]
  /\ PendingWrites' = [u \in Users |-> WritesOf(queue'[u])]
BY DEF PendingWrites, WritesOf

LEMMA PendingTail ==
  ASSUME IInv, queue[currentUser] # <<>>,
         queue' = [queue EXCEPT ![currentUser] = Tail(@)]
  PROVE  /\ PendingWrites[currentUser] # <<>>
         /\ Head(PendingWrites[currentUser]) = Oldest
         /\ PendingWrites' = [PendingWrites EXCEPT ![currentUser] = Tail(@)]
<1>1. /\ currentUser \in Users /\ queue \in [Users -> Seq(Batches)]
      /\ queue[currentUser] \in Seq(Batches)
  BY HistoryTyped
<1>2. /\ PendingWrites = [u \in Users |-> WritesOf(queue[u])]
      /\ PendingWrites' = [u \in Users |-> WritesOf(queue'[u])]
  BY PendingFollows
<1>3. /\ WritesOf(queue[currentUser]) # <<>>
      /\ Head(WritesOf(queue[currentUser])) = Oldest
  BY <1>1, WritesOfQueue DEF Oldest
<1>4. WritesOf(queue'[currentUser]) = Tail(WritesOf(queue[currentUser]))
  BY <1>1, WritesOfTail
<1>5. \A u \in Users \ {currentUser} : queue'[u] = queue[u]
  BY <1>1
<1> QED BY <1>1, <1>2, <1>3, <1>4, <1>5

LEMMA PendingAppend ==
  ASSUME IInv, NEW b \in Batches, queue' = [queue EXCEPT ![currentUser] = Append(@, b)]
  PROVE  PendingWrites' = [PendingWrites EXCEPT ![currentUser] = Append(@, b.write)]
<1>1. /\ currentUser \in Users /\ queue \in [Users -> Seq(Batches)]
      /\ queue[currentUser] \in Seq(Batches)
  BY HistoryTyped
<1>2. /\ PendingWrites = [u \in Users |-> WritesOf(queue[u])]
      /\ PendingWrites' = [u \in Users |-> WritesOf(queue'[u])]
  BY PendingFollows
<1>3. WritesOf(queue'[currentUser]) = Append(WritesOf(queue[currentUser]), b.write)
  BY <1>1, WritesOfAppend
<1>4. \A u \in Users \ {currentUser} : queue'[u] = queue[u]
  BY <1>1
<1> QED BY <1>1, <1>2, <1>3, <1>4

\* Each effect is a step of DurableWrites.
LEMMA EffectRefines ==
  ASSUME IInv, OrderInv, HasEffect
  PROVE  [Durable!AbsNext]_(Durable!absVars)
<1>1. CASE NothingHappens
  <2>1. PendingWrites' = PendingWrites
    BY <1>1 DEF NothingHappens, PendingWrites
  <2> QED BY <1>1, <2>1 DEF NothingHappens, Durable!absVars
<1>2. CASE Issues
  <2> DEFINE batch == [id |-> nextBatchId, write |-> issued + 1]
  <2>1. issued < MaxWrites /\ currentUser \in Users /\ nextBatchId \in Nat
    BY <1>2, HistoryTyped DEF Issues, IInv, TypeOK
  <2>2. issued + 1 \in Writes
    BY <2>1, HistoryTyped DEF Writes
  <2>3. batch \in Batches /\ batch.write = issued + 1
    BY <2>1, <2>2 DEF Batches
  <2>4. queue' = [queue EXCEPT ![currentUser] = Append(@, batch)]
    BY <1>2 DEF Issues
  <2> HIDE DEF batch
  <2>5. PendingWrites' = [PendingWrites EXCEPT ![currentUser] = Append(@, issued + 1)]
    BY <2>3, <2>4, PendingAppend
  <2>6. Durable!Issue(currentUser)
    BY <1>2, <2>5 DEF Issues, Durable!Issue
  <2> QED BY <2>1, <2>6 DEF Durable!AbsNext
<1>3. CASE \E w \in Writes : Commits(w)
  <2>1. PICK w \in Writes : Commits(w)
    BY <1>3
  <2>2. PendingWrites' = PendingWrites
    BY <2>1 DEF Commits, PendingWrites
  <2>3. ASSUME NEW v \in 1 .. w - 1, author[v] = author[w]
        PROVE  v \in committed \/ fate[v] = "Rejected"
    <3>1. v \in Writes /\ Precedes(v, w)
      BY <2>1, <2>3, HistoryTyped DEF Commits, Precedes, Writes
    <3> QED BY <2>1, <3>1 DEF Commits, Accounted
  <2>4. Durable!Commit(w)
    BY <2>1, <2>2, <2>3 DEF Commits, Durable!Commit
  <2> QED BY <2>4 DEF Durable!AbsNext, Durable!Writes, Writes
<1>4. CASE Acknowledges \/ Rejects
  <2>1. PICK end, result : Settles(end, result) /\
          (\/ end = "Acked" /\ result = "Ok" /\ Oldest \in committed
           \/ end = "Rejected" /\ result = "Error")
    BY <1>4 DEF Acknowledges, Rejects
  <2>2. /\ PendingWrites[currentUser] # <<>>
        /\ Head(PendingWrites[currentUser]) = Oldest
        /\ PendingWrites' = [PendingWrites EXCEPT ![currentUser] = Tail(@)]
    BY <2>1, PendingTail DEF Settles
  <2>3. Durable!Settle(currentUser, end) /\ Durable!Tell(Oldest, result)
    BY <2>1, <2>2 DEF Settles, TellsFront, Durable!Settle, Durable!Tell
  <2>4. Durable!Acknowledge(currentUser) \/ Durable!Reject(currentUser)
    BY <2>1, <2>2, <2>3 DEF Durable!Acknowledge, Durable!Reject
  <2> QED BY <2>4, HistoryTyped DEF Durable!AbsNext
<1>5. CASE OnlyTells
  <2>1. PendingWrites' = PendingWrites
    BY <1>5 DEF OnlyTells, PendingWrites
  <2>2. PendingWrites[currentUser] # <<>> /\ Head(PendingWrites[currentUser]) = Oldest
    BY <1>5, HistoryTyped, PendingFollows, WritesOfQueue DEF OnlyTells, Oldest
  <2>3. Durable!TellOnly(currentUser)
    BY <1>5, <2>1, <2>2 DEF OnlyTells, TellsFront, Durable!TellOnly, Durable!Tell
  <2> QED BY <2>3, HistoryTyped DEF Durable!AbsNext
<1> QED BY <1>1, <1>2, <1>3, <1>4, <1>5 DEF HasEffect

LEMMA InitRefines ==
  ASSUME Init
  PROVE  Durable!AbsInit
<1>1. queue = [u \in Users |-> <<>>]
  BY DEF Init
<1>2. \A u \in Users : [i \in 1 .. Len(queue[u]) |-> queue[u][i].write] = <<>>
  BY <1>1
<1>3. PendingWrites = [u \in Users |-> <<>>]
  BY <1>2 DEF PendingWrites
<1> QED BY <1>3 DEF Init, Durable!AbsInit, Durable!Writes, Writes

\* Through failures of the stream, restarts, user changes and requests that arrive
\* late, the client does nothing but issue, acknowledge, reject and report the writes
\* of durable queues, from their heads, and the backend commits in their order.
THEOREM WritesAreDurable ==
  ASSUME "OK" \notin ServerStatuses
  PROVE  Spec => ImplementsDurableWrites
<1>1. Init => Durable!AbsInit
  BY InitRefines
<1>2. IInv /\ OrderInv /\ [Next]_vars => [Durable!AbsNext]_(Durable!absVars)
  BY NextEffects, EffectRefines
<1>3. Spec => []IInv /\ []OrderInv
  BY InvariantHolds, OrderHolds
<1> QED BY <1>1, <1>2, <1>3, PTL DEF Spec, ImplementsDurableWrites, Durable!AbsSpec
=============================================================================
