------------------------------ MODULE WriteOrder ------------------------------
(***************************************************************************)
(* The inductive invariant behind the order of writes.  IInv says what the  *)
(* pipeline, the stream and the queue of one moment have in common; the     *)
(* invariant below relates them to the history: which writes were issued,   *)
(* settled, committed and told, and which requests of closed calls are      *)
(* still on their way.                                                      *)
(***************************************************************************)
EXTENDS WritePipelineInvariant

\* The queues hold exactly the writes that are not settled, each in the queue of
\* its author, in the order they were issued.
QueuesHoldPendingWrites ==
  /\ \A u \in Users : \A i \in 1 .. Len(queue[u]) :
       LET w == queue[u][i].write IN
       w <= issued /\ author[w] = u /\ fate[w] = "Queued"
  /\ \A u \in Users : \A i, j \in 1 .. Len(queue[u]) :
       i < j => queue[u][i].write < queue[u][j].write
  /\ \A w \in 1 .. issued :
       /\ author[w] \in Users /\ fate[w] # "None"
       /\ fate[w] = "Queued" =>
            \E i \in 1 .. Len(queue[author[w]]) : queue[author[w]][i].write = w

\* Nothing has happened to a write that is not issued.
FutureIsBlank ==
  \A w \in Writes :
    w > issued => fate[w] = "None" /\ told[w] = "Nothing" /\ w \notin committed

\* A write the backend may pass over: it has it already, or never will need it.
Accounted(w) == w \in committed \/ fate[w] = "Rejected"

\* Requests in the order of their writes: whatever a request's write waits for is
\* accounted for, or requested before it in the same call.
InOrder(s) ==
  \A i \in 1 .. Len(s) :
    s[i] # Handshake =>
      /\ s[i] <= issued
      /\ \A v \in Writes :
           Precedes(v, s[i]) => Accounted(v) \/ \E j \in 1 .. i - 1 : s[j] = v

\* A closed call that is still being served commits its writes in order too,
\* whatever later calls have committed meanwhile.
LingeringInOrder == \A s \in lingering : InOrder(s)

\* The application still waits to hear of a write whose callback is registered.
CallbacksUntold ==
  \A u \in Users : \A b \in callbacks[u] : told[b.write] = "Nothing"

\* The inductive invariant: between any two tasks, queues, history and the calls
\* under way agree on the order of every user's writes.
OrderInv ==
  /\ QueuesHoldPendingWrites
  /\ FutureIsBlank
  /\ SettlesInOrder
  /\ CommitsInOrder
  /\ LingeringInOrder
  /\ CallbacksUntold
  /\ WaitsCanResolve
  /\ WaitCoversEarlierWrites

-----------------------------------------------------------------------------
(* Stream tokens.                                                          *)

\* The requests of the writes on a call of user u carry a token of u's.
TokenUsed(r, u) ==
  /\ r.handshake => r.token = u
  /\ \A i \in 1 .. Len(r.requests) :
       r.requests[i].write # Handshake => r.requests[i].token = u

\* The inductive invariant of the stream token, which is kept in memory, on the
\* stream and in the database.
TokenInv ==
  /\ \A u \in Users : storedToken[u] \in {u, NoUser}
  /\ rs.enabled => rs.token = storedToken[currentUser]
  /\ TokenUsed(rs, currentUser)
=============================================================================
