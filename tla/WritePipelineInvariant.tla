------------------------ MODULE WritePipelineInvariant ------------------------
(***************************************************************************)
(* The inductive invariant of WritePipeline: what FillWritePipeline, the    *)
(* stream and the mutation queue keep between two tasks of the worker      *)
(* queue, for a backend that ends its calls with an error.                  *)
(***************************************************************************)
EXTENDS WritePipeline

Increasing(q) ==
  \A i, j \in 1 .. Len(q) : i < j => q[i].id < q[j].id

IsFront(p, q) ==
  /\ Len(p) <= Len(q)
  /\ \A i \in 1 .. Len(p) : p[i] = q[i]

\* ResponsesCorrelate, position by position.
Correlated(r) ==
  IF r.handshake
  THEN /\ Len(r.responses) + Len(r.requests) = Len(r.pipeline)
       /\ \A i \in 1 .. Len(r.responses) : r.responses[i] = r.pipeline[i].write
       /\ \A i \in 1 .. Len(r.requests) :
            r.requests[i].write = r.pipeline[Len(r.responses) + i].write
  ELSE /\ Len(r.responses) + Len(r.requests) = 1
       /\ \A i \in 1 .. Len(r.responses) : r.responses[i] = Handshake
       /\ \A i \in 1 .. Len(r.requests) : r.requests[i].write = Handshake

\* A stream whose call is not open holds nothing of it.
Quiet(r) ==
  /\ ~r.handshake /\ ~r.idle
  /\ r.requests = <<>> /\ r.responses = <<>> /\ r.status = "None"

\* What the steps within a task keep: the pipeline is a front of the queue q,
\* a started stream is enabled and wanted, and an open call correlates with it.
Consistent(r, q) ==
  /\ r \in Remotes
  /\ r.fault = "None"
  /\ r.status # "OK"
  /\ IsFront(r.pipeline, q)
  /\ Len(r.pipeline) <= MaxPendingWrites
  /\ ~r.enabled => r.pipeline = <<>>
  /\ IsStarted(r) => r.enabled
  /\ IsStarted(r) /\ ~r.handshake => r.pipeline # <<>>
  /\ r.idle => r.handshake /\ r.pipeline = <<>>
  /\ IF IsOpen(r) THEN Correlated(r) ELSE Quiet(r)

\* What holds again at the end of a task: the pipeline is as full as it can be
\* and, if it is not empty, it has a stream.
Complete(r, q) ==
  r.enabled =>
    /\ Len(r.pipeline) = Min({MaxPendingWrites, Len(q)})
    /\ r.pipeline # <<>> => IsStarted(r)

Sound(r, q) == Consistent(r, q) /\ Complete(r, q)

\* A batch queued by any user has an id below the number of writes issued, and one
\* of the current user an id below the next one, though ids are used again.
IdsBounded ==
  /\ nextBatchId <= issued + 1
  /\ \A u \in Users : \A i \in 1 .. Len(queue[u]) : queue[u][i].id <= issued
  /\ \A i \in 1 .. Len(queue[currentUser]) : queue[currentUser][i].id < nextBatchId

\* A result the client has not yet handled is of a write the backend committed.
ResultsCommitted ==
  rs.handshake => \A i \in 1 .. Len(rs.responses) : rs.responses[i] \in committed

\* The inductive invariant: between any two tasks, the queues are in the order of
\* their batch ids, pipeline, stream and queue agree, callbacks belong to queued
\* batches, and results and successes are of committed writes.
IInv ==
  /\ TypeOK
  /\ \A u \in Users : Increasing(queue[u])
  /\ IdsBounded
  /\ Sound(rs, queue[currentUser])
  /\ CallbacksMatchQueue
  /\ ResultsCommitted
  /\ SuccessMeansCommitted
=============================================================================
