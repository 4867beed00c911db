------------------------- MODULE WritePipelineProofs -------------------------
(***************************************************************************)
(* Theorems about WritePipeline, for every value of its constants: type    *)
(* correctness, the agreement of pipeline, queue and stream, and that a    *)
(* write reported successful has been committed by the backend.            *)
(***************************************************************************)
EXTENDS WritePipelineInvariant, SequenceTheorems, NaturalsInduction,
        WellFoundedInduction, TLAPS

-----------------------------------------------------------------------------
(* Queues and their fronts.                                                *)

\* The least of two integers, as FillWritePipeline bounds its loop.
LEMMA MinOfTwo ==
  ASSUME NEW a \in Int, NEW b \in Int
  PROVE  Min({a, b}) = IF a <= b THEN a ELSE b
<1> DEFINE m == IF a <= b THEN a ELSE b
<1>1. m \in {a, b} /\ \A y \in {a, b} : m =< y
  OBVIOUS
<1>2. \A x \in {a, b} : (\A y \in {a, b} : x =< y) => x = m
  OBVIOUS
<1> QED BY <1>1, <1>2 DEF Min

\* After the front p of a queue, NextMutationBatchAfterBatchId finds the next batch.
LEMMA IndexAfterFront ==
  ASSUME NEW q \in Seq(Batches), NEW p \in Seq(Batches),
         Increasing(q), IsFront(p, q)
  PROVE  IndexAfter(q, LastBatchId(p)) = Len(p) + 1
<1> DEFINE id == LastBatchId(p)
           Is(i) == /\ \A j \in 1 .. i - 1 : q[j].id <= id
                    /\ i <= Len(q) => q[i].id > id
<1>0. Len(p) \in Nat /\ Len(q) \in Nat /\ (p = <<>> <=> Len(p) = 0)
  OBVIOUS
<1>1. \A i \in 1 .. Len(q) : q[i].id \in Nat
  <2>1. \A i \in 1 .. Len(q) : q[i] \in Batches
    BY ElementOfSeq
  <2> QED BY <2>1 DEF Batches
<1>2. id = IF Len(p) = 0 THEN -1 ELSE q[Len(p)].id
  BY <1>0 DEF LastBatchId, Last, kBatchIdUnknown, IsFront
<1>a. id \in Int
  BY <1>0, <1>1, <1>2 DEF IsFront
<1> HIDE DEF id
<1>3. Len(p) + 1 \in 1 .. Len(q) + 1 /\ Is(Len(p) + 1)
  <2>1. Len(p) + 1 \in 1 .. Len(q) + 1
    BY <1>0 DEF IsFront
  <2>2. ASSUME NEW j \in 1 .. Len(p) PROVE q[j].id <= id
    BY <1>0, <1>1, <1>2, <2>1 DEF Increasing
  <2>3. ASSUME Len(p) + 1 <= Len(q) PROVE q[Len(p) + 1].id > id
    <3>1. CASE Len(p) = 0
      BY <1>0, <1>1, <1>2, <2>3, <3>1
    <3>2. CASE Len(p) # 0
      BY <1>0, <1>1, <1>2, <2>3, <3>2 DEF Increasing
    <3> QED BY <3>1, <3>2
  <2> QED BY <1>0, <2>1, <2>2, <2>3
<1>4. ASSUME NEW i \in 1 .. Len(q) + 1, Is(i)
      PROVE  i = Len(p) + 1
  <2>1. ~ (i < Len(p) + 1)
    BY <1>0, <1>1, <1>a, <1>3, <1>4 DEF IsFront
  <2>2. ~ (i > Len(p) + 1)
    BY <1>0, <1>1, <1>a, <1>3, <1>4 DEF IsFront
  <2> QED BY <1>0, <2>1, <2>2
<1> QED BY <1>3, <1>4 DEF IndexAfter, id

\* The batches the loop of FillWritePipeline takes: the next ones of the queue,
\* as many as there is room for.
LEMMA BatchesToAddFront ==
  ASSUME NEW r \in Remotes, NEW q \in Seq(Batches), Increasing(q),
         IsFront(r.pipeline, q), Len(r.pipeline) <= MaxPendingWrites
  PROVE  LET added == BatchesToAdd(r, q) IN
         /\ added \in Seq(Batches)
         /\ Len(added) = IF r.enabled
                         THEN Min({MaxPendingWrites, Len(q)}) - Len(r.pipeline)
                         ELSE 0
         /\ \A i \in 1 .. Len(added) : added[i] = q[Len(r.pipeline) + i]
<1> DEFINE p == r.pipeline
           n == Len(p)
           room == IF r.enabled THEN MaxPendingWrites - n ELSE 0
           end == n + room
           to == IF end <= Len(q) THEN end ELSE Len(q)
           added == SubSeq(q, n + 1, to)
<1>0. p \in Seq(Batches) /\ n \in Nat /\ Len(q) \in Nat /\ MaxPendingWrites \in Nat
      /\ n <= Len(q) /\ n <= MaxPendingWrites
  BY ConstantsAssumption DEF Remotes, IsFront
<1>a. room \in Nat /\ (r.enabled => room = MaxPendingWrites - n) /\ (~r.enabled => room = 0)
  <2>1. CASE r.enabled
    BY <1>0, <2>1
  <2>2. CASE ~r.enabled
    BY <2>2
  <2> QED BY <2>1, <2>2
<1>b. Min({(n + 1) + room - 1, Len(q)}) = to
  <2> HIDE DEF room, n
  <2>1. end \in Nat /\ (n + 1) + room - 1 = end
    BY <1>0, <1>a
  <2>2. end \in Int /\ Len(q) \in Int
    BY <1>0, <2>1
  <2>3. Min({end, Len(q)}) = to
    BY <2>2, MinOfTwo, Zenon
  <2> QED BY <2>1, <2>3, Zenon
<1>1. BatchesToAdd(r, q) = added
  <2>1. IndexAfter(q, LastBatchId(p)) = n + 1
    BY <1>0, IndexAfterFront
  <2> HIDE DEF to
  <2> QED BY <2>1, <1>b, Zenon DEF BatchesToAdd
<1> HIDE DEF room
<1>3. Min({MaxPendingWrites, Len(q)}) =
        IF MaxPendingWrites <= Len(q) THEN MaxPendingWrites ELSE Len(q)
  BY <1>0, MinOfTwo
<1>4. to \in Nat /\ to <= Len(q) /\ to >= n
      /\ to - n = IF r.enabled THEN Min({MaxPendingWrites, Len(q)}) - n ELSE 0
  <2> HIDE DEF n
  <2>1. CASE r.enabled
    BY <1>0, <1>a, <1>3, <2>1
  <2>2. CASE ~r.enabled
    BY <1>0, <1>a, <2>2
  <2> QED BY <2>1, <2>2
<1> HIDE DEF to
<1>5. added \in Seq(Batches) /\ Len(added) = to - n
      /\ \A i \in 1 .. to - n : added[i] = q[n + i]
  <2>1. \A i \in 1 .. to - n : q[n + i] \in Batches
    BY <1>0, <1>4, ElementOfSeq
  <2> HIDE DEF n
  <2>2. Len(added) = to - n /\ \A i \in 1 .. to - n : added[i] = q[n + i]
    BY <1>0, <1>4
  <2>3. added = [i \in 1 .. to - n |-> q[n + i]]
    BY <1>0, <1>4
  <2> QED BY <1>0, <1>4, <2>1, <2>2, <2>3
<1> QED BY <1>0, <1>1, <1>4, <1>5

-----------------------------------------------------------------------------
(* Steps on the record of the RemoteStore.                                 *)

\* Starting the stream where it is wanted completes a full pipeline.
LEMMA StartIfNeededSound ==
  ASSUME NEW r, NEW q, Consistent(r, q),
         r.enabled => Len(r.pipeline) = Min({MaxPendingWrites, Len(q)})
  PROVE  LET s == StartIfNeeded(r) IN
         /\ Sound(s, q)
         /\ s.token = r.token /\ s.enabled = r.enabled /\ s.pipeline = r.pipeline
         /\ s.responses = r.responses /\ s.handshake = r.handshake
<1> DEFINE s == StartIfNeeded(r)
<1>1. CASE ~ShouldStartWriteStream(r)
  BY <1>1 DEF StartIfNeeded, ShouldStartWriteStream, Sound, Complete
<1>2. CASE ShouldStartWriteStream(r)
  <2>1. r \in Remotes /\ r.fault = "None" /\ r.enabled /\ r.pipeline # <<>>
    BY <1>2 DEF Consistent, ShouldStartWriteStream
  <2>2. r.state \in {"Initial", "Error"} /\ Quiet(r)
    BY <1>2, <2>1 DEF Consistent, ShouldStartWriteStream, IsStarted, IsOpen, Remotes
  <2>3. \/ r.state = "Error" /\ s = [r EXCEPT !.state = "Backoff"]
        \/ r.state = "Initial" /\ s = [r EXCEPT !.state = "Starting"]
    BY <1>2, <2>2 DEF StartIfNeeded, StartStream, HardAssert
  <2>4. /\ s \in Remotes /\ s.state \in {"Starting", "Backoff"}
        /\ s.enabled = r.enabled /\ s.pipeline = r.pipeline /\ s.handshake = r.handshake
        /\ s.idle = r.idle /\ s.token = r.token /\ s.requests = r.requests
        /\ s.responses = r.responses /\ s.status = r.status /\ s.fault = r.fault
    BY <2>1, <2>3 DEF Remotes
  <2> HIDE DEF s
  <2>5. Consistent(s, q)
    BY <2>1, <2>2, <2>4 DEF Consistent, IsStarted, IsOpen, Quiet
  <2>6. Complete(s, q)
    BY <2>4 DEF Complete, IsStarted
  <2> QED BY <2>4, <2>5, <2>6 DEF Sound, s
<1> QED BY <1>1, <1>2

\* Sending requests changes only the requests of the call and its idle timer.
LEMMA SendFields ==
  ASSUME NEW r \in Remotes, NEW more \in Seq(Requests)
  PROVE  LET s == Send(r, more) IN
         /\ s \in Remotes
         /\ s.requests = r.requests \o more
         /\ s.idle = IF more = <<>> THEN r.idle ELSE FALSE
         /\ s.enabled = r.enabled /\ s.pipeline = r.pipeline /\ s.state = r.state
         /\ s.handshake = r.handshake /\ s.token = r.token
         /\ s.responses = r.responses /\ s.status = r.status /\ s.fault = r.fault
<1>1. r.requests \in Seq(Requests)
  BY DEF Remotes
<1>2. CASE more = <<>>
  BY <1>1, <1>2, ConcatEmptySeq DEF Send
<1>3. CASE more # <<>>
  <2>1. r.requests \o more \in Seq(Requests)
    BY <1>1, ConcatProperties
  <2> QED BY <1>3, <2>1 DEF Send, Remotes
<1> QED BY <1>2, <1>3

\* The requests for some batches carry their writes, in order.
LEMMA MutationRequestsOf ==
  ASSUME NEW r \in Remotes, NEW batches \in Seq(Batches)
  PROVE  LET m == MutationRequests(r, batches) IN
         /\ m \in Seq(Requests) /\ Len(m) = Len(batches)
         /\ \A i \in 1 .. Len(batches) : m[i].write = batches[i].write
<1>1. \A i \in 1 .. Len(batches) : batches[i] \in Batches
  BY ElementOfSeq
<1>2. \A i \in 1 .. Len(batches) :
        [write |-> batches[i].write, token |-> r.token] \in Requests
  BY <1>1 DEF Batches, Requests, Remotes
<1> QED BY <1>2 DEF MutationRequests

\* The two parts of a concatenation.
LEMMA ConcatParts ==
  ASSUME NEW S, NEW s \in Seq(S), NEW t \in Seq(S)
  PROVE  /\ s \o t \in Seq(S) /\ Len(s \o t) = Len(s) + Len(t)
         /\ \A i \in 1 .. Len(s) : (s \o t)[i] = s[i]
         /\ \A i \in 1 .. Len(t) : (s \o t)[Len(s) + i] = t[i]
<1>1. /\ s \o t \in Seq(S) /\ Len(s \o t) = Len(s) + Len(t)
      /\ \A i \in 1 .. Len(s) + Len(t) :
           (s \o t)[i] = IF i <= Len(s) THEN s[i] ELSE t[i - Len(s)]
  BY ConcatProperties
<1>2. Len(s) \in Nat /\ Len(t) \in Nat
  BY LenProperties
<1>3. ASSUME NEW i \in 1 .. Len(s) PROVE (s \o t)[i] = s[i]
  BY <1>1, <1>2
<1>4. ASSUME NEW i \in 1 .. Len(t) PROVE (s \o t)[Len(s) + i] = t[i]
  <2>1. Len(s) + i \in 1 .. Len(s) + Len(t) /\ ~(Len(s) + i <= Len(s))
        /\ Len(s) + i - Len(s) = i
    BY <1>2
  <2> QED BY <1>1, <2>1
<1> QED BY <1>1, <1>3, <1>4

\* FillWritePipeline restores what holds at the end of a task.
LEMMA FillSound ==
  ASSUME NEW r, NEW q \in Seq(Batches), Increasing(q), Consistent(r, q)
  PROVE  LET f == FillWritePipeline(r, q) IN
         /\ Sound(f, q)
         /\ f.token = r.token /\ f.enabled = r.enabled
         /\ f.responses = r.responses /\ f.handshake = r.handshake
<1> DEFINE added == BatchesToAdd(r, q)
           n == Len(r.pipeline)
           full == [r EXCEPT !.pipeline = @ \o added]
           sent == IF IsOpen(r) /\ r.handshake
                   THEN Send(full, MutationRequests(r, added)) ELSE full
           ready == IF r.enabled /\ full.pipeline = <<>> THEN MarkIdle(sent) ELSE sent
<1>0. r \in Remotes /\ r.pipeline \in Seq(Batches) /\ n \in Nat /\ Len(q) \in Nat
      /\ IsFront(r.pipeline, q) /\ n <= MaxPendingWrites
  BY DEF Consistent, Remotes
<1>1. /\ added \in Seq(Batches)
      /\ r.enabled => Len(added) = Min({MaxPendingWrites, Len(q)}) - n
      /\ ~r.enabled => Len(added) = 0
      /\ \A i \in 1 .. Len(added) : added[i] = q[n + i]
  BY <1>0, BatchesToAddFront
<1>2. Min({MaxPendingWrites, Len(q)}) =
        IF MaxPendingWrites <= Len(q) THEN MaxPendingWrites ELSE Len(q)
  BY <1>0, MinOfTwo, ConstantsAssumption
<1> HIDE DEF added
<1>3. /\ full \in Remotes
      /\ full.pipeline \in Seq(Batches)
      /\ Len(full.pipeline) = n + Len(added)
      /\ \A i \in 1 .. n : full.pipeline[i] = r.pipeline[i]
      /\ \A i \in 1 .. Len(added) : full.pipeline[n + i] = added[i]
      /\ full.enabled = r.enabled /\ full.state = r.state /\ full.handshake = r.handshake
      /\ full.idle = r.idle /\ full.token = r.token /\ full.requests = r.requests
      /\ full.responses = r.responses /\ full.status = r.status /\ full.fault = r.fault
  <2>1. full.pipeline = r.pipeline \o added
    BY <1>0 DEF Remotes
  <2>2. /\ r.pipeline \o added \in Seq(Batches)
        /\ Len(r.pipeline \o added) = n + Len(added)
        /\ \A i \in 1 .. n : (r.pipeline \o added)[i] = r.pipeline[i]
        /\ \A i \in 1 .. Len(added) : (r.pipeline \o added)[n + i] = added[i]
    BY <1>0, <1>1, ConcatParts
  <2>3. /\ full \in Remotes
        /\ full.enabled = r.enabled /\ full.state = r.state
        /\ full.handshake = r.handshake /\ full.idle = r.idle /\ full.token = r.token
        /\ full.requests = r.requests /\ full.responses = r.responses
        /\ full.status = r.status /\ full.fault = r.fault
    BY <1>0, <2>2 DEF Remotes
  <2> HIDE DEF full
  <2> QED BY <2>1, <2>2, <2>3
<1> HIDE DEF full
<1>4. /\ sent \in Remotes
      /\ sent.requests = IF IsOpen(r) /\ r.handshake
                         THEN r.requests \o MutationRequests(r, added) ELSE r.requests
      /\ sent.idle = IF IsOpen(r) /\ r.handshake /\ Len(added) # 0 THEN FALSE ELSE r.idle
      /\ sent.enabled = r.enabled /\ sent.pipeline = full.pipeline
      /\ sent.state = r.state /\ sent.handshake = r.handshake /\ sent.token = r.token
      /\ sent.responses = r.responses /\ sent.status = r.status /\ sent.fault = r.fault
  <2>1. CASE IsOpen(r) /\ r.handshake
    <3>1. /\ MutationRequests(r, added) \in Seq(Requests)
          /\ MutationRequests(r, added) = <<>> <=> Len(added) = 0
      BY <1>0, <1>1, MutationRequestsOf
    <3>2. sent = Send(full, MutationRequests(r, added))
      BY <2>1
    <3> DEFINE more == MutationRequests(r, added)
    <3> HIDE DEF sent, more
    <3>3. more \in Seq(Requests) /\ sent = Send(full, more)
      BY <3>1, <3>2 DEF more
    <3>4. /\ sent \in Remotes
          /\ sent.requests = full.requests \o more
          /\ sent.idle = IF more = <<>> THEN full.idle ELSE FALSE
          /\ sent.enabled = full.enabled /\ sent.pipeline = full.pipeline
          /\ sent.state = full.state /\ sent.handshake = full.handshake
          /\ sent.token = full.token /\ sent.responses = full.responses
          /\ sent.status = full.status /\ sent.fault = full.fault
      BY <1>3, <3>3, SendFields
    <3>5. sent.requests = r.requests \o more
          /\ sent.idle = IF more = <<>> THEN r.idle ELSE FALSE
      BY <1>3, <3>4
    <3> QED BY <1>3, <2>1, <3>1, <3>4, <3>5 DEF more
  <2>2. CASE ~(IsOpen(r) /\ r.handshake)
    BY <1>3, <2>2
  <2> QED BY <2>1, <2>2
<1> HIDE DEF sent
<1>5. /\ ready \in Remotes
      /\ ready.idle = IF r.enabled /\ full.pipeline = <<>> /\ IsOpen(r)
                      THEN TRUE ELSE sent.idle
      /\ ready.enabled = r.enabled /\ ready.pipeline = full.pipeline
      /\ ready.requests = sent.requests /\ ready.state = r.state
      /\ ready.handshake = r.handshake /\ ready.token = r.token
      /\ ready.responses = r.responses /\ ready.status = r.status /\ ready.fault = r.fault
  BY <1>4 DEF MarkIdle, IsOpen, Remotes
<1> HIDE DEF ready
<1>l. Len(added) \in Nat
  BY <1>1
<1> HIDE DEF n
<1>6. r.enabled => Len(full.pipeline) = Min({MaxPendingWrites, Len(q)})
  <2>1. Min({MaxPendingWrites, Len(q)}) \in Nat
    BY <1>0, <1>2, ConstantsAssumption
  <2> QED BY <1>0, <1>1, <1>3, <1>l, <2>1
<1>7. Consistent(ready, q)
  <2>1. IsFront(full.pipeline, q) /\ Len(full.pipeline) <= MaxPendingWrites
    <3>1. Len(full.pipeline) <= Len(q) /\ Len(full.pipeline) <= MaxPendingWrites
      <4>1. CASE r.enabled
        BY <1>0, <1>2, <1>6, <4>1, ConstantsAssumption
      <4>2. CASE ~r.enabled
        BY <1>0, <1>1, <1>3, <4>2 DEF IsFront, n
      <4> QED BY <4>1, <4>2
    <3>2. ASSUME NEW i \in 1 .. Len(full.pipeline) PROVE full.pipeline[i] = q[i]
      <4>1. CASE i <= n
        BY <1>0, <1>3, <4>1 DEF IsFront, n
      <4>2. CASE i > n
        <5>1. i - n \in 1 .. Len(added) /\ n + (i - n) = i
          BY <1>0, <1>3, <1>l, <4>2
        <5>2. full.pipeline[n + (i - n)] = q[n + (i - n)]
          BY <1>1, <1>3, <5>1
        <5> QED BY <5>1, <5>2
      <4> QED BY <1>0, <4>1, <4>2
    <3> QED BY <3>1, <3>2 DEF IsFront
  <2>2. full.pipeline = <<>> <=> r.pipeline = <<>> /\ Len(added) = 0
    BY <1>0, <1>3, <1>l DEF n
  <2>3. ~r.enabled => full.pipeline = <<>>
    BY <1>1, <2>2 DEF Consistent
  <2>4. ready.idle => ready.handshake /\ full.pipeline = <<>>
    BY <1>4, <1>5, <2>2 DEF Consistent, IsStarted, IsOpen, Quiet
  <2>5. CASE ~IsOpen(r)
    BY <1>4, <1>5, <2>1, <2>2, <2>3, <2>4, <2>5
       DEF Consistent, IsOpen, IsStarted, Quiet
  <2>6. CASE IsOpen(r)
    <3>1. ASSUME ~r.handshake PROVE Correlated(ready)
      <4>1. Correlated(r)
        BY <2>6 DEF Consistent
      <4>2. ~ready.handshake /\ ready.requests = r.requests /\ ready.responses = r.responses
        BY <1>4, <1>5, <3>1
      <4> QED BY <3>1, <4>1, <4>2, Zenon DEF Correlated
    <3>2. ASSUME r.handshake PROVE Correlated(ready)
      <4> DEFINE more == MutationRequests(r, added)
                 k == Len(r.responses)
                 l == Len(r.requests)
      <4>1. /\ k \in Nat /\ l \in Nat /\ k + l = n
            /\ \A i \in 1 .. k : r.responses[i] = r.pipeline[i].write
            /\ \A i \in 1 .. l : r.requests[i].write = r.pipeline[k + i].write
        BY <1>0, <2>6, <3>2 DEF Consistent, Correlated, Remotes, n
      <4>2. /\ more \in Seq(Requests) /\ Len(more) = Len(added)
            /\ \A i \in 1 .. Len(added) : more[i].write = added[i].write
        BY <1>0, <1>1, MutationRequestsOf
      <4>3. /\ Len(ready.requests) = l + Len(added)
            /\ \A i \in 1 .. l : ready.requests[i] = r.requests[i]
            /\ \A i \in 1 .. Len(added) : ready.requests[l + i] = more[i]
        <5>1. ready.requests = r.requests \o more /\ r.requests \in Seq(Requests)
          BY <1>0, <1>4, <1>5, <2>6, <3>2 DEF Remotes
        <5> HIDE DEF more, ready
        <5>2. /\ Len(r.requests \o more) = l + Len(more)
              /\ \A i \in 1 .. l : (r.requests \o more)[i] = r.requests[i]
              /\ \A i \in 1 .. Len(more) : (r.requests \o more)[l + i] = more[i]
          <6>1. more \in Seq(Requests)
            BY <4>2
          <6> QED BY <5>1, <6>1, ConcatParts
        <5> QED BY <4>2, <5>1, <5>2
      <4> HIDE DEF more, k, l
      <4>a. /\ ready.pipeline = full.pipeline /\ ready.responses = r.responses
            /\ Len(full.pipeline) = n + Len(added)
            /\ \A i \in 1 .. n : full.pipeline[i] = r.pipeline[i]
            /\ \A i \in 1 .. Len(added) : full.pipeline[n + i] = added[i]
        BY <1>3, <1>5
      <4>4. \A i \in 1 .. k : ready.responses[i] = ready.pipeline[i].write
        BY <1>0, <4>1, <4>a
      <4>5. ASSUME NEW i \in 1 .. Len(ready.requests)
            PROVE  ready.requests[i].write = ready.pipeline[k + i].write
        <5>1. CASE i <= l
          <6>1. k + i \in 1 .. n /\ i \in 1 .. l
            BY <1>0, <4>1, <5>1
          <6>2. ready.requests[i].write = r.pipeline[k + i].write
            BY <4>1, <4>3, <6>1
          <6> QED BY <4>a, <6>1, <6>2
        <5>2. CASE i > l
          <6>1. i - l \in 1 .. Len(added) /\ l + (i - l) = i /\ n + (i - l) = k + i
            BY <1>0, <1>l, <4>1, <4>3, <5>2
          <6>2. ready.requests[l + (i - l)].write = added[i - l].write
            BY <4>2, <4>3, <6>1
          <6>3. ready.pipeline[n + (i - l)] = added[i - l]
            BY <4>a, <6>1
          <6> QED BY <6>1, <6>2, <6>3
        <5> QED BY <4>1, <5>1, <5>2
      <4>6. k + Len(ready.requests) = Len(ready.pipeline)
        <5>1. Len(ready.requests) = l + Len(added)
          BY <4>3
        <5>2. Len(ready.pipeline) = n + Len(added)
          BY <4>a
        <5>3. k \in Nat /\ l \in Nat /\ n \in Nat /\ k + l = n
          BY <1>0, <4>1
        <5> HIDE DEF ready
        <5> QED BY <1>l, <5>1, <5>2, <5>3
      <4> QED BY <1>5, <3>2, <4>4, <4>5, <4>6 DEF Correlated, k
    <3>3. Correlated(ready)
      BY <3>1, <3>2
    <3> QED BY <1>5, <2>1, <2>2, <2>3, <2>4, <2>6, <3>3
            DEF Consistent, IsOpen, IsStarted
  <2> QED BY <2>5, <2>6
<1>8. FillWritePipeline(r, q) = StartIfNeeded(ready)
  BY DEF FillWritePipeline, ready, sent, full, added
<1> DEFINE f == FillWritePipeline(r, q)
<1>9. /\ Sound(StartIfNeeded(ready), q)
      /\ StartIfNeeded(ready).token = ready.token
      /\ StartIfNeeded(ready).enabled = ready.enabled
      /\ StartIfNeeded(ready).responses = ready.responses
      /\ StartIfNeeded(ready).handshake = ready.handshake
  BY <1>5, <1>6, <1>7, StartIfNeededSound
<1> HIDE DEF f
<1>10. f = StartIfNeeded(ready)
  BY <1>8 DEF f
<1>11. /\ Sound(f, q) /\ f.token = r.token /\ f.enabled = r.enabled
       /\ f.responses = r.responses /\ f.handshake = r.handshake
  BY <1>5, <1>9, <1>10
<1> QED BY <1>11 DEF f

-----------------------------------------------------------------------------
(* Enabling, disabling and restarting the network.                         *)

\* A RemoteStore whose network is disabled: nothing pending, no stream.
Off(r) ==
  /\ r \in Remotes
  /\ ~r.enabled /\ r.pipeline = <<>> /\ ~IsStarted(r) /\ Quiet(r)
  /\ r.fault = "None"

LEMMA OffConsistent ==
  ASSUME NEW r, Off(r), NEW q \in Seq(Batches)
  PROVE  Sound(r, q)
<1>1. Len(r.pipeline) = 0 /\ Len(q) \in Nat /\ MaxPendingWrites \in Nat
  BY ConstantsAssumption DEF Off
<1> QED BY <1>1 DEF Off, Sound, Consistent, Complete, IsFront, IsStarted, IsOpen, Quiet

\* What is outstanding on an open stream is a matter of four fields.
LEMMA CorrelatedSame ==
  ASSUME NEW r, NEW s, Correlated(r),
         s.handshake = r.handshake, s.pipeline = r.pipeline,
         s.responses = r.responses, s.requests = r.requests
  PROVE  Correlated(s)
<1>1. ASSUME r.handshake PROVE Correlated(s)
  <2>1. /\ Len(s.responses) + Len(s.requests) = Len(s.pipeline)
        /\ \A i \in 1 .. Len(s.responses) : s.responses[i] = s.pipeline[i].write
    BY <1>1, Zenon DEF Correlated
  <2>2. \A i \in 1 .. Len(s.requests) :
          s.requests[i].write = s.pipeline[Len(s.responses) + i].write
    BY <1>1, Zenon DEF Correlated
  <2>3. s.handshake
    BY <1>1
  <2> QED BY <2>1, <2>2, <2>3, Zenon DEF Correlated
<1>2. ASSUME ~r.handshake PROVE Correlated(s)
  <2>1. /\ Len(s.responses) + Len(s.requests) = 1
        /\ \A i \in 1 .. Len(s.responses) : s.responses[i] = Handshake
    BY <1>2, Zenon DEF Correlated
  <2>2. \A i \in 1 .. Len(s.requests) : s.requests[i].write = Handshake
    BY <1>2, Zenon DEF Correlated
  <2>3. ~s.handshake
    BY <1>2
  <2> QED BY <2>1, <2>2, <2>3, Zenon DEF Correlated
<1> QED BY <1>1, <1>2, Zenon

\* Consistency reads only some of the fields: enabling the network and a status of
\* the backend keep it.
LEMMA ConsistentKeeps ==
  ASSUME NEW r, NEW s \in Remotes, NEW q, Consistent(r, q),
         r.enabled => s.enabled, ~s.enabled => ~r.enabled,
         s.pipeline = r.pipeline, s.state = r.state, s.handshake = r.handshake,
         s.idle = r.idle, s.requests = r.requests, s.responses = r.responses,
         s.fault = r.fault, s.status # "OK", IsOpen(r) \/ s.status = r.status
  PROVE  Consistent(s, q)
<1>1. (IsOpen(s) <=> IsOpen(r)) /\ (IsStarted(s) <=> IsStarted(r))
  BY Zenon DEF IsOpen, IsStarted
<1>2. Correlated(r) => Correlated(s)
  BY CorrelatedSame, Zenon
<1>3. ASSUME ~IsOpen(r) PROVE Quiet(r) => Quiet(s)
  BY <1>3, Zenon DEF Quiet
<1>4. /\ r.fault = "None" /\ IsFront(r.pipeline, q)
      /\ Len(r.pipeline) <= MaxPendingWrites
      /\ ~r.enabled => r.pipeline = <<>>
      /\ IsStarted(r) => r.enabled
      /\ IsStarted(r) /\ ~r.handshake => r.pipeline # <<>>
      /\ r.idle => r.handshake /\ r.pipeline = <<>>
  BY Zenon DEF Consistent
<1>5. IF IsOpen(r) THEN Correlated(r) ELSE Quiet(r)
  BY Zenon DEF Consistent
<1>6. IF IsOpen(s) THEN Correlated(s) ELSE Quiet(s)
  BY <1>1, <1>2, <1>3, <1>5, Zenon
<1>7. /\ s.fault = "None" /\ IsFront(s.pipeline, q)
      /\ Len(s.pipeline) <= MaxPendingWrites
      /\ ~s.enabled => s.pipeline = <<>>
      /\ IsStarted(s) => s.enabled
      /\ IsStarted(s) /\ ~s.handshake => s.pipeline # <<>>
      /\ s.idle => s.handshake /\ s.pipeline = <<>>
  BY <1>1, <1>4, Zenon
<1> QED BY <1>6, <1>7, Zenon DEF Consistent

\* EnableNetworkInternal loads the token and fills the pipeline.
LEMMA EnableSound ==
  ASSUME NEW r, NEW token \in Tokens, NEW q \in Seq(Batches), Increasing(q),
         Consistent(r, q)
  PROVE  LET e == EnableNetworkInternal(r, token, q) IN
         Sound(e, q) /\ e.responses = r.responses /\ e.handshake = r.handshake
<1> DEFINE s == [r EXCEPT !.enabled = TRUE, !.token = token]
<1>1. r \in Remotes
  BY DEF Consistent
<1>2. /\ s \in Remotes /\ s.enabled = TRUE
      /\ s.pipeline = r.pipeline /\ s.state = r.state /\ s.handshake = r.handshake
      /\ s.idle = r.idle /\ s.requests = r.requests /\ s.responses = r.responses
      /\ s.status = r.status /\ s.fault = r.fault
  BY <1>1 DEF Remotes
<1>3. EnableNetworkInternal(r, token, q) = FillWritePipeline(s, q)
  BY DEF EnableNetworkInternal
<1> HIDE DEF s
<1>4. Consistent(s, q)
  <2>1. s.status # "OK"
    BY <1>2 DEF Consistent
  <2> QED BY <1>2, <2>1, ConsistentKeeps
<1> QED BY <1>2, <1>3, <1>4, FillSound

\* A closed stream keeps nothing of its call.
LEMMA ClosedFields ==
  ASSUME NEW r \in Remotes, IsStarted(r), NEW code
  PROVE  LET c == Closed(r, code) IN
         /\ c \in Remotes /\ Quiet(c)
         /\ c.state = IF code = "OK" THEN "Initial" ELSE "Error"
         /\ c.enabled = r.enabled /\ c.pipeline = r.pipeline
         /\ c.token = r.token /\ c.fault = r.fault
<1>1. HardAssert(r, IsStarted(r), "CloseNotStarted") = r
  BY DEF HardAssert
<1>2. Closed(r, code) =
        [r EXCEPT !.state = IF code = "OK" THEN "Initial" ELSE "Error",
                  !.handshake = FALSE, !.idle = FALSE,
                  !.requests = <<>>, !.responses = <<>>, !.status = "None"]
  BY <1>1 DEF Closed
<1>3. <<>> \in Seq(Requests) /\ <<>> \in Seq(Writes \cup {Handshake})
  OBVIOUS
<1> DEFINE c == Closed(r, code)
           close(st) == [r EXCEPT !.state = st, !.handshake = FALSE, !.idle = FALSE,
                           !.requests = <<>>, !.responses = <<>>, !.status = "None"]
<1>4. close("Initial") \in Remotes /\ close("Error") \in Remotes
  BY <1>3 DEF Remotes
<1>5. c \in Remotes
  <2>1. c = close("Initial") \/ c = close("Error")
    BY <1>2
  <2> HIDE DEF c, close
  <2> QED BY <2>1, <1>4
<1>6. /\ ~c.handshake /\ ~c.idle /\ c.requests = <<>> /\ c.responses = <<>>
      /\ c.status = "None"
      /\ c.state = IF code = "OK" THEN "Initial" ELSE "Error"
      /\ c.enabled = r.enabled /\ c.pipeline = r.pipeline
      /\ c.token = r.token /\ c.fault = r.fault
  BY <1>2, SMTT(30) DEF Remotes
<1> HIDE DEF c
<1>7. Quiet(c)
  BY <1>6, Zenon DEF Quiet
<1> QED BY <1>5, <1>6, <1>7 DEF c

\* A stream that is not needed any more is closed and not restarted.
LEMMA ClosedGracefullyFields ==
  ASSUME NEW r \in Remotes, IsStarted(r), ~(r.enabled /\ r.pipeline # <<>>)
  PROVE  LET c == ClosedGracefully(r) IN
         /\ c \in Remotes /\ Quiet(c) /\ c.state = "Initial"
         /\ c.enabled = r.enabled /\ c.pipeline = r.pipeline
         /\ c.token = r.token /\ c.fault = r.fault
<1> DEFINE c == Closed(r, "OK")
<1>1. /\ c \in Remotes /\ Quiet(c) /\ c.state = "Initial"
      /\ c.enabled = r.enabled /\ c.pipeline = r.pipeline
      /\ c.token = r.token /\ c.fault = r.fault
  BY ClosedFields
<1>2. ClosedGracefully(r) =
        StartIfNeeded(HardAssert(c, ~ShouldStartWriteStream(c), "StoppedWhileNeeded"))
  BY DEF ClosedGracefully
<1> HIDE DEF c
<1>3. ~ShouldStartWriteStream(c)
  BY <1>1 DEF ShouldStartWriteStream
<1>4. ClosedGracefully(r) = c
  BY <1>2, <1>3 DEF StartIfNeeded, HardAssert
<1> QED BY <1>1, <1>4

\* DisableNetworkInternal, after is_network_enabled_ is cleared.
LEMMA DisabledOff ==
  ASSUME NEW r, NEW q, Consistent(r, q)
  PROVE  Off(DisabledRemote(r))
<1> DEFINE s == [r EXCEPT !.enabled = FALSE]
           d == StopStream(s)
<1>1. r \in Remotes /\ r.fault = "None" /\ <<>> \in Seq(Batches)
  BY DEF Consistent
<1>2. /\ s \in Remotes /\ ~s.enabled /\ s.enabled = FALSE /\ s.state = r.state
      /\ s.handshake = r.handshake /\ s.idle = r.idle /\ s.requests = r.requests
      /\ s.responses = r.responses /\ s.status = r.status /\ s.fault = "None"
  BY <1>1 DEF Remotes
<1>3. DisabledRemote(r) = [d EXCEPT !.pipeline = <<>>]
  BY DEF DisabledRemote, DisableNetworkInternal
<1> HIDE DEF s
<1>4. d \in Remotes /\ Quiet(d) /\ ~IsStarted(d) /\ ~d.enabled /\ d.fault = "None"
  <2>1. CASE IsStarted(s)
    BY <1>2, <2>1, ClosedGracefullyFields DEF StopStream, IsStarted
  <2>2. CASE ~IsStarted(s)
    BY <1>2, <2>2 DEF StopStream, Consistent, IsStarted, IsOpen, Quiet
  <2> QED BY <2>1, <2>2
<1> HIDE DEF d
<1>5. LET e == [d EXCEPT !.pipeline = <<>>] IN
      /\ e \in Remotes /\ e.pipeline = <<>> /\ e.state = d.state
      /\ e.enabled = d.enabled /\ e.handshake = d.handshake /\ e.idle = d.idle
      /\ e.requests = d.requests /\ e.responses = d.responses
      /\ e.status = d.status /\ e.fault = d.fault
  BY <1>1, <1>4 DEF Remotes
<1> QED BY <1>3, <1>4, <1>5 DEF Off, Quiet, IsStarted

\* RestartNetwork: whatever the old queue was, the pipeline is that of the new one.
LEMMA RestartSound ==
  ASSUME NEW r, NEW q, Consistent(r, q), NEW token \in Tokens,
         NEW new \in Seq(Batches), Increasing(new)
  PROVE  LET s == RestartNetwork(r, token, new) IN
         Sound(s, new) /\ s.handshake = FALSE
<1> DEFINE d == DisabledRemote(r)
           i == InhibitBackoff(d)
<1>1. Off(d)
  BY DisabledOff
<1> HIDE DEF d
<1>2. i = [d EXCEPT !.state = "Initial"]
  BY <1>1 DEF Off, InhibitBackoff, HardAssert
<1>3. Off(i)
  BY <1>1, <1>2 DEF Off, Quiet, IsStarted, Remotes
<1> HIDE DEF i
<1>4. Consistent(i, new) /\ i.handshake = FALSE
  BY <1>3, OffConsistent DEF Sound, Off, Quiet, Remotes
<1>5. RestartNetwork(r, token, new) = EnableNetworkInternal(i, token, new)
  BY DEF RestartNetwork, i, d
<1> QED BY <1>4, <1>5, EnableSound

\* RemoteStore::Start over a queue of a new process.
LEMMA NewRemoteSound ==
  ASSUME NEW token \in Tokens, NEW q \in Seq(Batches), Increasing(q)
  PROVE  LET s == EnableNetworkInternal(NewRemote, token, q) IN
         Sound(s, q) /\ s.handshake = FALSE
<1>1. Off(NewRemote) /\ NewRemote.handshake = FALSE
  <2>1. <<>> \in Seq(Batches) /\ <<>> \in Seq(Requests)
        /\ <<>> \in Seq(Writes \cup {Handshake})
    OBVIOUS
  <2> QED BY <2>1 DEF NewRemote, Off, Quiet, IsStarted, Remotes, Tokens, Faults
<1>2. Consistent(NewRemote, q)
  BY <1>1, OffConsistent DEF Sound
<1> QED BY <1>1, <1>2, EnableSound

-----------------------------------------------------------------------------
(* The mutation queue: batch ids, and removing the first batch.            *)

\* A bounded set of numbers has a largest one.
LEMMA MaxExists ==
  ASSUME NEW n \in Nat, NEW S \in SUBSET (0 .. n), S # {}
  PROVE  Max(S) \in S /\ \A y \in S : y <= Max(S)
<1> DEFINE R == OpToRel(<, Nat)
           T == {n - x : x \in S}
<1>1. IsWellFoundedOn(R, Nat)
  BY NatLessThanWellFounded, Zenon
<1>2. \A x, y \in Nat : x < y => <<x, y>> \in R
  BY DEF OpToRel
<1>3. T \subseteq Nat /\ T # {}
  OBVIOUS
<1> HIDE DEF R, T
<1>4. PICK t \in T : \A y \in T : ~ (<<y, t>> \in R)
  BY <1>1, <1>3, WFMin
<1>5. PICK m \in S : t = n - m
  BY <1>4 DEF T
<1>6. ASSUME NEW y \in S PROVE m >= y
  <2>1. n - y \in T
    BY DEF T
  <2>2. ~(n - y < t)
    BY <1>2, <1>3, <1>4, <2>1
  <2> QED BY <1>5, <2>2
<1>7. \E x \in S : \A y \in S : x >= y
  BY <1>5, <1>6
<1>8. Max(S) \in S /\ \A y \in S : Max(S) >= y
  BY <1>7 DEF Max
<1> QED BY <1>8

\* LoadNextBatchIdFromDb returns an id above that of every queued batch.
LEMMA NextBatchIdAbove ==
  ASSUME NEW queues \in [Users -> Seq(Batches)], NEW n \in Nat,
         \A u \in Users : \A i \in 1 .. Len(queues[u]) : queues[u][i].id <= n
  PROVE  /\ LoadNextBatchId(queues) \in Nat
         /\ LoadNextBatchId(queues) <= n + 1
         /\ \A u \in Users : \A i \in 1 .. Len(queues[u]) :
              queues[u][i].id < LoadNextBatchId(queues)
<1> DEFINE ids == (UNION {{b.id : b \in Range(queues[u])} : u \in Users}) \cup {0}
<1>1. \A u \in Users : \A i \in 1 .. Len(queues[u]) :
        /\ queues[u][i] \in Range(queues[u])
        /\ queues[u][i].id \in 0 .. n
  <2> TAKE u \in Users
  <2> TAKE i \in 1 .. Len(queues[u])
  <2>1. queues[u] \in Seq(Batches)
    OBVIOUS
  <2>2. queues[u][i] \in Batches
    BY <2>1, ElementOfSeq
  <2>3. queues[u][i].id \in Nat
    BY <2>2 DEF Batches
  <2>4. queues[u][i] \in Range(queues[u])
    BY <2>1 DEF Range
  <2> QED BY <2>3, <2>4
<1>2. \A u \in Users : \A b \in Range(queues[u]) :
        \E i \in 1 .. Len(queues[u]) : b = queues[u][i]
  BY RangeEquality
<1>3. ids \in SUBSET (0 .. n) /\ ids # {}
  BY <1>1, <1>2
<1>4. \A u \in Users : \A i \in 1 .. Len(queues[u]) : queues[u][i].id \in ids
  BY <1>1
<1>5. LoadNextBatchId(queues) = 1 + Max(ids)
  BY DEF LoadNextBatchId
<1> HIDE DEF ids
<1>6. Max(ids) \in 0 .. n /\ \A y \in ids : y <= Max(ids)
  BY <1>3, MaxExists
<1> QED BY <1>1, <1>4, <1>5, <1>6

\* Removing the first batch of a queue by its id leaves the rest.
LEMMA RemoveFront ==
  ASSUME NEW q \in Seq(Batches), Increasing(q), q # <<>>
  PROVE  /\ RemoveBatch(q, q[1].id) = Tail(q)
         /\ Queued(q, q[1].id)
         /\ Tail(q) \in Seq(Batches) /\ Increasing(Tail(q))
         /\ Len(Tail(q)) = Len(q) - 1
         /\ \A i \in 1 .. Len(Tail(q)) : Tail(q)[i] = q[i + 1]
         /\ \A b \in Range(q) : b = q[1] \/ b \in Range(Tail(q))
<1> DEFINE rest == Tail(q)
<1>1. Len(q) \in Nat /\ Len(q) >= 1 /\ 1 \in 1 .. Len(q)
  OBVIOUS
<1>2. \A i \in 1 .. Len(q) : q[i].id \in Nat
  <2>1. \A i \in 1 .. Len(q) : q[i] \in Batches
    BY ElementOfSeq
  <2> QED BY <2>1 DEF Batches
<1>3. rest \in Seq(Batches) /\ Len(rest) = Len(q) - 1
      /\ \A i \in 1 .. Len(rest) : rest[i] = q[i + 1]
  BY HeadTailProperties
<1>4. (CHOOSE i \in 1 .. Len(q) : q[i].id = q[1].id) = 1
  <2>1. \A i \in 1 .. Len(q) : q[i].id = q[1].id => i = 1
    BY <1>1, <1>2 DEF Increasing
  <2> QED BY <1>1, <2>1
<1>5. RemoveBatch(q, q[1].id) = rest
  <2>1. RemoveBatch(q, q[1].id) = SubSeq(q, 1, 0) \o SubSeq(q, 2, Len(q))
    <3> DEFINE k == CHOOSE i \in 1 .. Len(q) : q[i].id = q[1].id
    <3>1. RemoveBatch(q, q[1].id) = SubSeq(q, 1, k - 1) \o SubSeq(q, k + 1, Len(q))
      BY Zenon DEF RemoveBatch, RemoveAt
    <3>2. k = 1
      BY <1>4, Zenon
    <3> HIDE DEF k
    <3>3. k - 1 = 0 /\ k + 1 = 2
      BY <3>2
    <3> QED BY <3>1, <3>3, Zenon
  <2>2. SubSeq(q, 1, 0) = <<>>
    BY SubSeqEmpty
  <2>3. SubSeq(q, 2, Len(q)) = rest
    BY TailIsSubSeq
  <2> QED BY <1>3, <2>1, <2>2, <2>3, ConcatEmptySeq
<1> HIDE DEF rest
<1>6. Increasing(rest)
  <2>1. ASSUME NEW i \in 1 .. Len(rest), NEW j \in 1 .. Len(rest), i < j
        PROVE  rest[i].id < rest[j].id
    <3>1. i + 1 \in 1 .. Len(q) /\ j + 1 \in 1 .. Len(q) /\ i + 1 < j + 1
      BY <1>1, <1>3, <2>1
    <3> QED BY <1>3, <3>1 DEF Increasing
  <2> QED BY <2>1 DEF Increasing
<1>7. ASSUME NEW b \in Range(q) PROVE b = q[1] \/ b \in Range(rest)
  <2>1. PICK i \in 1 .. Len(q) : b = q[i]
    BY RangeEquality
  <2>2. CASE i # 1
    <3>1. i - 1 \in 1 .. Len(rest) /\ (i - 1) + 1 = i
      BY <1>1, <1>3, <2>2
    <3>2. b = rest[i - 1]
      BY <1>3, <2>1, <3>1
    <3> QED BY <1>3, <3>1, <3>2, RangeEquality
  <2> QED BY <2>1, <2>2
<1> QED BY <1>1, <1>3, <1>5, <1>6, <1>7 DEF Queued, rest

-----------------------------------------------------------------------------
(* Steps that leave the queues and the application's view alone.            *)

\* What such a step has to show of the variables it changes.
OthersTyped ==
  /\ waits' \subseteq [id : Nat, upTo : Writes]
  /\ storedToken' \in [Users -> Tokens]
  /\ refused' \subseteq Writes
  /\ lingering' \subseteq Seq(Writes \cup {Handshake}) \ {<<>>}
  /\ waited' \subseteq Writes
  /\ disruptions' \in 0 .. MaxDisruptions

\* A step on the RemoteStore keeps the invariant if it leaves a sound pipeline.
LEMMA RemoteStep ==
  ASSUME IInv, OthersTyped,
         UNCHANGED <<currentUser, callbacks, nextBatchId, queue, issued, author, fate,
                     told>>,
         Sound(rs', queue[currentUser]),
         committed \subseteq committed', committed' \subseteq Writes,
         rs'.handshake =>
           \A i \in 1 .. Len(rs'.responses) : rs'.responses[i] \in committed'
  PROVE  IInv'
<1>1. rs' \in Remotes
  BY DEF Sound, Consistent
<1>2. TypeOK'
  BY <1>1 DEF IInv, TypeOK, OthersTyped
<1>3. (\A u \in Users : Increasing(queue[u]))' /\ IdsBounded' /\ CallbacksMatchQueue'
  BY DEF IInv, IdsBounded, CallbacksMatchQueue
<1>4. Sound(rs, queue[currentUser])'
  OBVIOUS
<1>5. ResultsCommitted' /\ SuccessMeansCommitted'
  BY DEF IInv, ResultsCommitted, SuccessMeansCommitted
<1> QED BY <1>2, <1>3, <1>4, <1>5 DEF IInv

\* Disruptions stay bounded, and requests that linger are never empty.
LEMMA DisruptionsTyped ==
  ASSUME TypeOK, Disrupt \/ NoDisruption
  PROVE  disruptions' \in 0 .. MaxDisruptions
BY ConstantsAssumption DEF TypeOK, Disrupt, NoDisruption

LEMMA LingeringTyped ==
  ASSUME TypeOK, Linger(rs) \/ UNCHANGED lingering
  PROVE  lingering' \subseteq Seq(Writes \cup {Handshake}) \ {<<>>}
<1> DEFINE left == [i \in 1 .. Len(rs.requests) |-> rs.requests[i].write]
<1>1. rs.requests \in Seq(Requests) /\ Len(rs.requests) \in Nat
  BY DEF TypeOK, Remotes
<1>2. \A i \in 1 .. Len(rs.requests) : rs.requests[i] \in Requests
  BY <1>1, ElementOfSeq
<1>3. left \in Seq(Writes \cup {Handshake})
  BY <1>1, <1>2 DEF Requests
<1> HIDE DEF left
<1> QED BY <1>3 DEF TypeOK, Linger, left

\* The variables most of these steps leave alone keep their types.
LEMMA OthersKept ==
  ASSUME IInv, Disrupt \/ NoDisruption, Linger(rs) \/ UNCHANGED lingering,
         UNCHANGED <<waits, storedToken, refused, waited>>
  PROVE  OthersTyped
BY DisruptionsTyped, LingeringTyped DEF IInv, TypeOK, OthersTyped

\* What the invariant says of the current user's queue and of the RemoteStore.
LEMMA CurrentFacts ==
  ASSUME IInv
  PROVE  /\ currentUser \in Users
         /\ queue[currentUser] \in Seq(Batches) /\ Increasing(queue[currentUser])
         /\ storedToken[currentUser] \in Tokens
         /\ rs \in Remotes /\ Sound(rs, queue[currentUser])
         /\ Consistent(rs, queue[currentUser])
BY DEF IInv, TypeOK, Sound

LEMMA EnableNetworkKeeps ==
  ASSUME IInv, EnableNetwork
  PROVE  IInv'
<1>1. Sound(rs', queue[currentUser]) /\ rs'.responses = rs.responses
      /\ rs'.handshake = rs.handshake
  BY CurrentFacts, EnableSound DEF EnableNetwork
<1>2. OthersTyped
  BY OthersKept DEF EnableNetwork, durableVars, serverVars, historyVars
<1> QED BY <1>1, <1>2, RemoteStep
        DEF EnableNetwork, durableVars, serverVars, historyVars, IInv, TypeOK,
            ResultsCommitted

LEMMA DisableNetworkKeeps ==
  ASSUME IInv, DisableNetwork
  PROVE  IInv'
<1>1. Sound(rs', queue[currentUser]) /\ ~rs'.handshake
  <2>1. Off(rs')
    BY CurrentFacts, DisabledOff DEF DisableNetwork
  <2> QED BY <2>1, CurrentFacts, OffConsistent DEF Off, Quiet
<1>2. OthersTyped
  BY OthersKept DEF DisableNetwork, durableVars, serverVars, historyVars
<1> QED BY <1>1, <1>2, RemoteStep
        DEF DisableNetwork, durableVars, serverVars, historyVars, IInv, TypeOK

LEMMA ConnectivityChangeKeeps ==
  ASSUME IInv, ConnectivityChange
  PROVE  IInv'
<1>1. Sound(rs', queue[currentUser]) /\ ~rs'.handshake
  BY CurrentFacts, RestartSound DEF ConnectivityChange
<1>2. OthersTyped
  BY OthersKept DEF ConnectivityChange, durableVars, serverVars, historyVars
<1> QED BY <1>1, <1>2, RemoteStep
        DEF ConnectivityChange, durableVars, serverVars, historyVars, IInv, TypeOK

LEMMA StreamOpensKeeps ==
  ASSUME IInv, StreamOpens
  PROVE  IInv'
<1> DEFINE q == queue[currentUser]
           hello == [write |-> Handshake, token |-> NoUser]
           open == [rs EXCEPT !.state = "Open"]
<1>1. /\ rs \in Remotes /\ Consistent(rs, q) /\ rs.state = "Starting" /\ Quiet(rs)
      /\ Sound(rs, q)
  BY CurrentFacts DEF StreamOpens, Consistent, IsOpen
<1>2. /\ open \in Remotes /\ open.state = "Open" /\ open.enabled = rs.enabled
      /\ open.pipeline = rs.pipeline /\ open.handshake = rs.handshake
      /\ open.idle = rs.idle /\ open.requests = <<>> /\ open.responses = <<>>
      /\ open.status = rs.status /\ open.fault = rs.fault
  BY <1>1 DEF Remotes, Quiet
<1>3. <<hello>> \in Seq(Requests) /\ Len(<<hello>>) = 1 /\ <<hello>>[1].write = Handshake
      /\ <<>> \o <<hello>> = <<hello>> /\ <<hello>> # <<>>
  BY DEF Requests, Tokens
<1>4. rs' = Send(open, <<hello>>)
  BY DEF StreamOpens
<1> HIDE DEF open, hello
<1>5. /\ rs' \in Remotes /\ rs'.state = "Open" /\ rs'.enabled = rs.enabled
      /\ rs'.pipeline = rs.pipeline /\ rs'.handshake = rs.handshake
      /\ rs'.idle = FALSE /\ rs'.requests = <<hello>> /\ rs'.responses = <<>>
      /\ rs'.status = rs.status /\ rs'.fault = rs.fault
  <2>1. /\ rs' \in Remotes /\ rs'.state = open.state /\ rs'.enabled = open.enabled
        /\ rs'.pipeline = open.pipeline /\ rs'.handshake = open.handshake
        /\ rs'.idle = IF <<hello>> = <<>> THEN open.idle ELSE FALSE
        /\ rs'.requests = open.requests \o <<hello>>
        /\ rs'.responses = open.responses
        /\ rs'.status = open.status /\ rs'.fault = open.fault
    BY <1>2, <1>3, <1>4, SendFields
  <2> QED BY <1>2, <1>3, <2>1
<1>6. Correlated(rs') /\ ~rs'.handshake
  BY <1>1, <1>3, <1>5 DEF Correlated, Quiet
<1>7. Sound(rs', q)
  BY <1>1, <1>5, <1>6 DEF Sound, Consistent, Complete, IsOpen, IsStarted, Quiet
<1>8. OthersTyped
  BY OthersKept DEF StreamOpens, durableVars, serverVars, historyVars
<1> QED BY <1>6, <1>7, <1>8, RemoteStep
        DEF StreamOpens, durableVars, serverVars, historyVars, IInv, TypeOK

LEMMA BackoffElapsesKeeps ==
  ASSUME IInv, BackoffElapses
  PROVE  IInv'
<1> DEFINE q == queue[currentUser]
           init == [rs EXCEPT !.state = "Initial"]
<1>1. /\ rs \in Remotes /\ Consistent(rs, q) /\ rs.state = "Backoff" /\ Quiet(rs)
      /\ Sound(rs, q)
  BY CurrentFacts DEF BackoffElapses, Consistent, IsOpen
<1>2. rs' = [init EXCEPT !.state = "Starting"]
  BY <1>1 DEF BackoffElapses, StartStream, HardAssert, Remotes
<1>3. /\ rs' \in Remotes /\ rs'.state = "Starting" /\ rs'.enabled = rs.enabled
      /\ rs'.pipeline = rs.pipeline /\ rs'.handshake = rs.handshake
      /\ rs'.idle = rs.idle /\ rs'.requests = rs.requests
      /\ rs'.responses = rs.responses /\ rs'.status = rs.status /\ rs'.fault = rs.fault
  BY <1>1, <1>2 DEF Remotes
<1>4. Sound(rs', q) /\ ~rs'.handshake
  BY <1>1, <1>3 DEF Sound, Consistent, Complete, IsOpen, IsStarted, Quiet
<1>5. OthersTyped
  BY OthersKept DEF BackoffElapses, durableVars, serverVars, historyVars
<1> QED BY <1>4, <1>5, RemoteStep
        DEF BackoffElapses, durableVars, serverVars, historyVars, IInv, TypeOK

LEMMA IdleTimeoutKeeps ==
  ASSUME IInv, IdleTimeout
  PROVE  IInv'
<1> DEFINE q == queue[currentUser]
<1>1. /\ rs \in Remotes /\ Consistent(rs, q) /\ Sound(rs, q)
      /\ rs.idle /\ IsOpen(rs) /\ IsStarted(rs) /\ rs.pipeline = <<>>
  BY CurrentFacts DEF IdleTimeout, Consistent, IsOpen, IsStarted, Quiet
<1>2. rs' = ClosedGracefully(rs)
  BY <1>1 DEF IdleTimeout, StopStream
<1>3. /\ rs' \in Remotes /\ Quiet(rs') /\ rs'.state = "Initial"
      /\ rs'.enabled = rs.enabled /\ rs'.pipeline = rs.pipeline
      /\ rs'.token = rs.token /\ rs'.fault = rs.fault
  BY <1>1, <1>2, ClosedGracefullyFields
<1>4. Sound(rs', q) /\ ~rs'.handshake
  BY <1>1, <1>3 DEF Sound, Consistent, Complete, IsOpen, IsStarted, Quiet
<1>5. OthersTyped
  BY OthersKept DEF IdleTimeout, durableVars, serverVars, historyVars
<1> QED BY <1>4, <1>5, RemoteStep
        DEF IdleTimeout, durableVars, serverVars, historyVars, IInv, TypeOK

-----------------------------------------------------------------------------
(* The backend, and steps that touch neither queue nor RemoteStore.         *)

LEMMA UnchangedRemoteKeeps ==
  ASSUME IInv, WaitForPendingWrites \/ (\E s \in lingering : LingeringCallEnds(s))
  PROVE  IInv'
<1>1. UNCHANGED <<currentUser, rs, callbacks, nextBatchId, queue, storedToken, committed,
                  refused, issued, author, fate, told, waited, disruptions>>
  BY DEF WaitForPendingWrites, LingeringCallEnds, clientVars, durableVars, serverVars,
         historyVars, NoDisruption
<1>2. waits' \subseteq [id : Nat, upTo : Writes]
  <2>1. CASE WaitForPendingWrites
    <3>1. queue[currentUser] \in Seq(Batches) /\ queue[currentUser] # <<>>
      BY <2>1, CurrentFacts DEF WaitForPendingWrites
    <3>2. Len(queue[currentUser]) \in 1 .. Len(queue[currentUser])
      BY <3>1
    <3>3. Last(queue[currentUser]) \in Batches
      BY <3>1, <3>2, ElementOfSeq DEF Last
    <3> QED BY <2>1, <3>3 DEF WaitForPendingWrites, IInv, TypeOK, Batches
  <2>2. CASE \E s \in lingering : LingeringCallEnds(s)
    BY <2>2 DEF LingeringCallEnds, clientVars, IInv, TypeOK
  <2> QED BY <2>1, <2>2
<1>3. lingering' \subseteq lingering
  BY DEF WaitForPendingWrites, LingeringCallEnds
<1>4. OthersTyped
  BY <1>1, <1>2, <1>3 DEF OthersTyped, IInv, TypeOK
<1> QED BY <1>1, <1>4, CurrentFacts, RemoteStep DEF IInv, TypeOK, ResultsCommitted

LEMMA LingeringRequestKeeps ==
  ASSUME IInv, NEW s \in lingering, LingeringRequest(s)
  PROVE  IInv'
<1>1. UNCHANGED <<currentUser, rs, callbacks, waits, nextBatchId, queue, storedToken,
                  refused, issued, author, fate, told, waited, disruptions>>
  BY DEF LingeringRequest, clientVars, durableVars, historyVars, NoDisruption
<1>2. s \in Seq(Writes \cup {Handshake}) /\ s # <<>>
  BY DEF IInv, TypeOK
<1>3. Head(s) \in Writes \cup {Handshake} /\ Tail(s) \in Seq(Writes \cup {Handshake})
      /\ Len(Tail(s)) = Len(s) - 1 /\ Len(s) \in Nat
  BY <1>2, HeadTailProperties
<1>4. Len(s) # 1 => Tail(s) # <<>>
  <2>1. Tail(s) = <<>> => Len(Tail(s)) = Len(<<>>)
    BY Zenon
  <2>2. Len(<<>>) = 0
    OBVIOUS
  <2> QED BY <1>3, <2>1, <2>2
<1>5. lingering' \subseteq Seq(Writes \cup {Handshake}) \ {<<>>}
  BY <1>3, <1>4 DEF LingeringRequest, IInv, TypeOK
<1>6. committed \subseteq committed' /\ committed' \subseteq Writes
  BY <1>3 DEF LingeringRequest, IInv, TypeOK
<1>7. OthersTyped
  BY <1>1, <1>5 DEF OthersTyped, IInv, TypeOK
<1> QED BY <1>1, <1>6, <1>7, CurrentFacts, RemoteStep DEF IInv, TypeOK, ResultsCommitted

\* A status of the backend does not disturb what the open call holds.
LEMMA StatusKeeps ==
  ASSUME IInv, IsOpen(rs), NEW code \in ErrorCodes, rs' = [rs EXCEPT !.status = code],
         UNCHANGED <<currentUser, callbacks, waits, nextBatchId, queue, storedToken,
                     committed, lingering, issued, author, fate, told, waited>>,
         refused' \subseteq Writes, Disrupt \/ NoDisruption
  PROVE  IInv'
<1> DEFINE q == queue[currentUser]
<1>1. rs \in Remotes /\ Consistent(rs, q) /\ Sound(rs, q)
  BY CurrentFacts
<1>2. /\ rs' \in Remotes /\ rs'.state = rs.state /\ rs'.enabled = rs.enabled
      /\ rs'.pipeline = rs.pipeline /\ rs'.handshake = rs.handshake
      /\ rs'.idle = rs.idle /\ rs'.requests = rs.requests
      /\ rs'.responses = rs.responses /\ rs'.status = code /\ rs'.fault = rs.fault
  BY <1>1 DEF Remotes
<1>a. Correlated(rs) /\ Correlated(rs') /\ IsOpen(rs')
  <2>1. Correlated(rs)
    BY <1>1 DEF Consistent
  <2>2. IsOpen(rs')
    BY <1>2 DEF IsOpen
  <2>3. /\ rs'.handshake = rs.handshake /\ rs'.responses = rs.responses
        /\ rs'.requests = rs.requests /\ rs'.pipeline = rs.pipeline
    BY <1>2
  <2>4. Correlated(rs')
    BY <2>1, <2>3, CorrelatedSame, Zenon
  <2> QED BY <2>1, <2>2, <2>4
<1>3. Sound(rs', q)
  <2>1. rs'.status # "OK"
    BY <1>2 DEF ErrorCodes
  <2>2. Consistent(rs', q)
    BY <1>1, <1>2, <2>1, ConsistentKeeps
  <2>3. Complete(rs', q)
    BY <1>1, <1>2, Zenon DEF Sound, Complete, IsStarted
  <2> QED BY <2>2, <2>3 DEF Sound
<1>4. OthersTyped
  BY ConstantsAssumption DEF OthersTyped, IInv, TypeOK, Disrupt, NoDisruption
<1> QED BY <1>2, <1>3, <1>4, RemoteStep DEF IInv, TypeOK, ResultsCommitted

LEMMA ServerEndsKeeps ==
  ASSUME IInv, "OK" \notin ServerStatuses,
         ServerRefuses \/ (\E code \in ServerStatuses : ServerEndsCall(code))
  PROVE  IInv'
<1>1. CASE ServerRefuses
  <2>1. rs.requests \in Seq(Requests) /\ rs.requests # <<>>
    BY <1>1, CurrentFacts DEF ServerRefuses, Remotes
  <2>2. Head(rs.requests) \in Requests
    BY <2>1, HeadTailProperties
  <2>3. refused' \subseteq Writes
    BY <1>1, <2>2 DEF ServerRefuses, Requests, IInv, TypeOK
  <2> QED BY <1>1, <2>3, StatusKeeps
          DEF ServerRefuses, durableVars, historyVars, ErrorCodes, IInv, TypeOK
<1>2. ASSUME NEW code \in ServerStatuses, ServerEndsCall(code) PROVE IInv'
  <2>1. code \in ErrorCodes
    BY ConstantsAssumption
  <2>2. refused' \subseteq Writes
    BY <1>2 DEF ServerEndsCall, serverVars, IInv, TypeOK
  <2> QED BY <1>2, <2>1, <2>2, StatusKeeps
          DEF ServerEndsCall, durableVars, serverVars, historyVars
<1> QED BY <1>1, <1>2

\* The backend moves the first request of the call to the end of the responses.
LEMMA ServerAnswersKeeps ==
  ASSUME IInv, ServerAnswers
  PROVE  IInv'
<1> DEFINE q == queue[currentUser]
           w == Head(rs.requests).write
           k == Len(rs.responses)
<1>1. /\ rs \in Remotes /\ Consistent(rs, q) /\ Sound(rs, q) /\ IsOpen(rs)
      /\ rs.requests \in Seq(Requests) /\ rs.requests # <<>>
      /\ rs.responses \in Seq(Writes \cup {Handshake})
  BY CurrentFacts DEF ServerAnswers, Remotes
<1>2. /\ Head(rs.requests) = rs.requests[1]
      /\ w \in Writes \cup {Handshake}
      /\ Len(rs.requests) \in Nat /\ Len(rs.requests) >= 1 /\ k \in Nat
  <2>1. Head(rs.requests) = rs.requests[1] /\ Len(rs.requests) \in Nat
        /\ Len(rs.requests) >= 1 /\ k \in Nat
    BY <1>1
  <2>2. Head(rs.requests) \in Requests
    BY <1>1, HeadTailProperties
  <2>3. w \in Writes \cup {Handshake}
    BY <2>2 DEF Requests
  <2> QED BY <2>1, <2>3
<1>3. /\ Tail(rs.requests) \in Seq(Requests)
      /\ Len(Tail(rs.requests)) = Len(rs.requests) - 1
      /\ \A i \in 1 .. Len(Tail(rs.requests)) : Tail(rs.requests)[i] = rs.requests[i + 1]
  BY <1>1, HeadTailProperties
<1>4. /\ Append(rs.responses, w) \in Seq(Writes \cup {Handshake})
      /\ Len(Append(rs.responses, w)) = k + 1
      /\ \A i \in 1 .. k : Append(rs.responses, w)[i] = rs.responses[i]
      /\ Append(rs.responses, w)[k + 1] = w
  BY <1>1, <1>2, AppendProperties
<1>5. /\ rs' \in Remotes /\ rs'.state = rs.state /\ rs'.enabled = rs.enabled
      /\ rs'.pipeline = rs.pipeline /\ rs'.handshake = rs.handshake
      /\ rs'.idle = rs.idle /\ rs'.requests = Tail(rs.requests)
      /\ rs'.responses = Append(rs.responses, w) /\ rs'.status = rs.status
      /\ rs'.fault = rs.fault
  BY <1>1, <1>3, <1>4 DEF ServerAnswers, Remotes
<1>6. Correlated(rs)
  BY <1>1 DEF Consistent
<1> DEFINE p == rs.pipeline
<1> HIDE DEF w, k
<1>7. Correlated(rs') /\ IsOpen(rs') /\ (rs.handshake => w = rs.pipeline[k + 1].write)
  <2>1. IsOpen(rs')
    BY <1>1, <1>5 DEF IsOpen
  <2>2. ASSUME rs.handshake
        PROVE Correlated(rs') /\ w = rs.pipeline[k + 1].write
    <3>1. /\ k + Len(rs.requests) = Len(rs.pipeline)
          /\ \A i \in 1 .. k : rs.responses[i] = rs.pipeline[i].write
          /\ \A i \in 1 .. Len(rs.requests) :
               rs.requests[i].write = rs.pipeline[k + i].write
      BY <1>6, <2>2 DEF Correlated, k
    <3>2. w = rs.pipeline[k + 1].write
      BY <1>2, <3>1 DEF w
    <3>3. \A i \in 1 .. k + 1 : Append(rs.responses, w)[i] = rs.pipeline[i].write
      BY <1>2, <1>4, <3>1, <3>2
    <3>4. ASSUME NEW i \in 1 .. Len(Tail(rs.requests))
          PROVE  Tail(rs.requests)[i].write = rs.pipeline[(k + 1) + i].write
      <4>1. i + 1 \in 1 .. Len(rs.requests) /\ k + (i + 1) = (k + 1) + i
        BY <1>2, <1>3
      <4>2. Tail(rs.requests)[i].write = rs.requests[i + 1].write
        BY <1>3
      <4>3. rs.requests[i + 1].write = rs.pipeline[k + (i + 1)].write
        BY <3>1, <4>1
      <4> QED BY <4>1, <4>2, <4>3
    <3>5. (k + 1) + Len(Tail(rs.requests)) = Len(rs.pipeline)
      <4> DEFINE l == Len(rs.requests)
      <4>1. k \in Nat /\ l \in Nat /\ k + l = Len(rs.pipeline)
            /\ Len(Tail(rs.requests)) = l - 1
        BY <1>2, <1>3, <3>1
      <4> HIDE DEF l
      <4>2. (k + 1) + (l - 1) = k + l
        BY <4>1
      <4> QED BY <4>1, <4>2
    <3>6. /\ rs'.handshake /\ Len(rs'.responses) = k + 1
          /\ rs'.responses = Append(rs.responses, w)
          /\ rs'.requests = Tail(rs.requests) /\ rs'.pipeline = rs.pipeline
      BY <1>4, <1>5, <2>2
    <3>7. Correlated(rs')
      BY <3>3, <3>4, <3>5, <3>6, Zenon DEF Correlated
    <3> QED BY <3>2, <3>7
  <2>3. ASSUME ~rs.handshake PROVE Correlated(rs')
    <3>1. /\ k + Len(rs.requests) = 1
          /\ \A i \in 1 .. Len(rs.requests) : rs.requests[i].write = Handshake
      BY <1>6, <2>3 DEF Correlated, k
    <3>2. Len(rs.requests) = 1 /\ k = 0
      <4> DEFINE l == Len(rs.requests)
      <4>1. k \in Nat /\ l \in Nat /\ l >= 1 /\ k + l = 1
        BY <1>2, <3>1
      <4> HIDE DEF l
      <4>2. l = 1 /\ k = 0
        BY <4>1
      <4> QED BY <4>2 DEF l
    <3>3. Len(Tail(rs.requests)) = 0 /\ w = Handshake
      BY <1>2, <1>3, <3>1, <3>2 DEF w
    <3>4. \A i \in 1 .. 1 : Append(rs.responses, w)[i] = Handshake
      BY <1>4, <3>2, <3>3
    <3>5. ~rs'.handshake /\ rs'.responses = Append(rs.responses, w)
          /\ Len(rs'.responses) = 1 /\ rs'.requests = Tail(rs.requests)
      BY <1>4, <1>5, <2>3, <3>2
    <3> QED BY <3>3, <3>4, <3>5 DEF Correlated
  <2> QED BY <2>1, <2>2, <2>3
<1>8. Sound(rs', q)
  BY <1>1, <1>5, <1>7 DEF Sound, Consistent, Complete, IsStarted
<1>9. /\ committed' = IF w = Handshake THEN committed ELSE committed \cup {w}
      /\ committed \subseteq committed' /\ committed' \subseteq Writes
  BY <1>2 DEF ServerAnswers, IInv, TypeOK, w
<1>10. ASSUME rs'.handshake, NEW i \in 1 .. Len(rs'.responses)
       PROVE  rs'.responses[i] \in committed'
  <2>1. CASE i \in 1 .. k
    BY <1>4, <1>5, <1>9, <1>10, <2>1 DEF IInv, ResultsCommitted, k
  <2>2. CASE i = k + 1
    <3>1. rs.pipeline \in Seq(Batches) /\ k + 1 \in 1 .. Len(rs.pipeline)
      BY <1>1, <1>2, <1>5, <1>6, <1>10 DEF Correlated, Remotes, k
    <3>2. rs.pipeline[k + 1] \in Batches
      BY <3>1, ElementOfSeq
    <3>3. w \in Writes
      BY <1>5, <1>7, <1>10, <3>2 DEF Batches
    <3>4. w # Handshake
      BY <3>3, ConstantsAssumption DEF Writes, Handshake
    <3> QED BY <1>4, <1>5, <1>9, <2>2, <3>4
  <2> QED BY <1>2, <1>4, <1>5, <2>1, <2>2
<1>11. OthersTyped
  BY OthersKept DEF ServerAnswers, durableVars, historyVars
<1> QED BY <1>8, <1>9, <1>10, <1>11, RemoteStep
        DEF ServerAnswers, durableVars, historyVars

\* The handshake is answered: the whole pipeline goes on the call.
LEMMA ReceiveHandshakeKeeps ==
  ASSUME IInv, ReceiveHandshake
  PROVE  IInv'
<1> DEFINE q == queue[currentUser]
           r == [rs EXCEPT !.responses = Tail(@), !.handshake = TRUE,
                           !.token = currentUser]
           more == MutationRequests(r, r.pipeline)
<1>1. /\ rs \in Remotes /\ Consistent(rs, q) /\ Sound(rs, q) /\ IsOpen(rs)
      /\ rs.requests \in Seq(Requests) /\ ~rs.handshake
      /\ rs.responses \in Seq(Writes \cup {Handshake}) /\ rs.responses # <<>>
      /\ rs.pipeline \in Seq(Batches) /\ rs.pipeline # <<>> /\ currentUser \in Users
  BY CurrentFacts DEF ReceiveHandshake, Remotes, Consistent, IsStarted, IsOpen
<1>2. /\ Len(rs.requests) = 0 /\ rs.requests = <<>>
      /\ Tail(rs.responses) \in Seq(Writes \cup {Handshake})
      /\ Len(Tail(rs.responses)) = 0
  <2> DEFINE k == Len(rs.responses)
             l == Len(rs.requests)
  <2>1. k \in Nat /\ k >= 1 /\ l \in Nat
    BY <1>1
  <2>2. k + l = 1
    BY <1>1 DEF Consistent, Correlated
  <2>3. Tail(rs.responses) \in Seq(Writes \cup {Handshake})
        /\ Len(Tail(rs.responses)) = k - 1
    BY <1>1, HeadTailProperties
  <2> HIDE DEF k, l
  <2>4. k = 1 /\ l = 0
    BY <2>1, <2>2
  <2>5. rs.requests = <<>>
    BY <1>1, <2>4 DEF l
  <2> QED BY <2>3, <2>4, <2>5 DEF l
<1>3. /\ r \in Remotes /\ r.state = rs.state /\ r.enabled = rs.enabled
      /\ r.pipeline = rs.pipeline /\ r.handshake = TRUE
      /\ r.idle = rs.idle /\ r.requests = rs.requests
      /\ r.responses = Tail(rs.responses) /\ r.status = rs.status /\ r.fault = rs.fault
  BY <1>1, <1>2 DEF Remotes, Tokens
<1>4. rs' = Send(r, more)
  BY DEF ReceiveHandshake
<1> HIDE DEF r
<1>5. /\ more \in Seq(Requests) /\ Len(more) = Len(rs.pipeline)
      /\ \A i \in 1 .. Len(more) : more[i].write = rs.pipeline[i].write
  BY <1>1, <1>3, MutationRequestsOf
<1> HIDE DEF more
<1>6. /\ rs' \in Remotes /\ rs'.state = r.state /\ rs'.enabled = r.enabled
      /\ rs'.pipeline = r.pipeline /\ rs'.handshake = r.handshake
      /\ rs'.idle = IF more = <<>> THEN r.idle ELSE FALSE
      /\ rs'.requests = r.requests \o more /\ rs'.responses = r.responses
      /\ rs'.status = r.status /\ rs'.fault = r.fault
  BY <1>3, <1>4, <1>5, SendFields
<1>7. more # <<>> /\ <<>> \o more = more /\ Len(more) \in Nat
  BY <1>1, <1>5, ConcatEmptySeq
<1>8. /\ rs'.state = rs.state /\ rs'.enabled = rs.enabled /\ rs'.pipeline = rs.pipeline
      /\ rs'.handshake = TRUE /\ rs'.idle = FALSE /\ rs'.requests = more
      /\ Len(rs'.responses) = 0 /\ rs'.status = rs.status /\ rs'.fault = rs.fault
  BY <1>2, <1>3, <1>6, <1>7
<1>9. Correlated(rs')
  <2>1. 0 + Len(more) = Len(rs.pipeline)
        /\ \A i \in 1 .. Len(more) : more[i].write = rs.pipeline[0 + i].write
    BY <1>5, <1>7
  <2> QED BY <1>8, <2>1 DEF Correlated
<1>10. Sound(rs', q)
  BY <1>1, <1>6, <1>8, <1>9 DEF Sound, Consistent, Complete, IsStarted, IsOpen
<1>11. OthersTyped
  BY <1>1, ConstantsAssumption
     DEF ReceiveHandshake, OthersTyped, IInv, TypeOK, NoDisruption, serverVars,
         historyVars, Tokens
<1> QED BY <1>8, <1>10, <1>11, RemoteStep
        DEF ReceiveHandshake, serverVars, historyVars, IInv, TypeOK

-----------------------------------------------------------------------------
(* A user change and a restart: another queue.                              *)

LEMMA CredentialChangeKeeps ==
  ASSUME IInv, NEW u \in Users, HandleCredentialChange(u)
  PROVE  IInv'
<1>1. /\ rs \in Remotes /\ Consistent(rs, queue[currentUser])
      /\ queue[u] \in Seq(Batches) /\ Increasing(queue[u]) /\ storedToken[u] \in Tokens
  BY CurrentFacts DEF IInv, TypeOK
<1>2. /\ UNCHANGED <<callbacks, queue, storedToken, committed, refused, issued, author,
                     fate, told, waited>>
      /\ currentUser' = u /\ Disrupt /\ (Linger(rs) \/ UNCHANGED lingering)
  BY DEF HandleCredentialChange, durableVars, serverVars, historyVars
<1>3. Sound(rs', queue[u]) /\ (rs'.handshake => FALSE)
  <2>1. CASE rs.enabled
    <3>1. rs' = RestartNetwork(rs, storedToken[u], queue[u])
      BY <2>1 DEF HandleCredentialChange
    <3> QED BY <1>1, <3>1, RestartSound
  <2>2. CASE ~rs.enabled
    <3>1. Off(rs) /\ rs' = rs
      BY <1>1, <2>2 DEF HandleCredentialChange, Off, Consistent, IsStarted, IsOpen
    <3> QED BY <1>1, <3>1, OffConsistent DEF Off, Quiet
  <2> QED BY <2>1, <2>2
<1>4. /\ nextBatchId' \in Nat /\ nextBatchId' <= issued + 1
      /\ \A i \in 1 .. Len(queue[u]) : queue[u][i].id < nextBatchId'
  <2>1. issued \in Nat
    BY ConstantsAssumption DEF IInv, TypeOK
  <2>2. CASE u # currentUser
    <3>1. nextBatchId' = LoadNextBatchId(queue)
      BY <2>2 DEF HandleCredentialChange, StartMutationQueue
    <3>2. queue \in [Users -> Seq(Batches)]
          /\ \A v \in Users : \A i \in 1 .. Len(queue[v]) : queue[v][i].id <= issued
      BY DEF IInv, TypeOK, IdsBounded
    <3>3. /\ LoadNextBatchId(queue) \in Nat /\ LoadNextBatchId(queue) <= issued + 1
          /\ \A v \in Users : \A i \in 1 .. Len(queue[v]) :
               queue[v][i].id < LoadNextBatchId(queue)
      BY <2>1, <3>2, NextBatchIdAbove
    <3> QED BY <3>1, <3>3
  <2>3. CASE u = currentUser
    BY <2>3 DEF HandleCredentialChange, IInv, TypeOK, IdsBounded
  <2> QED BY <2>2, <2>3
<1>5. OthersTyped
  <2>1. waits' \subseteq [id : Nat, upTo : Writes]
    BY DEF HandleCredentialChange, FailOutstandingPendingWriteCallbacks, IInv, TypeOK
  <2>2. lingering' \subseteq Seq(Writes \cup {Handshake}) \ {<<>>}
        /\ disruptions' \in 0 .. MaxDisruptions
    BY <1>2, DisruptionsTyped, LingeringTyped DEF IInv
  <2> QED BY <1>2, <2>1, <2>2 DEF OthersTyped, IInv, TypeOK
<1>6. rs' \in Remotes
  BY <1>3 DEF Sound, Consistent
<1>7. TypeOK'
  BY <1>2, <1>4, <1>5, <1>6 DEF IInv, TypeOK, OthersTyped
<1>8. IdsBounded' /\ (\A v \in Users : Increasing(queue[v]))' /\ CallbacksMatchQueue'
  BY <1>2, <1>4 DEF IInv, IdsBounded, CallbacksMatchQueue
<1>9. Sound(rs, queue[currentUser])'
  BY <1>2, <1>3
<1>10. ResultsCommitted' /\ SuccessMeansCommitted'
  BY <1>2, <1>3 DEF IInv, ResultsCommitted, SuccessMeansCommitted
<1> QED BY <1>7, <1>8, <1>9, <1>10 DEF IInv

\* A new process over the queues of the old one, of which at most the first batch
\* of the current user has gone.
LEMMA RestartedKeeps ==
  ASSUME IInv, NEW u \in Users, NEW left \in [Users -> Seq(Batches)],
         Restarted(u, left), queue' = left,
         \A v \in Users : Increasing(left[v]),
         \A v \in Users : \A i \in 1 .. Len(left[v]) : left[v][i].id <= issued,
         UNCHANGED <<storedToken, committed, refused, issued, author>>,
         waited' \subseteq Writes,
         fate' \in [Writes -> {"None", "Queued", "Acked", "Rejected"}],
         told' \in [Writes -> {"Nothing", "Ok", "Error"}],
         SuccessMeansCommitted'
  PROVE  IInv'
<1>1. /\ left[u] \in Seq(Batches) /\ Increasing(left[u]) /\ storedToken[u] \in Tokens
      /\ issued \in Nat
  BY ConstantsAssumption DEF IInv, TypeOK
<1>2. Sound(rs', left[u]) /\ rs'.handshake = FALSE
  BY <1>1, NewRemoteSound DEF Restarted
<1>3. /\ LoadNextBatchId(left) \in Nat /\ LoadNextBatchId(left) <= issued + 1
      /\ \A v \in Users : \A i \in 1 .. Len(left[v]) :
           left[v][i].id < LoadNextBatchId(left)
  BY <1>1, NextBatchIdAbove
<1>4. nextBatchId' = LoadNextBatchId(left) /\ currentUser' = u
      /\ waits' = {} /\ callbacks' = [v \in Users |-> {}]
  BY DEF Restarted, StartMutationQueue
<1>5. lingering' \subseteq Seq(Writes \cup {Handshake}) \ {<<>>}
      /\ disruptions' \in 0 .. MaxDisruptions
  BY DisruptionsTyped, LingeringTyped DEF IInv, Restarted
<1>6. rs' \in Remotes
  BY <1>2 DEF Sound, Consistent
<1>7. TypeOK'
  BY <1>3, <1>4, <1>5, <1>6 DEF IInv, TypeOK
<1>8. IdsBounded' /\ (\A v \in Users : Increasing(queue[v]))'
  BY <1>3, <1>4 DEF IdsBounded
<1>9. CallbacksMatchQueue' /\ Sound(rs, queue[currentUser])' /\ ResultsCommitted'
  BY <1>2, <1>4 DEF CallbacksMatchQueue, ResultsCommitted
<1> QED BY <1>7, <1>8, <1>9 DEF IInv

LEMMA CrashKeeps ==
  ASSUME IInv, NEW u \in Users, Crash(u)
  PROVE  IInv'
<1>1. UNCHANGED <<queue, storedToken, committed, refused, issued, author, fate, told,
                  waited>>
  BY DEF Crash, durableVars, serverVars, historyVars
<1>2. SuccessMeansCommitted'
  BY <1>1 DEF IInv, SuccessMeansCommitted
<1> QED BY <1>1, <1>2, RestartedKeeps DEF Crash, IInv, TypeOK, IdsBounded

-----------------------------------------------------------------------------
(* The first write of the pipeline: the one a result or an error is about.  *)

\* It is the first of the queue, its callback can only be its own, and the result
\* at hand is of its commit.
LEMMA FrontFacts ==
  ASSUME IInv, rs.pipeline # <<>>
  PROVE  LET q == queue[currentUser]
             batch == Head(rs.pipeline)
         IN  /\ q # <<>> /\ batch = q[1] /\ batch \in Batches
             /\ \A b \in callbacks[currentUser] : b.id = batch.id => b = batch
             /\ IsOpen(rs) /\ rs.handshake /\ rs.responses # <<>> =>
                  rs.responses[1] = batch.write /\ batch.write \in committed
<1> DEFINE q == queue[currentUser]
           batch == Head(rs.pipeline)
<1>1. /\ rs \in Remotes /\ Consistent(rs, q) /\ q \in Seq(Batches) /\ Increasing(q)
      /\ rs.pipeline \in Seq(Batches) /\ currentUser \in Users
  BY CurrentFacts DEF Remotes
<1>2. Len(rs.pipeline) \in Nat /\ Len(rs.pipeline) >= 1 /\ Len(q) \in Nat
      /\ batch = rs.pipeline[1]
  BY <1>1
<1>3. q # <<>> /\ 1 \in 1 .. Len(q) /\ batch = q[1] /\ batch \in Batches
  <2>1. Len(q) >= 1 /\ rs.pipeline[1] = q[1]
    BY <1>1, <1>2 DEF Consistent, IsFront
  <2>2. 1 \in 1 .. Len(q)
    BY <1>2, <2>1
  <2>3. q[1] \in Batches
    BY <1>1, <2>2, ElementOfSeq
  <2>4. Len(<<>>) = 0
    OBVIOUS
  <2> QED BY <1>2, <2>1, <2>2, <2>3, <2>4
<1>4. ASSUME NEW b \in callbacks[currentUser], b.id = batch.id PROVE b = batch
  <2>1. b \in Range(q)
    BY <1>1 DEF IInv, CallbacksMatchQueue
  <2>2. PICK i \in 1 .. Len(q) : b = q[i]
    BY <1>1, <2>1, RangeEquality
  <2>3. q[1].id \in Nat
    BY <1>3 DEF Batches
  <2>4. ~(1 < i)
    BY <1>1, <1>3, <1>4, <2>2, <2>3 DEF Increasing
  <2> QED BY <1>2, <1>3, <2>2, <2>4
<1>5. ASSUME IsOpen(rs), rs.handshake, rs.responses # <<>>
      PROVE  rs.responses[1] = batch.write /\ batch.write \in committed
  <2>1. 1 \in 1 .. Len(rs.responses)
    BY <1>1, <1>5 DEF Remotes
  <2>2. rs.responses[1] = rs.pipeline[1].write
    BY <1>1, <1>5, <2>1 DEF Consistent, Correlated
  <2>3. rs.responses[1] \in committed
    BY <1>5, <2>1 DEF IInv, ResultsCommitted
  <2> QED BY <1>2, <2>2, <2>3
<1> QED BY <1>3, <1>4, <1>5

\* The queues without the first batch of the current user's.
LEMMA FrontRemoved ==
  ASSUME IInv, rs.pipeline # <<>>
  PROVE  LET q == queue[currentUser]
             left == [queue EXCEPT ![currentUser] =
                                     RemoveBatch(@, Head(rs.pipeline).id)]
         IN  /\ left \in [Users -> Seq(Batches)]
             /\ left[currentUser] = Tail(q)
             /\ RemoveBatch(q, Head(rs.pipeline).id) = Tail(q)
             /\ Tail(q) \in Seq(Batches) /\ Increasing(Tail(q))
             /\ \A u \in Users : Increasing(left[u])
             /\ \A u \in Users : \A i \in 1 .. Len(left[u]) : left[u][i].id <= issued
             /\ \A i \in 1 .. Len(Tail(q)) : Tail(q)[i].id < nextBatchId
             /\ \A u \in Users \ {currentUser} : left[u] = queue[u]
             /\ Queued(q, Head(rs.pipeline).id)
<1> DEFINE q == queue[currentUser]
           id == Head(rs.pipeline).id
           left == [queue EXCEPT ![currentUser] = RemoveBatch(@, id)]
<1>1. /\ q \in Seq(Batches) /\ Increasing(q) /\ q # <<>> /\ id = q[1].id
      /\ currentUser \in Users /\ queue \in [Users -> Seq(Batches)]
      /\ Len(q) \in Nat
  BY CurrentFacts, FrontFacts DEF IInv, TypeOK
<1>2. /\ RemoveBatch(q, id) = Tail(q) /\ Queued(q, id)
      /\ Tail(q) \in Seq(Batches) /\ Increasing(Tail(q))
      /\ Len(Tail(q)) = Len(q) - 1
      /\ \A i \in 1 .. Len(Tail(q)) : Tail(q)[i] = q[i + 1]
  BY <1>1, RemoveFront
<1>3. /\ left[currentUser] = Tail(q) /\ left \in [Users -> Seq(Batches)]
      /\ \A u \in Users \ {currentUser} : left[u] = queue[u]
  BY <1>1, <1>2
<1> HIDE DEF left, id
<1>4. \A u \in Users : Increasing(left[u])
  BY <1>2, <1>3 DEF IInv
<1>5. ASSUME NEW i \in 1 .. Len(Tail(q))
      PROVE  Tail(q)[i].id <= issued /\ Tail(q)[i].id < nextBatchId
  <2>1. i + 1 \in 1 .. Len(q) /\ Tail(q)[i] = q[i + 1]
    BY <1>1, <1>2
  <2> QED BY <1>1, <2>1 DEF IInv, IdsBounded
<1>6. \A u \in Users : \A i \in 1 .. Len(left[u]) : left[u][i].id <= issued
  BY <1>3, <1>5 DEF IInv, IdsBounded
<1> QED BY <1>2, <1>3, <1>4, <1>5, <1>6 DEF left, id

LEMMA CrashBeforeAcknowledgeKeeps ==
  ASSUME IInv, NEW u \in Users, CrashBeforeAcknowledge(u)
  PROVE  IInv'
<1> DEFINE batch == Head(rs.pipeline)
<1>1. UNCHANGED <<queue, storedToken, committed, refused, issued, author, fate>>
      /\ waited' \subseteq Writes
  <2>1. Resolved(batch.id) \subseteq Writes /\ waited \subseteq Writes
    BY DEF IInv, TypeOK, Resolved
  <2> QED BY <2>1 DEF CrashBeforeAcknowledge, durableVars, serverVars
<1>2. told' = [w \in Writes |->
                 IF \E b \in callbacks[currentUser] : b.id = batch.id /\ b.write = w
                 THEN "Ok" ELSE told[w]]
  BY DEF CrashBeforeAcknowledge, Told
<1>3. /\ \A b \in callbacks[currentUser] : b.id = batch.id => b = batch
      /\ batch.write \in committed
  BY FrontFacts DEF CrashBeforeAcknowledge, ResultReady
<1>4. told' \in [Writes -> {"Nothing", "Ok", "Error"}]
  BY <1>2 DEF IInv, TypeOK
<1>5. SuccessMeansCommitted'
  BY <1>1, <1>2, <1>3 DEF IInv, SuccessMeansCommitted
<1>6. Restarted(u, queue) /\ UNCHANGED durableVars /\ UNCHANGED <<issued, author>>
  BY DEF CrashBeforeAcknowledge
<1>7. /\ queue \in [Users -> Seq(Batches)] /\ \A v \in Users : Increasing(queue[v])
      /\ \A v \in Users : \A i \in 1 .. Len(queue[v]) : queue[v][i].id <= issued
      /\ fate' \in [Writes -> {"None", "Queued", "Acked", "Rejected"}]
  BY <1>1 DEF IInv, TypeOK, IdsBounded
<1> QED BY <1>1, <1>4, <1>5, <1>6, <1>7, RestartedKeeps

LEMMA CrashAfterRejectKeeps ==
  ASSUME IInv, NEW u \in Users, CrashAfterReject(u)
  PROVE  IInv'
<1> DEFINE batch == Head(rs.pipeline)
           left == [queue EXCEPT ![currentUser] = RemoveBatch(@, batch.id)]
<1>1. UNCHANGED <<storedToken, committed, refused, issued, author, waited>>
      /\ told' \in {told, Told(batch.id, "Error")}
  BY DEF CrashAfterReject, serverVars
<1>2. /\ queue' = left /\ Restarted(u, left)
      /\ fate' = [fate EXCEPT ![batch.write] = "Rejected"]
  BY DEF CrashAfterReject, RejectBatch
<1>3. /\ left \in [Users -> Seq(Batches)]
      /\ \A v \in Users : Increasing(left[v])
      /\ \A v \in Users : \A i \in 1 .. Len(left[v]) : left[v][i].id <= issued
  BY FrontRemoved DEF CrashAfterReject
<1>4. fate' \in [Writes -> {"None", "Queued", "Acked", "Rejected"}]
  BY <1>2 DEF IInv, TypeOK
<1>5. /\ told' \in [Writes -> {"Nothing", "Ok", "Error"}]
      /\ \A w \in Writes : told'[w] = told[w] \/ told'[w] = "Error"
  BY <1>1 DEF IInv, TypeOK, Told
<1>6. SuccessMeansCommitted'
  BY <1>1, <1>2, <1>5 DEF IInv, TypeOK, SuccessMeansCommitted
<1> HIDE DEF left
<1> QED BY <1>1, <1>2, <1>3, <1>4, <1>5, <1>6, RestartedKeeps DEF IInv, TypeOK

\* Settling the first write of the pipeline: its batch and its callback go.
LEMMA SettleStep ==
  ASSUME IInv, OthersTyped, rs.pipeline # <<>>,
         NEW result \in {"Ok", "Error"}, NEW end \in {"Acked", "Rejected"},
         NotifyUser(Head(rs.pipeline).id, result),
         queue' = [queue EXCEPT ![currentUser] = RemoveBatch(@, Head(rs.pipeline).id)],
         fate' = [fate EXCEPT ![Head(rs.pipeline).write] = end],
         result = "Ok" \/ end = "Acked" => Head(rs.pipeline).write \in committed,
         UNCHANGED <<currentUser, nextBatchId, committed, issued, author>>,
         Sound(rs', Tail(queue[currentUser])),
         rs'.handshake =>
           \A i \in 1 .. Len(rs'.responses) : rs'.responses[i] \in committed
  PROVE  IInv'
<1> DEFINE q == queue[currentUser]
           batch == Head(rs.pipeline)
<1>1. /\ q \in Seq(Batches) /\ Increasing(q) /\ q # <<>> /\ batch = q[1]
      /\ currentUser \in Users /\ batch \in Batches
      /\ \A b \in callbacks[currentUser] : b.id = batch.id => b = batch
  BY CurrentFacts, FrontFacts
<1>2. /\ queue' \in [Users -> Seq(Batches)]
      /\ queue'[currentUser] = Tail(q)
      /\ \A u \in Users : Increasing(queue'[u])
      /\ \A u \in Users : \A i \in 1 .. Len(queue'[u]) : queue'[u][i].id <= issued
      /\ \A i \in 1 .. Len(Tail(q)) : Tail(q)[i].id < nextBatchId
      /\ \A u \in Users \ {currentUser} : queue'[u] = queue[u]
  BY FrontRemoved
<1>3. /\ callbacks' \in [Users -> SUBSET Batches]
      /\ callbacks'[currentUser] = {b \in callbacks[currentUser] : b.id # batch.id}
      /\ \A u \in Users \ {currentUser} : callbacks'[u] = callbacks[u]
  BY <1>1 DEF NotifyUser, Told, IInv, TypeOK
<1>4. /\ told' \in [Writes -> {"Nothing", "Ok", "Error"}]
      /\ \A w \in Writes : told'[w] = told[w] \/ (told'[w] = result /\ w = batch.write)
  BY <1>1 DEF NotifyUser, Told, IInv, TypeOK
<1>5. CallbacksMatchQueue'
  <2>1. \A b \in Range(q) : b = q[1] \/ b \in Range(Tail(q))
    BY <1>1, RemoveFront
  <2>2. callbacks'[currentUser] \subseteq Range(queue'[currentUser])
    BY <1>1, <1>2, <1>3, <2>1 DEF IInv, CallbacksMatchQueue
  <2> QED BY <1>2, <1>3, <2>2 DEF IInv, CallbacksMatchQueue
<1>6. fate' \in [Writes -> {"None", "Queued", "Acked", "Rejected"}]
      /\ \A w \in Writes : fate'[w] = fate[w] \/ (fate'[w] = end /\ w = batch.write)
  BY DEF IInv, TypeOK
<1>7. SuccessMeansCommitted'
  BY <1>4, <1>6 DEF IInv, SuccessMeansCommitted
<1>8. rs' \in Remotes
  BY DEF Sound, Consistent
<1>9. TypeOK'
  BY <1>2, <1>3, <1>4, <1>6, <1>8 DEF IInv, TypeOK, OthersTyped
<1>10. IdsBounded' /\ Sound(rs, queue[currentUser])' /\ ResultsCommitted'
  BY <1>2 DEF IInv, IdsBounded, ResultsCommitted
<1> QED BY <1>2, <1>5, <1>7, <1>9, <1>10 DEF IInv

\* The front of a queue without its first batch is the front of the rest.
LEMMA TailIsFront ==
  ASSUME NEW q \in Seq(Batches), NEW p \in Seq(Batches), p # <<>>, IsFront(p, q)
  PROVE  /\ q # <<>> /\ IsFront(Tail(p), Tail(q)) /\ Tail(p) \in Seq(Batches)
         /\ Len(Tail(p)) = Len(p) - 1
         /\ \A i \in 1 .. Len(Tail(p)) : Tail(p)[i] = p[i + 1]
<1>1. Len(p) \in Nat /\ Len(p) >= 1 /\ Len(q) \in Nat /\ Len(p) <= Len(q) /\ q # <<>>
  BY DEF IsFront
<1>2. /\ Tail(p) \in Seq(Batches) /\ Len(Tail(p)) = Len(p) - 1
      /\ \A i \in 1 .. Len(Tail(p)) : Tail(p)[i] = p[i + 1]
  BY HeadTailProperties
<1>3. /\ Len(Tail(q)) = Len(q) - 1
      /\ \A i \in 1 .. Len(Tail(q)) : Tail(q)[i] = q[i + 1]
  BY <1>1, HeadTailProperties
<1>4. ASSUME NEW i \in 1 .. Len(Tail(p)) PROVE Tail(p)[i] = Tail(q)[i]
  <2>1. i + 1 \in 1 .. Len(p) /\ i \in 1 .. Len(Tail(q))
    BY <1>1, <1>2, <1>3
  <2> QED BY <1>2, <1>3, <2>1 DEF IsFront
<1>5. Len(Tail(p)) <= Len(Tail(q))
  BY <1>1, <1>2, <1>3
<1> QED BY <1>1, <1>2, <1>4, <1>5 DEF IsFront

\* Taking a result and the write it is about off the call keeps the correlation.
LEMMA PoppedConsistent ==
  ASSUME NEW q \in Seq(Batches), Consistent(rs, q), IsOpen(rs), rs.handshake,
         rs.responses # <<>>, NEW token \in Tokens, NEW r,
         r = [rs EXCEPT !.responses = Tail(@), !.token = token, !.pipeline = Tail(@)]
  PROVE  /\ Consistent(r, Tail(q)) /\ r.handshake = TRUE /\ rs.pipeline # <<>>
         /\ r.responses = Tail(rs.responses)
<1> DEFINE p == rs.pipeline
           k == Len(rs.responses)
           l == Len(rs.requests)
<1>1. /\ rs \in Remotes /\ p \in Seq(Batches) /\ IsFront(p, q) /\ k >= 1
      /\ rs.responses \in Seq(Writes \cup {Handshake}) /\ k \in Nat /\ l \in Nat
  BY DEF Consistent, Remotes
<1>2. /\ k + l = Len(p)
      /\ \A i \in 1 .. k : rs.responses[i] = p[i].write
      /\ \A i \in 1 .. l : rs.requests[i].write = p[k + i].write
  BY DEF Consistent, Correlated
<1>a. Len(p) \in Nat /\ p # <<>>
  <2>1. Len(p) \in Nat
    BY <1>1
  <2> HIDE DEF k, l
  <2>2. Len(p) >= 1
    BY <1>1, <1>2, <2>1
  <2>3. Len(<<>>) = 0
    OBVIOUS
  <2> QED BY <2>1, <2>2, <2>3
<1>3. /\ q # <<>> /\ IsFront(Tail(p), Tail(q)) /\ Tail(p) \in Seq(Batches)
      /\ Len(Tail(p)) = Len(p) - 1
      /\ \A i \in 1 .. Len(Tail(p)) : Tail(p)[i] = p[i + 1]
  BY <1>1, <1>a, TailIsFront
<1>4. /\ Tail(rs.responses) \in Seq(Writes \cup {Handshake})
      /\ Len(Tail(rs.responses)) = k - 1
      /\ \A i \in 1 .. Len(Tail(rs.responses)) : Tail(rs.responses)[i] = rs.responses[i + 1]
  BY <1>1, HeadTailProperties
<1>5. /\ r \in Remotes /\ r.state = rs.state /\ r.enabled = rs.enabled
      /\ r.pipeline = Tail(p) /\ r.handshake = rs.handshake /\ r.idle = rs.idle
      /\ r.requests = rs.requests /\ r.responses = Tail(rs.responses)
      /\ r.status = rs.status /\ r.fault = rs.fault
  BY <1>1, <1>3, <1>4 DEF Remotes
<1>6. r.handshake = TRUE
  BY <1>1, <1>5 DEF Remotes
<1> HIDE DEF p, k, l
<1>7. Correlated(r)
  <2>1. (k - 1) + l = Len(Tail(p))
    <3>1. (k - 1) + l = (k + l) - 1
      BY <1>1
    <3>2. Len(Tail(p)) = (k + l) - 1
      BY <1>2, <1>3
    <3> QED BY <3>1, <3>2
  <2>2. ASSUME NEW i \in 1 .. k - 1 PROVE Tail(rs.responses)[i] = Tail(p)[i].write
    <3>1. i + 1 \in 1 .. k /\ i \in 1 .. Len(Tail(p)) /\ i \in 1 .. Len(Tail(rs.responses))
      BY <1>1, <1>4, <2>1
    <3>2. Tail(rs.responses)[i] = rs.responses[i + 1] /\ Tail(p)[i] = p[i + 1]
      BY <1>3, <1>4, <3>1
    <3>3. rs.responses[i + 1] = p[i + 1].write
      BY <1>2, <3>1
    <3> QED BY <3>2, <3>3
  <2>3. ASSUME NEW i \in 1 .. l PROVE rs.requests[i].write = Tail(p)[(k - 1) + i].write
    <3> DEFINE n == Len(Tail(p))
    <3>0. k \in Nat /\ k >= 1 /\ l \in Nat /\ (k - 1) + l = n
      BY <1>1, <2>1
    <3> HIDE DEF n
    <3>a. (k - 1) + i \in 1 .. n /\ ((k - 1) + i) + 1 = k + i
      BY <2>3, <3>0
    <3>1. (k - 1) + i \in 1 .. Len(Tail(p)) /\ ((k - 1) + i) + 1 = k + i
      BY <3>a DEF n
    <3> QED BY <1>2, <1>3, <3>1
  <2>4. /\ Len(r.responses) = k - 1 /\ r.responses = Tail(rs.responses)
        /\ Len(r.requests) = l /\ r.requests = rs.requests /\ r.pipeline = Tail(p)
        /\ r.handshake
    BY <1>4, <1>5, <1>6 DEF l
  <2>5. Len(r.responses) + Len(r.requests) = Len(r.pipeline)
    BY <2>1, <2>4
  <2>6. \A i \in 1 .. Len(r.responses) : r.responses[i] = r.pipeline[i].write
    BY <2>2, <2>4
  <2>7. \A i \in 1 .. Len(r.requests) :
          r.requests[i].write = r.pipeline[Len(r.responses) + i].write
    BY <2>3, <2>4
  <2> QED BY <2>4, <2>5, <2>6, <2>7 DEF Correlated
<1>8. Len(r.pipeline) <= MaxPendingWrites /\ ~r.idle /\ rs.enabled /\ IsOpen(r)
  <2>1. Len(p) <= MaxPendingWrites /\ ~rs.idle /\ rs.enabled
    BY <1>a DEF Consistent, IsOpen, IsStarted, p
  <2>2. Len(Tail(p)) <= MaxPendingWrites
    BY <1>3, <1>a, <2>1, ConstantsAssumption
  <2> QED BY <1>5, <2>1, <2>2 DEF IsOpen
<1>9. Consistent(r, Tail(q))
  BY <1>3, <1>5, <1>6, <1>7, <1>8 DEF Consistent
<1> QED BY <1>5, <1>6, <1>9, <1>a DEF p

\* The waiters of the settled batch are resolved.
LEMMA TriggeredTyped ==
  ASSUME TypeOK, NEW id, TriggerPendingWriteCallbacks(id)
  PROVE  waits' \subseteq [id : Nat, upTo : Writes] /\ waited' \subseteq Writes
BY DEF TypeOK, TriggerPendingWriteCallbacks, Resolved

LEMMA ReceiveResultKeeps ==
  ASSUME IInv, ReceiveResult
  PROVE  IInv'
<1> DEFINE q == queue[currentUser]
           batch == Head(rs.pipeline)
           popped == [rs EXCEPT !.responses = Tail(@), !.token = currentUser,
                                !.pipeline = Tail(@)]
<1>1. /\ rs \in Remotes /\ Consistent(rs, q) /\ q \in Seq(Batches) /\ Increasing(q)
      /\ currentUser \in Users /\ currentUser \in Tokens
      /\ IsOpen(rs) /\ rs.handshake /\ rs.responses # <<>>
      /\ rs.responses \in Seq(Writes \cup {Handshake})
  BY CurrentFacts DEF ReceiveResult, ResultReady, Tokens, Remotes
<1> HIDE DEF popped
<1>2. /\ Consistent(popped, Tail(q)) /\ popped.handshake = TRUE
      /\ rs.pipeline # <<>> /\ popped.responses = Tail(rs.responses)
  BY <1>1, PoppedConsistent DEF popped
<1>3. /\ RemoveBatch(q, batch.id) = Tail(q) /\ Queued(q, batch.id)
      /\ Tail(q) \in Seq(Batches) /\ Increasing(Tail(q))
  BY <1>2, FrontRemoved
<1>4. rs' = FillWritePipeline(popped, Tail(q))
  <2>1. WithResult = [rs EXCEPT !.responses = Tail(@), !.token = currentUser]
    BY <1>2 DEF WithResult, HardAssert
  <2>2. [WithResult EXCEPT !.pipeline = Tail(@)] = popped
    BY <1>1, <2>1 DEF popped, Remotes
  <2>3. rs' = FillWritePipeline(
                HardAssert([WithResult EXCEPT !.pipeline = Tail(@)],
                           Queued(q, batch.id), "BatchDidNotExist"),
                RemoveBatch(q, batch.id))
    BY <1>2 DEF ReceiveResult
  <2> QED BY <1>3, <2>2, <2>3 DEF HardAssert
<1>5. Sound(rs', Tail(q)) /\ rs'.responses = Tail(rs.responses)
  BY <1>2, <1>3, <1>4, FillSound
<1>6. /\ NotifyUser(batch.id, "Ok") /\ TriggerPendingWriteCallbacks(batch.id)
      /\ AcknowledgeBatch(batch, currentUser)
      /\ UNCHANGED <<currentUser, nextBatchId, committed, refused, lingering, issued,
                     author, disruptions>>
  BY <1>2 DEF ReceiveResult, serverVars, NoDisruption
<1>7. OthersTyped
  <2>1. waits' \subseteq [id : Nat, upTo : Writes] /\ waited' \subseteq Writes
    BY <1>6, TriggeredTyped DEF IInv
  <2>2. storedToken' \in [Users -> Tokens]
    BY <1>1, <1>6 DEF AcknowledgeBatch, IInv, TypeOK
  <2> QED BY <1>6, <2>1, <2>2 DEF OthersTyped, IInv, TypeOK
<1>8. batch.write \in committed
  BY <1>1, <1>2, FrontFacts
<1>9. ASSUME NEW i \in 1 .. Len(rs'.responses) PROVE rs'.responses[i] \in committed
  <2>1. /\ Len(Tail(rs.responses)) = Len(rs.responses) - 1 /\ Len(rs.responses) \in Nat
        /\ \A j \in 1 .. Len(Tail(rs.responses)) :
             Tail(rs.responses)[j] = rs.responses[j + 1]
    BY <1>1, HeadTailProperties
  <2>2. i + 1 \in 1 .. Len(rs.responses) /\ rs'.responses[i] = rs.responses[i + 1]
    BY <1>5, <2>1
  <2> QED BY <1>1, <2>2 DEF IInv, ResultsCommitted
<1> QED BY <1>2, <1>5, <1>6, <1>7, <1>8, <1>9, SettleStep DEF AcknowledgeBatch

-----------------------------------------------------------------------------
(* The end of the call.                                                    *)

\* A closed stream of a full pipeline is restarted.
LEMMA ClosedSound ==
  ASSUME NEW q, Sound(rs, q), IsStarted(rs), NEW code \in ErrorCodes, NEW r \in Remotes,
         r.fault = "None", r.pipeline = rs.pipeline, r.enabled = rs.enabled,
         r.state = "Error", Quiet(r)
  PROVE  Sound(StartIfNeeded(r), q) /\ StartIfNeeded(r).handshake = r.handshake
<1>1. Consistent(r, q)
  BY DEF Sound, Consistent, IsOpen, IsStarted, Quiet
<1>2. r.enabled => Len(r.pipeline) = Min({MaxPendingWrites, Len(q)})
  BY DEF Sound, Complete
<1> QED BY <1>1, <1>2, StartIfNeededSound

\* FinishStream, when the write at the front is rejected.
LEMMA FrontRejectedKeeps ==
  ASSUME IInv, OthersTyped, IsStarted(rs), rs.pipeline # <<>>, NEW code \in ErrorCodes,
         FrontRejected(code),
         UNCHANGED <<currentUser, nextBatchId, committed, issued, author>>
  PROVE  IInv'
<1> DEFINE q == queue[currentUser]
           batch == Head(rs.pipeline)
           c == Closed(rs, code)
           tail == [c EXCEPT !.pipeline = Tail(@)]
           popped == [tail EXCEPT !.state = "Initial"]
<1>1. /\ rs \in Remotes /\ Consistent(rs, q) /\ q \in Seq(Batches) /\ Increasing(q)
      /\ rs.pipeline \in Seq(Batches) /\ IsFront(rs.pipeline, q) /\ rs.enabled
      /\ rs.fault = "None" /\ Len(rs.pipeline) <= MaxPendingWrites
  BY CurrentFacts DEF Remotes, Consistent
<1>2. /\ c \in Remotes /\ Quiet(c) /\ c.state = "Error"
      /\ c.enabled = rs.enabled /\ c.pipeline = rs.pipeline /\ c.fault = "None"
  <2>1. code # "OK"
    BY DEF ErrorCodes
  <2>2. /\ c \in Remotes /\ Quiet(c) /\ c.state = IF code = "OK" THEN "Initial" ELSE "Error"
        /\ c.enabled = rs.enabled /\ c.pipeline = rs.pipeline /\ c.fault = rs.fault
    BY <1>1, ClosedFields
  <2> HIDE DEF c
  <2> QED BY <1>1, <2>1, <2>2
<1> HIDE DEF c
<1>3. /\ IsFront(Tail(rs.pipeline), Tail(q)) /\ Tail(rs.pipeline) \in Seq(Batches)
      /\ Len(Tail(rs.pipeline)) = Len(rs.pipeline) - 1
  BY <1>1, TailIsFront
<1>4. /\ tail \in Remotes /\ Quiet(tail) /\ tail.state = "Error"
      /\ tail.enabled = rs.enabled /\ tail.pipeline = Tail(rs.pipeline)
      /\ tail.fault = "None"
  BY <1>2, <1>3 DEF Remotes, Quiet
<1> HIDE DEF tail
<1>5. /\ popped \in Remotes /\ Quiet(popped) /\ popped.state = "Initial"
      /\ popped.enabled = rs.enabled /\ popped.pipeline = Tail(rs.pipeline)
      /\ popped.fault = "None"
  BY <1>4 DEF Remotes, Quiet
<1>6. InhibitBackoff(tail) = popped
  BY <1>4 DEF InhibitBackoff, HardAssert, IsStarted
<1> HIDE DEF popped
<1>7. Consistent(popped, Tail(q))
  <2>1. Len(Tail(rs.pipeline)) <= MaxPendingWrites
    BY <1>1, <1>3, ConstantsAssumption
  <2> QED BY <1>1, <1>3, <1>5, <2>1 DEF Consistent, IsStarted, IsOpen, Quiet
<1>8. /\ RemoveBatch(q, batch.id) = Tail(q) /\ Queued(q, batch.id)
      /\ Tail(q) \in Seq(Batches) /\ Increasing(Tail(q))
  BY FrontRemoved
<1>9. rs' = StartIfNeeded(FillWritePipeline(popped, Tail(q)))
  BY <1>6, <1>8 DEF FrontRejected, HardAssert, c, tail
<1> DEFINE f == FillWritePipeline(popped, Tail(q))
<1>10. Sound(f, Tail(q)) /\ f.handshake = popped.handshake
  BY <1>7, <1>8, FillSound
<1> HIDE DEF f
<1>11. Sound(rs', Tail(q)) /\ rs'.handshake = popped.handshake
  BY <1>9, <1>10, StartIfNeededSound DEF Sound, Complete, f
<1> QED BY <1>5, <1>11, SettleStep DEF FrontRejected, RejectBatch, Quiet

\* Stream::OnStreamFinish with an error, before or after the handshake.
LEMMA FinishStreamKeeps ==
  ASSUME IInv, IsStarted(rs), NEW code \in ErrorCodes, FinishStream(code),
         Disrupt \/ NoDisruption
  PROVE  IInv'
<1> DEFINE q == queue[currentUser]
           c == Closed(rs, code)
<1>1. /\ rs \in Remotes /\ Sound(rs, q) /\ rs.fault = "None" /\ currentUser \in Users
      /\ code # "OK"
  BY CurrentFacts DEF Consistent, ErrorCodes
<1>2. /\ c \in Remotes /\ Quiet(c) /\ c.state = "Error"
      /\ c.enabled = rs.enabled /\ c.pipeline = rs.pipeline /\ c.fault = "None"
  BY <1>1, ClosedFields
<1> HIDE DEF c
<1>3. UNCHANGED <<currentUser, nextBatchId, committed, refused, issued, author>>
      /\ Linger(rs)
  BY DEF FinishStream, serverVars
<1>4. CASE ~rs.handshake
  <2> DEFINE reset == IsPermanentError(code) /\ rs.pipeline # <<>>
             r == IF reset THEN [c EXCEPT !.token = NoUser] ELSE c
  <2>1. HandshakeFailed(code)
    BY <1>1, <1>4 DEF FinishStream
  <2>2. rs' = StartIfNeeded(r)
    BY <2>1 DEF HandshakeFailed, c
  <2>3. /\ r \in Remotes /\ Quiet(r) /\ r.state = "Error"
        /\ r.enabled = rs.enabled /\ r.pipeline = rs.pipeline /\ r.fault = "None"
    <3>1. NoUser \in Tokens
      BY DEF Tokens
    <3> QED BY <1>2, <3>1 DEF Remotes, Quiet
  <2> HIDE DEF r
  <2>4. Sound(rs', q) /\ ~rs'.handshake
    BY <1>1, <2>2, <2>3, ClosedSound DEF Quiet
  <2>5. OthersTyped
    <3>1. storedToken' \in [Users -> Tokens]
      BY <1>1, <2>1 DEF HandshakeFailed, IInv, TypeOK, Tokens
    <3>2. UNCHANGED <<waits, waited>>
      BY <2>1 DEF HandshakeFailed
    <3> QED BY <1>3, <3>1, <3>2, DisruptionsTyped, LingeringTyped
            DEF OthersTyped, IInv, TypeOK
  <2> QED BY <1>3, <2>1, <2>4, <2>5, RemoteStep DEF HandshakeFailed, IInv, TypeOK
<1>5. CASE rs.handshake /\ IsPermanentWriteError(code) /\ rs.pipeline # <<>>
  <2>1. FrontRejected(code)
    BY <1>1, <1>5 DEF FinishStream
  <2>2. TriggerPendingWriteCallbacks(Head(rs.pipeline).id) /\ UNCHANGED storedToken
    BY <2>1 DEF FrontRejected
  <2>3. OthersTyped
    BY <1>3, <2>2, TriggeredTyped, DisruptionsTyped, LingeringTyped
       DEF OthersTyped, IInv, TypeOK
  <2> QED BY <1>3, <1>5, <2>1, <2>3, FrontRejectedKeeps
<1>6. CASE rs.handshake /\ ~(IsPermanentWriteError(code) /\ rs.pipeline # <<>>)
  <2>1. rs' = StartIfNeeded(c)
        /\ UNCHANGED <<callbacks, waits, told, waited, durableVars, fate>>
    BY <1>1, <1>6 DEF FinishStream, c
  <2>2. Sound(rs', q) /\ ~rs'.handshake
    BY <1>1, <1>2, <2>1, ClosedSound DEF Quiet
  <2>3. OthersTyped
    BY <1>3, <2>1, OthersKept DEF durableVars
  <2> QED BY <1>3, <2>1, <2>2, <2>3, RemoteStep DEF durableVars, IInv, TypeOK
<1> QED BY <1>4, <1>5, <1>6

-----------------------------------------------------------------------------
(* A new write.                                                            *)

\* A batch with a higher id at the end of a queue.
LEMMA AppendToQueue ==
  ASSUME NEW q \in Seq(Batches), Increasing(q), NEW b \in Batches,
         \A i \in 1 .. Len(q) : q[i].id < b.id
  PROVE  /\ Append(q, b) \in Seq(Batches) /\ Increasing(Append(q, b))
         /\ Len(Append(q, b)) = Len(q) + 1
         /\ \A i \in 1 .. Len(q) : Append(q, b)[i] = q[i]
         /\ Append(q, b)[Len(q) + 1] = b
         /\ \A p \in Seq(Batches) : IsFront(p, q) => IsFront(p, Append(q, b))
<1>1. /\ Append(q, b) \in Seq(Batches)
      /\ Len(Append(q, b)) = Len(q) + 1
      /\ \A i \in 1 .. Len(q) : Append(q, b)[i] = q[i]
      /\ Append(q, b)[Len(q) + 1] = b
  BY AppendProperties
<1>2. Len(q) \in Nat
  OBVIOUS
<1>3. ASSUME NEW i \in 1 .. Len(q) + 1, NEW j \in 1 .. Len(q) + 1, i < j
      PROVE  Append(q, b)[i].id < Append(q, b)[j].id
  <2>1. i \in 1 .. Len(q)
    BY <1>2, <1>3
  <2>2. CASE j \in 1 .. Len(q)
    BY <1>1, <1>3, <2>1, <2>2 DEF Increasing
  <2>3. CASE j = Len(q) + 1
    BY <1>1, <2>1, <2>3
  <2> QED BY <1>2, <2>2, <2>3
<1>4. Increasing(Append(q, b))
  BY <1>1, <1>3 DEF Increasing
<1>5. ASSUME NEW p \in Seq(Batches), IsFront(p, q) PROVE IsFront(p, Append(q, b))
  <2>1. Len(p) \in Nat /\ Len(p) <= Len(q)
    BY <1>5 DEF IsFront
  <2>2. Len(p) <= Len(q) + 1 /\ \A i \in 1 .. Len(p) : i \in 1 .. Len(q)
    BY <1>2, <2>1
  <2>3. \A i \in 1 .. Len(p) : p[i] = q[i]
    BY <1>5 DEF IsFront
  <2> QED BY <1>1, <2>2, <2>3 DEF IsFront
<1> QED BY <1>1, <1>4, <1>5

LEMMA WriteMutationsKeeps ==
  ASSUME IInv, WriteMutations
  PROVE  IInv'
<1> DEFINE q == queue[currentUser]
           w == issued + 1
           batch == [id |-> nextBatchId, write |-> w]
           longer == Append(q, batch)
<1>1. /\ currentUser \in Users /\ q \in Seq(Batches) /\ Increasing(q)
      /\ rs \in Remotes /\ Consistent(rs, q)
  BY CurrentFacts
<1>2. /\ issued \in Nat /\ w \in Nat /\ w \in Writes /\ w \in 0 .. MaxWrites
      /\ nextBatchId \in Nat /\ nextBatchId <= w
      /\ batch \in Batches /\ batch.id = nextBatchId
  BY ConstantsAssumption DEF WriteMutations, IInv, TypeOK, IdsBounded, Writes, Batches
<1>3. /\ issued' = w /\ author' = [author EXCEPT ![w] = currentUser]
      /\ queue' = [queue EXCEPT ![currentUser] = longer]
      /\ nextBatchId' = nextBatchId + 1
      /\ fate' = [fate EXCEPT ![w] = "Queued"]
      /\ callbacks' = [callbacks EXCEPT ![currentUser] = @ \cup {batch}]
      /\ rs' = FillWritePipeline(rs, longer)
      /\ UNCHANGED <<currentUser, waits, storedToken, committed, refused, lingering, told,
                     waited, disruptions>>
  BY DEF WriteMutations, WriteLocally, serverVars, NoDisruption
<1> HIDE DEF batch, w
<1>4. /\ longer \in Seq(Batches) /\ Increasing(longer) /\ Len(longer) = Len(q) + 1
      /\ \A i \in 1 .. Len(q) : longer[i] = q[i]
      /\ longer[Len(q) + 1] = batch
      /\ IsFront(rs.pipeline, longer)
  BY <1>1, <1>2, AppendToQueue DEF IInv, IdsBounded, Consistent, Remotes
<1> HIDE DEF longer
<1>5. Consistent(rs, longer)
  BY <1>1, <1>4 DEF Consistent
<1>6. Sound(rs', longer) /\ rs'.responses = rs.responses /\ rs'.handshake = rs.handshake
  BY <1>3, <1>4, <1>5, FillSound
<1>7. rs' \in Remotes
  BY <1>6 DEF Sound, Consistent
<1>8. /\ queue' \in [Users -> Seq(Batches)] /\ queue'[currentUser] = longer
      /\ \A u \in Users \ {currentUser} : queue'[u] = queue[u]
  BY <1>1, <1>3, <1>4 DEF IInv, TypeOK
<1>9. /\ callbacks' \in [Users -> SUBSET Batches]
      /\ callbacks'[currentUser] = callbacks[currentUser] \cup {batch}
      /\ \A u \in Users \ {currentUser} : callbacks'[u] = callbacks[u]
  BY <1>1, <1>2, <1>3 DEF IInv, TypeOK
<1>10. author' \in [Writes -> Tokens]
       /\ fate' \in [Writes -> {"None", "Queued", "Acked", "Rejected"}]
  BY <1>1, <1>3 DEF IInv, TypeOK, Tokens
<1>11. TypeOK'
  BY <1>2, <1>3, <1>7, <1>8, <1>9, <1>10 DEF IInv, TypeOK
<1>12. CallbacksMatchQueue'
  <2>1. Len(q) \in Nat
    BY <1>1
  <2>2. \A b \in Range(q) : b \in Range(longer)
    <3> TAKE b \in Range(q)
    <3>1. PICK i \in 1 .. Len(q) : b = q[i]
      BY <1>1, RangeEquality
    <3>2. i \in 1 .. Len(longer) /\ b = longer[i]
      BY <1>4, <2>1, <3>1
    <3> QED BY <1>4, <3>2, RangeEquality
  <2>3. batch \in Range(longer)
    <3>1. Len(longer) \in 1 .. Len(longer) /\ longer[Len(longer)] = batch
      BY <1>4, <2>1
    <3> QED BY <1>4, <3>1, RangeEquality
  <2>4. callbacks'[currentUser] \subseteq Range(queue'[currentUser])
    BY <1>1, <1>8, <1>9, <2>2, <2>3 DEF IInv, CallbacksMatchQueue
  <2> QED BY <1>8, <1>9, <2>4 DEF IInv, CallbacksMatchQueue
<1>13. IdsBounded'
  <2>1. nextBatchId' <= issued' + 1
    BY <1>2, <1>3
  <2>2. ASSUME NEW i \in 1 .. Len(longer)
        PROVE  longer[i].id <= issued' /\ longer[i].id < nextBatchId'
    <3>1. CASE i \in 1 .. Len(q)
      <4>a. q[i] \in Batches
        BY <1>1, <3>1, ElementOfSeq
      <4>1. q[i].id \in Nat
        BY <4>a DEF Batches
      <4>2. q[i].id <= issued /\ q[i].id < nextBatchId
        BY <1>1, <3>1 DEF IInv, IdsBounded
      <4>3. longer[i] = q[i]
        BY <1>4, <3>1
      <4>4. issued' = issued + 1 /\ nextBatchId' = nextBatchId + 1
            /\ issued \in Nat /\ nextBatchId \in Nat
        BY <1>2, <1>3 DEF w
      <4> HIDE DEF longer
      <4> QED BY <4>1, <4>2, <4>3, <4>4
    <3>2. CASE i = Len(q) + 1
      BY <1>2, <1>3, <1>4, <3>2
    <3>3. Len(q) \in Nat
      BY <1>1
    <3> QED BY <1>4, <3>1, <3>2, <3>3
  <2>3. ASSUME NEW u \in Users \ {currentUser}, NEW i \in 1 .. Len(queue[u])
        PROVE  queue[u][i].id <= issued'
    <3>1. queue[u] \in Seq(Batches)
      BY DEF IInv, TypeOK
    <3>2. queue[u][i] \in Batches
      BY <3>1, ElementOfSeq
    <3>3. queue[u][i].id \in Nat /\ queue[u][i].id <= issued
      BY <3>2 DEF Batches, IInv, IdsBounded
    <3> QED BY <1>2, <1>3, <3>3 DEF w
  <2> QED BY <1>1, <1>3, <1>8, <2>1, <2>2, <2>3 DEF IdsBounded
<1>14. (\A u \in Users : Increasing(queue[u]))' /\ Sound(rs, queue[currentUser])'
  BY <1>3, <1>4, <1>6, <1>8 DEF IInv
<1>15. ResultsCommitted' /\ SuccessMeansCommitted'
  BY <1>3, <1>6 DEF IInv, TypeOK, ResultsCommitted, SuccessMeansCommitted
<1> QED BY <1>11, <1>12, <1>13, <1>14, <1>15 DEF IInv

-----------------------------------------------------------------------------
(* The inductive invariant.                                                *)

LEMMA InitIInv ==
  ASSUME Init
  PROVE  IInv
<1>1. /\ <<>> \in Seq(Batches) /\ Increasing(<<>>) /\ Len(<<>>) = 0
      /\ NoUser \in Tokens
  BY DEF Increasing, Tokens
<1>2. Sound(rs, <<>>) /\ rs.handshake = FALSE
  BY <1>1, NewRemoteSound DEF Init
<1>3. rs \in Remotes
  BY <1>2 DEF Sound, Consistent
<1>4. TypeOK
  BY <1>1, <1>3, ConstantsAssumption DEF Init, TypeOK
<1>5. (\A u \in Users : Increasing(queue[u])) /\ IdsBounded /\ CallbacksMatchQueue
  BY <1>1 DEF Init, IdsBounded, CallbacksMatchQueue
<1>6. Sound(rs, queue[currentUser]) /\ ResultsCommitted /\ SuccessMeansCommitted
  BY <1>2 DEF Init, ResultsCommitted, SuccessMeansCommitted
<1> QED BY <1>4, <1>5, <1>6 DEF IInv

\* Every step of the write path keeps the inductive invariant.
LEMMA NextIInv ==
  ASSUME "OK" \notin ServerStatuses, IInv, [Next]_vars
  PROVE  IInv'
<1>1. CASE UNCHANGED vars
  BY <1>1 DEF vars, clientVars, durableVars, serverVars, historyVars, IInv, TypeOK,
              IdsBounded, CallbacksMatchQueue, ResultsCommitted, SuccessMeansCommitted
<1>2. CASE WriteMutations
  BY <1>2, WriteMutationsKeeps
<1>3. CASE WaitForPendingWrites \/ \E s \in lingering : LingeringCallEnds(s)
  BY <1>3, UnchangedRemoteKeeps
<1>4. CASE EnableNetwork
  BY <1>4, EnableNetworkKeeps
<1>5. CASE DisableNetwork
  BY <1>5, DisableNetworkKeeps
<1>6. CASE ConnectivityChange
  BY <1>6, ConnectivityChangeKeeps
<1>7. CASE \E u \in Users : HandleCredentialChange(u)
  BY <1>7, CredentialChangeKeeps
<1>8. CASE \E u \in Users : Crash(u)
  BY <1>8, CrashKeeps
<1>9. CASE \E u \in Users : CrashBeforeAcknowledge(u)
  BY <1>9, CrashBeforeAcknowledgeKeeps
<1>10. CASE \E u \in Users : CrashAfterReject(u)
  BY <1>10, CrashAfterRejectKeeps
<1>11. CASE StreamOpens
  BY <1>11, StreamOpensKeeps
<1>12. CASE BackoffElapses
  BY <1>12, BackoffElapsesKeeps
<1>13. CASE IdleTimeout
  BY <1>13, IdleTimeoutKeeps
<1>14. CASE ReceiveHandshake
  BY <1>14, ReceiveHandshakeKeeps
<1>15. CASE ReceiveResult
  BY <1>15, ReceiveResultKeeps
<1>16. CASE CredentialsFail \/ ConnectionLost \/ StatusArrives \/ ResponseUndecodable
  <2>1. IsStarted(rs) /\ (Disrupt \/ NoDisruption)
    BY <1>16 DEF CredentialsFail, ConnectionLost, StatusArrives, ResponseUndecodable,
                 IsStarted, IsOpen
  <2>2. rs.status # "None" => rs.status \in ErrorCodes
    BY CurrentFacts DEF Consistent, Remotes
  <2>3. \E code \in ErrorCodes : FinishStream(code)
    BY <1>16, <2>2 DEF CredentialsFail, ConnectionLost, StatusArrives,
                       ResponseUndecodable, ErrorCodes
  <2> QED BY <2>1, <2>3, FinishStreamKeeps
<1>17. CASE ServerAnswers
  BY <1>17, ServerAnswersKeeps
<1>18. CASE ServerRefuses \/ \E code \in ServerStatuses : ServerEndsCall(code)
  BY <1>18, ServerEndsKeeps
<1>19. CASE \E s \in lingering : LingeringRequest(s)
  BY <1>19, LingeringRequestKeeps
<1> QED BY <1>1, <1>2, <1>3, <1>4, <1>5, <1>6, <1>7, <1>8, <1>9, <1>10, <1>11, <1>12,
           <1>13, <1>14, <1>15, <1>16, <1>17, <1>18, <1>19 DEF Next

-----------------------------------------------------------------------------
(* Theorems, for a backend that never ends a call with status OK.           *)

\* In every reachable state pipeline, stream, queues, callbacks and commits agree
\* as IInv says.
THEOREM InvariantHolds ==
  ASSUME "OK" \notin ServerStatuses
  PROVE  Spec => []IInv
<1>1. Init => IInv
  BY InitIInv
<1>2. IInv /\ [Next]_vars => IInv'
  BY NextIInv
<1> QED BY <1>1, <1>2, PTL DEF Spec

\* Every variable keeps its type: in particular each task leaves a well-formed
\* RemoteStore, whatever the number of users, writes and failures.
THEOREM TypeCorrect ==
  ASSUME "OK" \notin ServerStatuses
  PROVE  Spec => []TypeOK
<1>1. IInv => TypeOK
  BY DEF IInv
<1> QED BY <1>1, InvariantHolds, PTL

\* FillWritePipeline, the user change and the restarts never skip a batch, keep one
\* of another user or leave room unused.
THEOREM PipelineIsFront ==
  ASSUME "OK" \notin ServerStatuses
  PROVE  Spec => []PipelineIsQueueFront
<1>1. ASSUME IInv PROVE PipelineIsQueueFront
  <2> DEFINE q == queue[currentUser]
             p == rs.pipeline
             n == IF rs.enabled THEN Min({MaxPendingWrites, Len(q)}) ELSE 0
  <2>1. /\ q \in Seq(Batches) /\ p \in Seq(Batches) /\ Len(p) \in Nat /\ Len(q) \in Nat
        /\ IsFront(p, q) /\ Sound(rs, q)
    BY <1>1, CurrentFacts DEF Consistent, Remotes
  <2>2. Len(p) = n
    <3>1. CASE rs.enabled
      BY <2>1, <3>1 DEF Sound, Complete
    <3>2. CASE ~rs.enabled
      BY <2>1, <3>2 DEF Sound, Consistent
    <3> QED BY <3>1, <3>2
  <2> HIDE DEF n, p
  <2>3. SubSeq(q, 1, Len(p)) \in Seq(Batches) /\ Len(SubSeq(q, 1, Len(p))) = Len(p)
        /\ \A i \in 1 .. Len(p) : SubSeq(q, 1, Len(p))[i] = q[i]
    <3>1. \A i \in 1 .. Len(p) : q[i] \in Batches
      BY <2>1, ElementOfSeq DEF IsFront
    <3> QED BY <2>1, <3>1 DEF IsFront
  <2>4. p = SubSeq(q, 1, Len(p))
    BY <2>1, <2>3, SeqEqual DEF IsFront
  <2> QED BY <2>2, <2>4 DEF PipelineIsQueueFront, n, p
<1> QED BY <1>1, InvariantHolds, PTL

\* A mutation result is always matched with the write it is the result of.
THEOREM ResultsMatchWrites ==
  ASSUME "OK" \notin ServerStatuses
  PROVE  Spec => []ResponsesCorrelate
<1>1. ASSUME IInv PROVE ResponsesCorrelate
  <2> DEFINE S == Writes \cup {Handshake}
             resp == rs.responses
             left == [i \in 1 .. Len(rs.requests) |-> rs.requests[i].write]
             all == resp \o left
  <2>1. /\ rs.requests \in Seq(Requests) /\ resp \in Seq(S) /\ rs.pipeline \in Seq(Batches)
        /\ IsOpen(rs) => Correlated(rs)
    BY <1>1, CurrentFacts DEF Consistent, Remotes
  <2>2. left \in Seq(S) /\ Len(left) = Len(rs.requests) /\ Len(rs.requests) \in Nat
        /\ \A i \in 1 .. Len(left) : left[i] = rs.requests[i].write
    <3>1. \A i \in 1 .. Len(rs.requests) : rs.requests[i] \in Requests
      BY <2>1, ElementOfSeq
    <3> QED BY <2>1, <3>1 DEF Requests
  <2>3. /\ all \in Seq(S) /\ Len(all) = Len(resp) + Len(left)
        /\ \A i \in 1 .. Len(resp) : all[i] = resp[i]
        /\ \A i \in 1 .. Len(left) : all[Len(resp) + i] = left[i]
    BY <2>1, <2>2, ConcatParts
  <2>4. Len(resp) \in Nat /\ Len(left) \in Nat /\ OnCall(rs) = all
    BY <2>1, <2>2 DEF OnCall
  <2> HIDE DEF all, left, resp, S
  <2>5. ASSUME NEW i \in 1 .. Len(all), ~(i \in 1 .. Len(resp))
        PROVE  i - Len(resp) \in 1 .. Len(left) /\ Len(resp) + (i - Len(resp)) = i
    BY <2>3, <2>4, <2>5
  <2>6. CASE IsOpen(rs) /\ rs.handshake
    <3>1. /\ Len(all) = Len(rs.pipeline)
          /\ \A i \in 1 .. Len(resp) : resp[i] = rs.pipeline[i].write
          /\ \A i \in 1 .. Len(left) : left[i] = rs.pipeline[Len(resp) + i].write
      BY <2>1, <2>2, <2>3, <2>6 DEF Correlated, resp
    <3>2. ASSUME NEW i \in 1 .. Len(all) PROVE all[i] = rs.pipeline[i].write
      <4>1. CASE i \in 1 .. Len(resp)
        BY <2>3, <3>1, <4>1
      <4>2. CASE ~(i \in 1 .. Len(resp))
        <5> DEFINE j == i - Len(resp)
        <5>1. j \in 1 .. Len(left) /\ Len(resp) + j = i
          BY <2>5, <4>2
        <5> HIDE DEF j
        <5>2. all[Len(resp) + j] = left[j] /\ left[j] = rs.pipeline[Len(resp) + j].write
          BY <2>3, <3>1, <5>1, Zenon
        <5> QED BY <5>1, <5>2, Zenon
      <4> QED BY <4>1, <4>2
    <3>3. /\ InPipeline(rs) \in Seq(S) /\ Len(InPipeline(rs)) = Len(rs.pipeline)
          /\ \A i \in 1 .. Len(rs.pipeline) : InPipeline(rs)[i] = rs.pipeline[i].write
      <4>1. \A i \in 1 .. Len(rs.pipeline) : rs.pipeline[i] \in Batches
        BY <2>1, ElementOfSeq
      <4> QED BY <2>1, <4>1 DEF InPipeline, Batches, S
    <3>4. all = InPipeline(rs)
      <4>1. \A i \in 1 .. Len(all) : all[i] = InPipeline(rs)[i]
        BY <3>1, <3>2, <3>3
      <4>2. all \in Seq(S) /\ InPipeline(rs) \in Seq(S) /\ Len(all) = Len(InPipeline(rs))
        BY <2>3, <3>1, <3>3
      <4> QED BY <4>1, <4>2, SeqEqual
    <3> QED BY <2>4, <2>6, <3>4 DEF ResponsesCorrelate
  <2>7. CASE IsOpen(rs) /\ ~rs.handshake
    <3>1. /\ Len(all) = 1
          /\ \A i \in 1 .. Len(resp) : resp[i] = Handshake
          /\ \A i \in 1 .. Len(left) : left[i] = Handshake
      BY <2>1, <2>2, <2>3, <2>7 DEF Correlated, resp
    <3>2. ASSUME NEW i \in 1 .. Len(all) PROVE all[i] = Handshake
      <4>1. CASE i \in 1 .. Len(resp)
        BY <2>3, <3>1, <4>1
      <4>2. CASE ~(i \in 1 .. Len(resp))
        <5> DEFINE j == i - Len(resp)
        <5>1. j \in 1 .. Len(left) /\ Len(resp) + j = i
          BY <2>5, <4>2
        <5> HIDE DEF j
        <5>2. all[Len(resp) + j] = left[j] /\ left[j] = Handshake
          BY <2>3, <3>1, <5>1, Zenon
        <5> QED BY <5>1, <5>2, Zenon
      <4> QED BY <4>1, <4>2
    <3>3. <<Handshake>> \in Seq(S) /\ Len(<<Handshake>>) = 1 /\ <<Handshake>>[1] = Handshake
      BY DEF S
    <3>4. all = <<Handshake>>
      <4> DEFINE one == <<Handshake>>
      <4>1. one \in Seq(S) /\ Len(one) = 1 /\ one[1] = Handshake
        BY <3>3
      <4> HIDE DEF one
      <4>2. \A i \in 1 .. Len(all) : all[i] = one[i]
        BY <3>1, <3>2, <4>1
      <4>3. all = one
        BY <2>3, <3>1, <4>1, <4>2, SeqEqual
      <4> QED BY <4>3 DEF one
    <3> QED BY <2>4, <2>7, <3>4 DEF ResponsesCorrelate
  <2> QED BY <2>6, <2>7 DEF ResponsesCorrelate
<1> QED BY <1>1, InvariantHolds, PTL

\* As long as writes are pending, the client has a stream for them.
THEOREM PendingWritesServed ==
  ASSUME "OK" \notin ServerStatuses
  PROVE  Spec => []PendingWritesHaveStream
<1>1. ASSUME IInv PROVE PendingWritesHaveStream
  <2> DEFINE q == queue[currentUser]
  <2>1. q \in Seq(Batches) /\ Len(q) \in Nat /\ Sound(rs, q) /\ rs.pipeline \in Seq(Batches)
    BY <1>1, CurrentFacts DEF Remotes
  <2>2. ASSUME rs.enabled, q # <<>> PROVE IsStarted(rs) /\ ~rs.idle
    <3>1. Min({MaxPendingWrites, Len(q)}) \in Nat \ {0}
      <4>1. Len(q) # 0
        BY <2>1, <2>2
      <4> QED BY <2>1, <4>1, MinOfTwo, ConstantsAssumption
    <3>2. Len(rs.pipeline) # 0
      BY <2>1, <2>2, <3>1 DEF Sound, Complete
    <3>3. Len(<<>>) = 0
      OBVIOUS
    <3> QED BY <2>1, <2>2, <3>2, <3>3 DEF Sound, Complete, Consistent
  <2> QED BY <2>2 DEF PendingWritesHaveStream
<1> QED BY <1>1, InvariantHolds, PTL

\* No HARD_ASSERT of the write path fails.
THEOREM NoAssertFails ==
  ASSUME "OK" \notin ServerStatuses
  PROVE  Spec => []NoHardAssertFails
<1>1. IInv => NoHardAssertFails
  BY DEF IInv, Sound, Consistent, NoHardAssertFails
<1> QED BY <1>1, InvariantHolds, PTL

\* Success is only ever reported of what the backend committed.
THEOREM SuccessIsCommit ==
  ASSUME "OK" \notin ServerStatuses
  PROVE  Spec => []SuccessMeansCommitted
<1>1. IInv => SuccessMeansCommitted
  BY DEF IInv
<1> QED BY <1>1, InvariantHolds, PTL

\* A callback is never left behind when its batch is gone.
THEOREM CallbacksQueued ==
  ASSUME "OK" \notin ServerStatuses
  PROVE  Spec => []CallbacksMatchQueue
<1>1. IInv => CallbacksMatchQueue
  BY DEF IInv
<1> QED BY <1>1, InvariantHolds, PTL
=============================================================================
