--------------------------- MODULE RealtimeProofs ---------------------------
(***************************************************************************)
(* Proofs about RealtimeConnection, for any number of operations, queries, *)
(* listens and disturbances, if fetching a token does not fail late: no    *)
(* assertion fails, a transaction is applied once, a completion is called  *)
(* once and truly, and the listens to be answered are counted.             *)
(***************************************************************************)
EXTENDS RealtimeInvariant, FiniteSetTheorems, SequenceTheorems, TLAPS

-----------------------------------------------------------------------------
(* Operations and requests.                                                *)

ResponseRecords == [request : RequestRecords, ok : BOOLEAN]

\* A completion is called once more, and the operation is gone.
LEMMA ToldFields ==
  ASSUME NEW op \in OperationRecords, NEW outcome \in Outcomes
  PROVE  /\ Told(op, outcome) \in OperationRecords
         /\ Told(op, outcome).place = "Gone" /\ Told(op, outcome).outcome = outcome
         /\ Told(op, outcome).told = op.told + 1 /\ Told(op, outcome).kind = op.kind
<1>1. op.told + 1 \in Nat /\ "Gone" \in Places
  BY DEF OperationRecords, Places
<1> QED BY <1>1 DEF Told, OperationRecords

\* What a request is made of.
LEMMA RequestFields ==
  ASSUME NEW r \in RequestRecords
  PROVE  /\ r.kind \in {"auth", "listen", "operation"} /\ r.id \in Nat \ {0} /\ r.restore \in BOOLEAN
         /\ r.restore => r.kind = "auth"
         /\ r.kind = "operation" => r.id \in Operations /\ r = Operation(r.id)
<1>1. MaxOperations \in Nat
  BY ConnectionConstants
<1>2. CASE r \in [kind : {"auth"}, id : Nat \ {NoToken}, restore : BOOLEAN]
  BY <1>2 DEF NoToken
<1>3. CASE r \in [kind : {"listen"}, id : Nat \ {NotListening}, restore : {FALSE}]
  BY <1>3 DEF NotListening
<1>4. CASE r \in [kind : {"operation"}, id : Operations, restore : {FALSE}]
  <2>1. r.kind = "operation" /\ r.id \in Operations /\ r.restore = FALSE
    BY <1>4
  <2>2. r = [kind |-> r.kind, id |-> r.id, restore |-> r.restore]
    BY <1>4
  <2>3. r = Operation(r.id)
    BY <2>1, <2>2 DEF Operation
  <2>4. r.id \in Nat \ {0}
    BY <1>1, <2>1 DEF Operations
  <2> QED BY <2>1, <2>3, <2>4
<1> QED BY <1>2, <1>3, <1>4 DEF RequestRecords

LEMMA NewRequests ==
  /\ \A t \in Tokens \ {NoToken}, restore \in BOOLEAN :
       /\ Auth(t, restore) \in RequestRecords
       /\ Auth(t, restore).kind = "auth" /\ Auth(t, restore).restore = restore
  /\ \A n \in Nat \ {NotListening} :
       /\ Listen(n) \in RequestRecords /\ Listen(n).kind = "listen"
       /\ Listen(n).restore = FALSE
  /\ \A o \in Operations :
       /\ Operation(o) \in RequestRecords /\ Operation(o).kind = "operation"
       /\ Operation(o).id = o /\ Operation(o).restore = FALSE
BY DEF Auth, Listen, Operation, RequestRecords, Tokens

\* Losing the connection cancels the transactions that were sent, and nothing else.
LEMMA SentTransactionsCanceledFields ==
  ASSUME operations \in [Operations -> OperationRecords]
  PROVE  LET after == SentTransactionsCanceled IN
         /\ after \in [Operations -> OperationRecords]
         /\ \A o \in Operations :
              IF operations[o].kind = "transaction" /\ operations[o].place = "Sent"
              THEN after[o] = Told(operations[o], "disconnect")
              ELSE after[o] = operations[o]
<1> DEFINE after == SentTransactionsCanceled
<1>1. \A o \in Operations : operations[o] \in OperationRecords
  OBVIOUS
<1>2. \A o \in Operations : Told(operations[o], "disconnect") \in OperationRecords
  BY <1>1, ToldFields DEF Outcomes
<1> QED BY <1>1, <1>2 DEF SentTransactionsCanceled

\* Restoring the state sends what waits, and nothing else changes.
LEMMA OutstandingSentFields ==
  ASSUME operations \in [Operations -> OperationRecords]
  PROVE  LET after == OutstandingSent IN
         /\ after \in [Operations -> OperationRecords]
         /\ \A o \in Operations :
              /\ after[o].kind = operations[o].kind /\ after[o].told = operations[o].told
              /\ after[o].outcome = operations[o].outcome
              /\ after[o].place = IF operations[o].place = "Outstanding" THEN "Sent"
                                  ELSE operations[o].place
<1> DEFINE after == OutstandingSent
<1>1. \A o \in Operations : operations[o] \in OperationRecords
  OBVIOUS
<1>2. \A op \in OperationRecords :
        /\ [op EXCEPT !.place = "Sent"] \in OperationRecords
        /\ [op EXCEPT !.place = "Sent"].kind = op.kind
        /\ [op EXCEPT !.place = "Sent"].told = op.told
        /\ [op EXCEPT !.place = "Sent"].outcome = op.outcome
        /\ [op EXCEPT !.place = "Sent"].place = "Sent"
  BY DEF OperationRecords, Places
<1>3. /\ after = [o \in Operations |->
             IF operations[o].place = "Outstanding" THEN [operations[o] EXCEPT !.place = "Sent"]
             ELSE operations[o]]
  BY DEF OutstandingSent
<1> HIDE DEF after
<1>4. ASSUME NEW o \in Operations
      PROVE  /\ after[o] \in OperationRecords
             /\ after[o].kind = operations[o].kind /\ after[o].told = operations[o].told
             /\ after[o].outcome = operations[o].outcome
             /\ after[o].place = IF operations[o].place = "Outstanding" THEN "Sent"
                                 ELSE operations[o].place
  <2>1. CASE operations[o].place = "Outstanding"
    BY <1>1, <1>2, <1>3, <2>1
  <2>2. CASE operations[o].place # "Outstanding"
    BY <1>1, <1>3, <2>2
  <2> QED BY <2>1, <2>2
<1> QED BY <1>3, <1>4 DEF after

-----------------------------------------------------------------------------
(* Counting the listens in a sequence of requests.                         *)

AreListens(s) == {i \in DOMAIN s : s[i].kind = "listen"}
ListensIn(s) == Cardinality(AreListens(s))

\* Finitely many are listens.
LEMMA ListensInType ==
  ASSUME NEW s \in Seq(RequestRecords)
  PROVE  IsFiniteSet(AreListens(s)) /\ ListensIn(s) \in Nat
<1>1. Len(s) \in Nat /\ DOMAIN s = 1 .. Len(s)
  BY LenProperties
<1>2. IsFiniteSet(1 .. Len(s))
  BY <1>1, FS_Interval
<1>3. IsFiniteSet(AreListens(s))
  BY <1>1, <1>2, FS_Subset DEF AreListens
<1> QED BY <1>3, FS_CardinalityType DEF ListensIn

\* Those of a concatenation are those of its parts.
LEMMA ListensInConcat ==
  ASSUME NEW s \in Seq(RequestRecords), NEW t \in Seq(RequestRecords)
  PROVE  ListensIn(s \o t) = ListensIn(s) + ListensIn(t)
<1> DEFINE m == Len(s)
           n == Len(t)
           both == s \o t
           B == AreListens(t)
           C == {i \in m + 1 .. m + n : t[i - m].kind = "listen"}
           f == [j \in B |-> j + m]
<1>1. /\ m \in Nat /\ n \in Nat /\ DOMAIN s = 1 .. m /\ DOMAIN t = 1 .. n
      /\ both \in Seq(RequestRecords) /\ DOMAIN both = 1 .. m + n
      /\ \A i \in 1 .. m + n : both[i] = IF i <= m THEN s[i] ELSE t[i - m]
  BY LenProperties, ConcatProperties
<1> HIDE DEF m, n, both
<1>2. AreListens(both) = AreListens(s) \cup C
  <2>1. ASSUME NEW i \in 1 .. m + n
        PROVE  i \in AreListens(both) <=> i \in AreListens(s) \cup C
    <3>1. CASE i <= m
      <4>1. i \in 1 .. m /\ both[i] = s[i] /\ i \notin C
        BY <1>1, <3>1
      <4> QED BY <1>1, <4>1 DEF AreListens
    <3>2. CASE ~(i <= m)
      <4>1. i \in m + 1 .. m + n /\ both[i] = t[i - m] /\ i \notin 1 .. m
        BY <1>1, <3>2
      <4> QED BY <1>1, <4>1 DEF AreListens
    <3> QED BY <3>1, <3>2
  <2>2. AreListens(both) \subseteq 1 .. m + n /\ AreListens(s) \cup C \subseteq 1 .. m + n
    BY <1>1 DEF AreListens
  <2> QED BY <2>1, <2>2
<1>3. IsFiniteSet(AreListens(s)) /\ IsFiniteSet(B)
  BY ListensInType
<1>4. IsFiniteSet(C) /\ Cardinality(C) = Cardinality(B)
  <2>1. f \in [B -> C]
    BY <1>1 DEF AreListens
  <2>2. f \in Injection(B, C)
    <3>1. \A i, j \in B : f[i] = f[j] => i = j
      BY <1>1 DEF AreListens
    <3> QED BY <2>1, <3>1 DEF Injection, IsInjective
  <2>3. f \in Surjection(B, C)
    <3>1. ASSUME NEW i \in C
          PROVE  \E j \in B : f[j] = i
      <4>1. i - m \in B /\ f[i - m] = i
        BY <1>1 DEF AreListens
      <4> QED BY <4>1
    <3> QED BY <2>1, <3>1 DEF Surjection
  <2>4. ExistsBijection(B, C)
    BY <2>2, <2>3 DEF ExistsBijection, Bijection
  <2> QED BY <1>3, <2>4, FS_Bijection
<1>5. AreListens(s) \cap C = {}
  BY <1>1 DEF AreListens
<1>6. Cardinality(AreListens(s) \cup C) = Cardinality(AreListens(s)) + Cardinality(C)
  <2> HIDE DEF C
  <2> DEFINE A == AreListens(s)
  <2> HIDE DEF A
  <2>1. IsFiniteSet(A) /\ IsFiniteSet(C) /\ A \cap C = {}
    BY <1>3, <1>4, <1>5 DEF A
  <2>2. Cardinality(A \cup C) = Cardinality(A) + Cardinality(C) - Cardinality(A \cap C)
    BY <2>1, FS_Union
  <2>3. Cardinality({}) = 0
    BY FS_EmptySet
  <2>4. Cardinality(A) \in Nat /\ Cardinality(C) \in Nat
    BY <2>1, FS_CardinalityType
  <2>5. Cardinality(A \cup C) = Cardinality(A) + Cardinality(C)
    <3> DEFINE a == Cardinality(A)
               c == Cardinality(C)
               u == Cardinality(A \cup C)
               x == Cardinality(A \cap C)
    <3>1. x = 0
      BY <2>1, <2>3
    <3>2. u = a + c - x /\ a \in Nat /\ c \in Nat
      BY <2>2, <2>4
    <3> HIDE DEF a, c, u, x
    <3>3. u = a + c
      BY <3>1, <3>2
    <3> QED BY <3>3 DEF a, c, u
  <2> QED BY <2>5 DEF A
<1>7. Cardinality(AreListens(s)) \in Nat /\ Cardinality(B) \in Nat
  BY <1>3, FS_CardinalityType
<1> QED BY <1>2, <1>4, <1>6, <1>7 DEF ListensIn, both

\* One request is a listen or not.
LEMMA ListensInOne ==
  ASSUME NEW r \in RequestRecords
  PROVE  /\ <<r>> \in Seq(RequestRecords)
         /\ ListensIn(<<r>>) = IF r.kind = "listen" THEN 1 ELSE 0
<1>1. DOMAIN <<r>> = {1} /\ <<r>>[1] = r /\ <<r>> \in Seq(RequestRecords)
  OBVIOUS
<1>2. CASE r.kind = "listen"
  <2>1. AreListens(<<r>>) = {1}
    BY <1>1, <1>2 DEF AreListens
  <2> QED BY <1>1, <1>2, <2>1, FS_Singleton DEF ListensIn
<1>3. CASE r.kind # "listen"
  <2>1. AreListens(<<r>>) = {}
    BY <1>1, <1>3 DEF AreListens
  <2> QED BY <1>1, <1>3, <2>1, FS_EmptySet DEF ListensIn
<1> QED BY <1>2, <1>3

\* No request is a listen.
LEMMA ListensInEmpty == ListensIn(<<>>) = 0
<1>1. AreListens(<<>>) = {}
  BY DEF AreListens
<1> QED BY <1>1, FS_EmptySet DEF ListensIn

\* Sending a request.
LEMMA ListensInAppend ==
  ASSUME NEW s \in Seq(RequestRecords), NEW r \in RequestRecords
  PROVE  ListensIn(Append(s, r)) = ListensIn(s) + (IF r.kind = "listen" THEN 1 ELSE 0)
<1>1. Append(s, r) = s \o <<r>>
  BY AppendIsConcat
<1> QED BY <1>1, ListensInOne, ListensInConcat

\* Taking the first request.
LEMMA ListensInTail ==
  ASSUME NEW s \in Seq(RequestRecords), s # <<>>
  PROVE  /\ Tail(s) \in Seq(RequestRecords) /\ Head(s) \in RequestRecords
         /\ ListensIn(s) = (IF Head(s).kind = "listen" THEN 1 ELSE 0) + ListensIn(Tail(s))
<1>1. s = <<Head(s)>> \o Tail(s) /\ Tail(s) \in Seq(RequestRecords) /\ Head(s) \in RequestRecords
  BY HeadTailProperties
<1> QED BY <1>1, ListensInOne, ListensInConcat

\* If all requests are listens, or none is.
LEMMA ListensInUniform ==
  ASSUME NEW s \in Seq(RequestRecords), NEW kind,
         \A i \in DOMAIN s : s[i].kind = kind
  PROVE  ListensIn(s) = IF kind = "listen" THEN Len(s) ELSE 0
<1>1. Len(s) \in Nat /\ DOMAIN s = 1 .. Len(s)
  BY LenProperties
<1>2. CASE kind = "listen"
  <2>1. AreListens(s) = 1 .. Len(s)
    BY <1>1, <1>2 DEF AreListens
  <2>2. Cardinality(1 .. Len(s)) = IF 1 > Len(s) THEN 0 ELSE (Len(s) - 1) + 1
    BY <1>1, FS_Interval
  <2>3. Cardinality(1 .. Len(s)) = Len(s)
    BY <1>1, <2>2
  <2> QED BY <1>2, <2>1, <2>3 DEF ListensIn
<1>3. CASE kind # "listen"
  <2>1. AreListens(s) = {}
    BY <1>1, <1>3 DEF AreListens
  <2> QED BY <1>3, <2>1, FS_EmptySet DEF ListensIn
<1> QED BY <1>2, <1>3

\* The requests that were answered.
AnsweredOf(rs) == [i \in DOMAIN rs |-> rs[i].request]

LEMMA AnsweredType ==
  ASSUME NEW rs \in Seq(ResponseRecords)
  PROVE  /\ AnsweredOf(rs) \in Seq(RequestRecords) /\ Len(AnsweredOf(rs)) = Len(rs)
         /\ \A i \in 1 .. Len(rs) : AnsweredOf(rs)[i] = rs[i].request
<1>1. Len(rs) \in Nat /\ DOMAIN rs = 1 .. Len(rs)
  BY LenProperties
<1>2. \A i \in 1 .. Len(rs) : rs[i].request \in RequestRecords
  <2>1. \A i \in 1 .. Len(rs) : rs[i] \in ResponseRecords
    BY ElementOfSeq
  <2> QED BY <2>1 DEF ResponseRecords
<1>3. /\ AnsweredOf(rs) \in [1 .. Len(rs) -> RequestRecords]
      /\ \A i \in 1 .. Len(rs) : AnsweredOf(rs)[i] = rs[i].request
  BY <1>1, <1>2 DEF AnsweredOf
<1> HIDE DEF AnsweredOf
<1> QED BY <1>1, <1>3

LEMMA AnsweredAppend ==
  ASSUME NEW rs \in Seq(ResponseRecords), NEW x \in ResponseRecords
  PROVE  AnsweredOf(Append(rs, x)) = Append(AnsweredOf(rs), x.request)
<1> DEFINE after == Append(rs, x)
<1>1. after \in Seq(ResponseRecords) /\ x.request \in RequestRecords
  BY DEF ResponseRecords
<1>2. AnsweredOf(after) \in Seq(RequestRecords) /\ AnsweredOf(rs) \in Seq(RequestRecords)
  BY <1>1, AnsweredType
<1>3. /\ Len(AnsweredOf(after)) = Len(rs) + 1 /\ Len(AnsweredOf(rs)) = Len(rs) /\ Len(rs) \in Nat
      /\ \A i \in 1 .. Len(rs) + 1 : AnsweredOf(after)[i] = after[i].request
      /\ \A i \in 1 .. Len(rs) : AnsweredOf(rs)[i] = rs[i].request /\ after[i] = rs[i]
      /\ after[Len(rs) + 1] = x
  <2>1. /\ Len(after) = Len(rs) + 1 /\ Len(rs) \in Nat /\ after[Len(rs) + 1] = x
        /\ \A i \in 1 .. Len(rs) : after[i] = rs[i]
    BY LenProperties, AppendProperties
  <2> HIDE DEF after
  <2>2. /\ Len(AnsweredOf(after)) = Len(after) /\ Len(AnsweredOf(rs)) = Len(rs)
        /\ \A i \in 1 .. Len(after) : AnsweredOf(after)[i] = after[i].request
        /\ \A i \in 1 .. Len(rs) : AnsweredOf(rs)[i] = rs[i].request
    BY <1>1, AnsweredType
  <2> QED BY <2>1, <2>2
<1>4. Append(AnsweredOf(rs), x.request) \in Seq(RequestRecords)
  BY <1>1, <1>2
<1>5. /\ Len(Append(AnsweredOf(rs), x.request)) = Len(rs) + 1
      /\ \A i \in 1 .. Len(rs) : Append(AnsweredOf(rs), x.request)[i] = AnsweredOf(rs)[i]
      /\ Append(AnsweredOf(rs), x.request)[Len(rs) + 1] = x.request
  BY <1>1, <1>2, <1>3
<1> HIDE DEF after
<1>6. \A i \in 1 .. Len(rs) + 1 : AnsweredOf(after)[i] = Append(AnsweredOf(rs), x.request)[i]
  BY <1>3, <1>5
<1>7. AnsweredOf(after) = Append(AnsweredOf(rs), x.request)
  BY <1>2, <1>3, <1>4, <1>5, <1>6, SeqEqual
<1> QED BY <1>7 DEF after

LEMMA AnsweredTail ==
  ASSUME NEW rs \in Seq(ResponseRecords), rs # <<>>
  PROVE  /\ AnsweredOf(Tail(rs)) = Tail(AnsweredOf(rs))
         /\ Head(AnsweredOf(rs)) = Head(rs).request /\ AnsweredOf(rs) # <<>>
<1>1. Tail(rs) \in Seq(ResponseRecords) /\ Len(rs) \in Nat \ {0}
  OBVIOUS
<1>2. /\ AnsweredOf(rs) \in Seq(RequestRecords) /\ Len(AnsweredOf(rs)) = Len(rs)
      /\ AnsweredOf(Tail(rs)) \in Seq(RequestRecords)
      /\ Len(AnsweredOf(Tail(rs))) = Len(Tail(rs))
      /\ \A i \in 1 .. Len(rs) : AnsweredOf(rs)[i] = rs[i].request
      /\ \A i \in 1 .. Len(Tail(rs)) : AnsweredOf(Tail(rs))[i] = Tail(rs)[i].request
  <2> DEFINE t == Tail(rs)
  <2>1. t \in Seq(ResponseRecords)
    BY <1>1
  <2> HIDE DEF t
  <2>2. /\ AnsweredOf(t) \in Seq(RequestRecords) /\ Len(AnsweredOf(t)) = Len(t)
        /\ \A i \in 1 .. Len(t) : AnsweredOf(t)[i] = t[i].request
    BY <2>1, AnsweredType
  <2>3. /\ AnsweredOf(rs) \in Seq(RequestRecords) /\ Len(AnsweredOf(rs)) = Len(rs)
        /\ \A i \in 1 .. Len(rs) : AnsweredOf(rs)[i] = rs[i].request
    BY AnsweredType
  <2> QED BY <2>2, <2>3 DEF t
<1>3. Head(AnsweredOf(rs)) = Head(rs).request /\ AnsweredOf(rs) # <<>>
  BY <1>1, <1>2
<1>4. /\ Tail(AnsweredOf(rs)) \in Seq(RequestRecords)
      /\ Len(Tail(AnsweredOf(rs))) = Len(rs) - 1 /\ Len(Tail(rs)) = Len(rs) - 1
      /\ \A i \in 1 .. Len(rs) - 1 :
           Tail(AnsweredOf(rs))[i] = AnsweredOf(rs)[i + 1] /\ Tail(rs)[i] = rs[i + 1]
  BY <1>1, <1>2, <1>3, HeadTailProperties
<1>5. \A i \in 1 .. Len(rs) - 1 : AnsweredOf(Tail(rs))[i] = Tail(AnsweredOf(rs))[i]
  BY <1>1, <1>2, <1>4
<1>6. AnsweredOf(Tail(rs)) = Tail(AnsweredOf(rs))
  BY <1>2, <1>4, <1>5, SeqEqual
<1> QED BY <1>3, <1>6

\* The listens to be answered: those whose answers are under way, and the others.
Unanswered(rs, qs) == ListensIn(AnsweredOf(rs)) + ListensIn(qs)

LEMMA UnansweredOnWire ==
  ASSUME NEW rs \in Seq(ResponseRecords), NEW qs \in Seq(RequestRecords)
  PROVE  /\ ListensIn(AnsweredOf(rs) \o qs) = Unanswered(rs, qs)
         /\ Unanswered(rs, qs) \in Nat
         /\ ListensIn(AnsweredOf(rs)) \in Nat /\ ListensIn(qs) \in Nat
<1>1. AnsweredOf(rs) \in Seq(RequestRecords)
  BY AnsweredType
<1> QED BY <1>1, ListensInConcat, ListensInType DEF Unanswered

\* An answer is under way.
LEMMA UnansweredAnswer ==
  ASSUME NEW rs \in Seq(ResponseRecords), NEW qs \in Seq(RequestRecords), qs # <<>>,
         NEW ok \in BOOLEAN
  PROVE  Unanswered(Append(rs, [request |-> Head(qs), ok |-> ok]), Tail(qs)) = Unanswered(rs, qs)
<1> DEFINE x == [request |-> Head(qs), ok |-> ok]
           one == IF Head(qs).kind = "listen" THEN 1 ELSE 0
<1>1. Head(qs) \in RequestRecords /\ Tail(qs) \in Seq(RequestRecords)
  BY HeadTailProperties
<1>2. x \in ResponseRecords /\ x.request = Head(qs)
  BY <1>1 DEF ResponseRecords
<1> HIDE DEF x
<1>3. AnsweredOf(Append(rs, x)) = Append(AnsweredOf(rs), Head(qs))
  BY <1>2, AnsweredAppend
<1>4. AnsweredOf(rs) \in Seq(RequestRecords)
  BY AnsweredType
<1>5. ListensIn(AnsweredOf(Append(rs, x))) = ListensIn(AnsweredOf(rs)) + one
  BY <1>1, <1>3, <1>4, ListensInAppend
<1>6. ListensIn(qs) = one + ListensIn(Tail(qs))
  BY ListensInTail
<1>7. /\ ListensIn(AnsweredOf(rs)) \in Nat /\ ListensIn(qs) \in Nat
      /\ ListensIn(Tail(qs)) \in Nat /\ one \in Nat
  BY <1>1, <1>4, ListensInType
<1> HIDE DEF one
<1>8. Unanswered(Append(rs, x), Tail(qs)) = Unanswered(rs, qs)
  BY <1>5, <1>6, <1>7 DEF Unanswered
<1> QED BY <1>8 DEF x

\* An answer is received.
LEMMA UnansweredReceive ==
  ASSUME NEW rs \in Seq(ResponseRecords), rs # <<>>, NEW qs \in Seq(RequestRecords)
  PROVE  /\ Tail(rs) \in Seq(ResponseRecords) /\ Head(rs) \in ResponseRecords
         /\ Unanswered(rs, qs) = (IF Head(rs).request.kind = "listen" THEN 1 ELSE 0)
                                   + Unanswered(Tail(rs), qs)
<1> DEFINE one == IF Head(rs).request.kind = "listen" THEN 1 ELSE 0
<1>1. Tail(rs) \in Seq(ResponseRecords) /\ Head(rs) \in ResponseRecords
  BY HeadTailProperties
<1>2. /\ AnsweredOf(rs) \in Seq(RequestRecords) /\ AnsweredOf(rs) # <<>>
      /\ AnsweredOf(Tail(rs)) = Tail(AnsweredOf(rs)) /\ Head(AnsweredOf(rs)) = Head(rs).request
  BY AnsweredType, AnsweredTail
<1>3. ListensIn(AnsweredOf(rs)) = one + ListensIn(AnsweredOf(Tail(rs)))
  BY <1>2, ListensInTail
<1>4. /\ ListensIn(AnsweredOf(rs)) \in Nat /\ ListensIn(AnsweredOf(Tail(rs))) \in Nat
      /\ ListensIn(qs) \in Nat /\ one \in Nat
  BY <1>1, UnansweredOnWire
<1> HIDE DEF one
<1>5. Unanswered(rs, qs) = one + Unanswered(Tail(rs), qs)
  BY <1>3, <1>4 DEF Unanswered
<1> QED BY <1>1, <1>5 DEF one

-----------------------------------------------------------------------------
(* Restoring the state.                                                    *)

\* There are finitely many operations and listens.
LEMMA FiniteToRestore ==
  /\ IsFiniteSet(Listening) /\ Cardinality(Listening) \in Nat
  /\ IsFiniteSet(ToRestore) /\ Cardinality(ToRestore) \in Nat
<1>1. MaxOperations \in Nat
  BY ConnectionConstants
<1>2. IsFiniteSet(Operations)
  BY <1>1, FS_Interval DEF Operations
<1>3. IsFiniteSet(ToRestore)
  BY <1>2, FS_Subset DEF ToRestore
<1>4. IsFiniteSet(Listening)
  BY ConnectionConstants, FS_Subset DEF Listening
<1> QED BY <1>3, <1>4, FS_CardinalityType

\* No operation is before itself.
LEMMA NotBeforeItself ==
  ASSUME operations \in [Operations -> OperationRecords], NEW o \in Operations
  PROVE  ~Before(o, o)
<1>1. operations[o].kind \in Puts \cup {"get", "onDisconnect"}
  BY ConnectionConstants DEF OperationRecords, Puts
<1>2. Rank(operations[o].kind) \in Nat
  BY <1>1 DEF Rank, Puts
<1>3. o \in Nat
  BY ConnectionConstants DEF Operations
<1> QED BY <1>2, <1>3 DEF Before

\* restoreState sends the listens and, in order and once each, the operations that wait
\* for it.
LEMMA RestoredRequests ==
  ASSUME RequestsTypeOK, RestoreState
  PROVE  /\ requests' \in Seq(RequestRecords) /\ Len(requests') >= Len(requests)
         /\ \A i \in 1 .. Len(requests) : requests'[i] = requests[i]
         /\ \A i \in Len(requests) + 1 .. Len(requests') :
              /\ requests'[i].restore = FALSE
              /\ requests'[i].kind = "operation" =>
                   /\ requests'[i].id \in ToRestore
                   /\ \A j \in Len(requests) + 1 .. Len(requests') :
                        requests'[j] = requests'[i] => j = i
         /\ \A i, j \in Len(requests) + 1 .. Len(requests') :
              i < j /\ requests'[i].kind = "operation" /\ requests'[j].kind = "operation" =>
                Before(requests'[i].id, requests'[j].id)
         /\ \A o \in ToRestore : \E i \in Len(requests) + 1 .. Len(requests') :
              requests'[i] = Operation(o)
         /\ \A q \in Listening : \E i \in Len(requests) + 1 .. Len(requests') :
              requests'[i] = Listen(listens[q])
         /\ ListensIn(requests') = ListensIn(requests) + Cardinality(Listening)
<1> DEFINE c == Cardinality(Listening)
           d == Cardinality(ToRestore)
           n == Len(requests)
<1>1. c \in Nat /\ d \in Nat
  BY FiniteToRestore
<1>2. PICK active \in AnyOrder(Listening), ops \in InOrder(ToRestore) :
        requests' = requests \o [i \in DOMAIN active |-> Listen(listens[active[i]])]
                             \o [i \in DOMAIN ops |-> Operation(ops[i])]
  BY DEF RestoreState
<1> DEFINE L == [i \in DOMAIN active |-> Listen(listens[active[i]])]
           O == [i \in DOMAIN ops |-> Operation(ops[i])]
<1>3. /\ active \in [1 .. c -> Listening] /\ ops \in [1 .. d -> ToRestore]
      /\ \A i, j \in 1 .. d : i < j => Before(ops[i], ops[j])
      /\ \A i, j \in 1 .. c : i < j => active[i] # active[j]
  BY DEF AnyOrder, InOrder
<1> HIDE DEF c, d
<1>4. /\ L \in Seq(RequestRecords) /\ Len(L) = c /\ DOMAIN L = 1 .. c
      /\ \A i \in 1 .. c : /\ L[i].kind = "listen" /\ L[i].restore = FALSE
                           /\ L[i] = Listen(listens[active[i]])
  <2>1. \A i \in 1 .. c : listens[active[i]] \in Nat \ {NotListening}
    BY <1>3 DEF Listening, RequestsTypeOK
  <2>2. \A i \in 1 .. c : /\ Listen(listens[active[i]]) \in RequestRecords
                          /\ Listen(listens[active[i]]).kind = "listen"
                          /\ Listen(listens[active[i]]).restore = FALSE
    BY <2>1, NewRequests
  <2>3. /\ L \in [1 .. c -> RequestRecords]
        /\ \A i \in 1 .. c : /\ L[i].kind = "listen" /\ L[i].restore = FALSE
                             /\ L[i] = Listen(listens[active[i]])
    BY <1>3, <2>2
  <2> QED BY <1>1, <2>3
<1>5. /\ O \in Seq(RequestRecords) /\ Len(O) = d /\ DOMAIN O = 1 .. d
      /\ \A i \in 1 .. d : /\ O[i].kind = "operation" /\ O[i].restore = FALSE
                           /\ O[i].id = ops[i] /\ O[i] = Operation(ops[i])
  <2>1. \A i \in 1 .. d : ops[i] \in Operations
    BY <1>3 DEF ToRestore
  <2>2. \A i \in 1 .. d : /\ Operation(ops[i]) \in RequestRecords
                          /\ Operation(ops[i]).kind = "operation"
                          /\ Operation(ops[i]).restore = FALSE
                          /\ Operation(ops[i]).id = ops[i]
    BY <2>1, NewRequests
  <2>3. /\ O \in [1 .. d -> RequestRecords]
        /\ \A i \in 1 .. d : /\ O[i].kind = "operation" /\ O[i].restore = FALSE
                             /\ O[i].id = ops[i] /\ O[i] = Operation(ops[i])
    BY <1>3, <2>2
  <2> QED BY <1>1, <2>3
<1>6. /\ \A i, j \in 1 .. d : O[i] = O[j] => i = j
      /\ \A i, j \in 1 .. d : ops[i] = ops[j] => i = j
  <2>1. ASSUME NEW i \in 1 .. d, NEW j \in 1 .. d, i < j
        PROVE  ops[i] # ops[j]
    <3>1. ops[i] \in Operations /\ Before(ops[i], ops[j])
      BY <1>3, <2>1 DEF ToRestore
    <3> QED BY <3>1, NotBeforeItself DEF RequestsTypeOK
  <2>2. \A i, j \in 1 .. d : ops[i] = ops[j] => i = j
    <3>1. \A i, j \in 1 .. d : ops[i] = ops[j] => ~(i < j) /\ ~(j < i)
      BY <2>1
    <3> QED BY <1>1, <3>1
  <2> HIDE DEF O
  <2>3. \A i, j \in 1 .. d : O[i] = O[j] => ops[i] = ops[j]
    BY <1>5
  <2> QED BY <1>1, <2>2, <2>3
<1> HIDE DEF L, O
<1>7. requests' = (requests \o L) \o O /\ requests \in Seq(RequestRecords) /\ n \in Nat
  BY <1>2, LenProperties DEF L, O, RequestsTypeOK
<1>8. /\ requests \o L \in Seq(RequestRecords) /\ Len(requests \o L) = n + c
      /\ \A i \in 1 .. n + c : (requests \o L)[i] = IF i <= n THEN requests[i] ELSE L[i - n]
  BY <1>4, <1>7, ConcatProperties
<1>9. /\ requests' \in Seq(RequestRecords) /\ Len(requests') = (n + c) + d
      /\ \A i \in 1 .. (n + c) + d :
           requests'[i] = IF i <= n + c THEN (requests \o L)[i] ELSE O[i - (n + c)]
  <2> DEFINE front == requests \o L
  <2>1. front \in Seq(RequestRecords) /\ Len(front) = n + c /\ requests' = front \o O
    BY <1>7, <1>8
  <2> HIDE DEF front
  <2>2. /\ front \o O \in Seq(RequestRecords) /\ Len(front \o O) = Len(front) + Len(O)
        /\ \A i \in 1 .. Len(front) + Len(O) :
             (front \o O)[i] = IF i <= Len(front) THEN front[i] ELSE O[i - Len(front)]
    BY <1>5, <2>1, ConcatProperties
  <2>3. /\ requests' \in Seq(RequestRecords) /\ Len(requests') = (n + c) + d
        /\ \A i \in 1 .. (n + c) + d :
             requests'[i] = IF i <= n + c THEN front[i] ELSE O[i - (n + c)]
    BY <1>5, <2>1, <2>2
  <2> QED BY <2>3 DEF front
<1>10. ListensIn(requests') = ListensIn(requests) + c
  <2>1. ListensIn(L) = c
    BY <1>4, ListensInUniform
  <2>2. ListensIn(O) = 0
    BY <1>5, ListensInUniform
  <2>3. ListensIn(requests \o L) = ListensIn(requests) + ListensIn(L)
    BY <1>4, <1>7, ListensInConcat
  <2>4. ListensIn(requests') = ListensIn(requests \o L) + ListensIn(O)
    BY <1>5, <1>7, <1>8, ListensInConcat
  <2>5. ListensIn(requests) \in Nat
    BY <1>7, ListensInType
  <2> QED BY <1>1, <2>1, <2>2, <2>3, <2>4, <2>5
<1> HIDE DEF n
<1>11. /\ \A i \in 1 .. n : requests'[i] = requests[i]
       /\ \A i \in n + 1 .. n + c : requests'[i] = L[i - n] /\ i - n \in 1 .. c
       /\ \A i \in (n + c) + 1 .. (n + c) + d :
            requests'[i] = O[i - (n + c)] /\ i - (n + c) \in 1 .. d
       /\ (n + c) + d >= n
  BY <1>1, <1>7, <1>8, <1>9
<1>12. ASSUME NEW i \in n + 1 .. (n + c) + d
       PROVE  /\ requests'[i].restore = FALSE
              /\ requests'[i].kind = "operation" =>
                   /\ requests'[i].id \in ToRestore
                   /\ \A j \in n + 1 .. (n + c) + d : requests'[j] = requests'[i] => j = i
  <2>1. CASE i \in n + 1 .. n + c
    BY <1>4, <1>11, <2>1
  <2>2. CASE i \in (n + c) + 1 .. (n + c) + d
    <3> DEFINE k == i - (n + c)
    <3>1. k \in 1 .. d /\ requests'[i] = O[k]
      BY <1>11, <2>2
    <3>2. requests'[i].restore = FALSE /\ requests'[i].id \in ToRestore
          /\ requests'[i].kind = "operation"
      BY <1>3, <1>5, <3>1
    <3>3. ASSUME NEW j \in n + 1 .. (n + c) + d, requests'[j] = requests'[i]
          PROVE  j = i
      <4>1. j \notin n + 1 .. n + c
        BY <1>4, <1>11, <3>2, <3>3
      <4>2. j \in (n + c) + 1 .. (n + c) + d
        BY <1>1, <1>7, <4>1
      <4>3. j - (n + c) \in 1 .. d /\ requests'[j] = O[j - (n + c)]
        BY <1>11, <4>2
      <4>4. j - (n + c) = k
        BY <1>6, <3>1, <3>3, <4>3
      <4> QED BY <1>1, <1>7, <4>4
    <3> QED BY <3>2, <3>3
  <2>3. i \in n + 1 .. n + c \/ i \in (n + c) + 1 .. (n + c) + d
    BY <1>1, <1>7
  <2> QED BY <2>1, <2>2, <2>3
<1>13. ASSUME NEW i \in n + 1 .. (n + c) + d, NEW j \in n + 1 .. (n + c) + d, i < j,
              requests'[i].kind = "operation", requests'[j].kind = "operation"
       PROVE  Before(requests'[i].id, requests'[j].id)
  <2>1. /\ i \in n + 1 .. n + c \/ i \in (n + c) + 1 .. (n + c) + d
        /\ j \in n + 1 .. n + c \/ j \in (n + c) + 1 .. (n + c) + d
    BY <1>1, <1>7
  <2>2. i \in (n + c) + 1 .. (n + c) + d /\ j \in (n + c) + 1 .. (n + c) + d
    BY <1>4, <1>11, <1>13, <2>1
  <2> DEFINE k == i - (n + c)
             l == j - (n + c)
  <2>3. /\ k \in 1 .. d /\ requests'[i] = O[k]
        /\ l \in 1 .. d /\ requests'[j] = O[l]
    BY <1>11, <2>2
  <2>4. k < l
    <3>1. n + c \in Int /\ i \in Int /\ j \in Int /\ i < j
      BY <1>1, <1>7, <1>13
    <3> QED BY <3>1
  <2> HIDE DEF k, l
  <2> QED BY <1>3, <1>5, <2>3, <2>4
<1>14. ASSUME NEW o \in ToRestore
       PROVE  \E i \in n + 1 .. (n + c) + d : requests'[i] = Operation(o)
  <2>1. ops \in Injection(1 .. d, ToRestore)
    BY <1>3, <1>6 DEF Injection, IsInjective
  <2>2. IsFiniteSet(ToRestore) /\ Cardinality(1 .. d) = d
    <3>1. Cardinality(1 .. d) = IF 1 > d THEN 0 ELSE d - 1 + 1
      BY <1>1, FS_Interval
    <3> QED BY <1>1, <3>1, FiniteToRestore
  <2>3. ops \in Surjection(1 .. d, ToRestore)
    BY <2>1, <2>2, FS_Injection DEF d
  <2>4. PICK k \in 1 .. d : ops[k] = o
    BY <2>3 DEF Surjection
  <2> DEFINE i == (n + c) + k
  <2>5. i \in (n + c) + 1 .. (n + c) + d /\ i \in n + 1 .. (n + c) + d /\ i - (n + c) = k
    BY <1>1, <1>7
  <2>6. requests'[i] = O[k]
    BY <1>11, <2>5
  <2> QED BY <1>5, <2>4, <2>5, <2>6
<1>15. ASSUME NEW q \in Listening
       PROVE  \E i \in n + 1 .. (n + c) + d : requests'[i] = Listen(listens[q])
  <2>1. active \in Injection(1 .. c, Listening)
    <3>1. \A i, j \in 1 .. c : active[i] = active[j] => ~(i < j) /\ ~(j < i)
      BY <1>3
    <3>2. \A i, j \in 1 .. c : active[i] = active[j] => i = j
      BY <1>1, <3>1
    <3> QED BY <1>3, <3>2 DEF Injection, IsInjective
  <2>2. IsFiniteSet(Listening) /\ Cardinality(1 .. c) = c
    <3>1. Cardinality(1 .. c) = IF 1 > c THEN 0 ELSE c - 1 + 1
      BY <1>1, FS_Interval
    <3> QED BY <1>1, <3>1, FiniteToRestore
  <2>3. active \in Surjection(1 .. c, Listening)
    BY <2>1, <2>2, FS_Injection DEF c
  <2>4. PICK k \in 1 .. c : active[k] = q
    BY <2>3 DEF Surjection
  <2> DEFINE i == n + k
  <2>5. i \in n + 1 .. n + c /\ i \in n + 1 .. (n + c) + d /\ i - n = k
    BY <1>1, <1>7
  <2>6. requests'[i] = L[k]
    BY <1>11, <2>5
  <2> QED BY <1>4, <2>4, <2>5, <2>6
<1> QED BY <1>7, <1>9, <1>10, <1>11, <1>12, <1>13, <1>14, <1>15 DEF n, c

-----------------------------------------------------------------------------
(* The connection.                                                         *)

\* What a step leaves of the connection.
ConnectionKept == ConnectionTypeOK /\ ConnectionInv

\* tryScheduleReconnect schedules a retry, or remembers to force a refresh.
LEMMA ScheduleTypes ==
  ASSUME ConnectionTypeOK, NEW force \in BOOLEAN, TryScheduleReconnect(force)
  PROVE  scheduledRetry' \in {"None", "Cached", "Forced"} /\ forceTokenRefreshes' \in BOOLEAN
BY DEF ConnectionTypeOK, TryScheduleReconnect

\* A connection that is lost leaves nothing behind.
LEMMA DisconnectsConnection ==
  ASSUME ConnectionKept, NEW force \in BOOLEAN, Disconnects(force),
         interruptReasons' \subseteq Reasons, authToken' \in Tokens
  PROVE  ConnectionKept'
<1>1. scheduledRetry' \in {"None", "Cached", "Forced"} /\ forceTokenRefreshes' \in BOOLEAN
  BY ScheduleTypes DEF Disconnects, ConnectionKept
<1>2. /\ connectionState' = "Disconnected" /\ realtime' = "None"
      /\ requests' = <<>> /\ responses' = <<>> /\ fetch' = fetch /\ staleFetches' = staleFetches
  BY DEF Disconnects
<1> QED BY <1>1, <1>2 DEF ConnectionKept, ConnectionTypeOK, ConnectionInv, ConnectionAssertions,
              Connected, States

\* Without a connection there is only the retry to cancel.
LEMMA CancelsRetryConnection ==
  ASSUME ConnectionKept, realtime = "None", CancelsRetry,
         interruptReasons' \subseteq Reasons, authToken' = authToken
  PROVE  ConnectionKept'
BY DEF CancelsRetry, ConnectionKept, ConnectionTypeOK, ConnectionInv, ConnectionAssertions,
       Connected, States, requestVars

\* A retry is scheduled only while disconnected.
LEMMA SchedulesConnection ==
  ASSUME ConnectionKept, NEW force \in BOOLEAN, TryScheduleReconnect(force),
         connectionState \in {"Disconnected", "GettingToken"}, connectionState' = "Disconnected",
         interruptReasons' \subseteq Reasons, fetch' \in {fetch, NoFetch}, staleFetches' = 0,
         UNCHANGED <<realtime, authToken, requests, responses>>
  PROVE  ConnectionKept'
<1>1. scheduledRetry' \in {"None", "Cached", "Forced"} /\ forceTokenRefreshes' \in BOOLEAN
  BY ScheduleTypes DEF ConnectionKept
<1> QED BY <1>1 DEF ConnectionKept, ConnectionTypeOK, ConnectionInv, ConnectionAssertions,
              Connected, States

\* Steps that leave the connection alone.
LEMMA SameConnection ==
  ASSUME ConnectionKept, UNCHANGED connectionVars,
         realtime # "Connected" => UNCHANGED <<requests, responses>>
  PROVE  ConnectionKept'
BY DEF ConnectionKept, ConnectionTypeOK, ConnectionInv, ConnectionAssertions, Connected,
       connectionVars

LEMMA InterruptConnection ==
  ASSUME ConnectionKept, NEW reason \in Reasons, Interrupt(reason)
  PROVE  ConnectionKept'
<1>1. interruptReasons' \subseteq Reasons /\ forceTokenRefreshes \in BOOLEAN
      /\ authToken' = authToken /\ authToken \in Tokens
  BY DEF Interrupt, ConnectionKept, ConnectionTypeOK
<1>2. CASE realtime # "None"
  <2>1. Disconnects(forceTokenRefreshes)
    BY <1>2 DEF Interrupt
  <2> QED BY <1>1, <2>1, DisconnectsConnection
<1>3. CASE realtime = "None"
  <2>1. CancelsRetry
    BY <1>3 DEF Interrupt
  <2> QED BY <1>1, <1>3, <2>1, CancelsRetryConnection
<1> QED BY <1>2, <1>3

LEMMA ResumeConnection ==
  ASSUME ConnectionKept, NEW reason \in Reasons, Resume(reason)
  PROVE  ConnectionKept'
<1>1. /\ interruptReasons' \subseteq Reasons /\ forceTokenRefreshes \in BOOLEAN
      /\ UNCHANGED <<connectionState, realtime, fetch, staleFetches, authToken, requests, responses>>
  BY DEF Resume, ConnectionKept, ConnectionTypeOK, requestVars
<1>2. CASE connectionState = "Disconnected"
  <2>1. TryScheduleReconnect(forceTokenRefreshes) /\ connectionState' = "Disconnected"
    BY <1>1, <1>2 DEF Resume
  <2>2. staleFetches' = 0
    BY <1>1 DEF ConnectionKept, ConnectionInv
  <2> QED BY <1>1, <1>2, <2>1, <2>2, SchedulesConnection
<1>3. CASE connectionState # "Disconnected"
  <2>1. UNCHANGED <<scheduledRetry, forceTokenRefreshes>>
    BY <1>3 DEF Resume
  <2> QED BY <1>1, <2>1 DEF ConnectionKept, ConnectionTypeOK, ConnectionInv,
                ConnectionAssertions, Connected
<1> QED BY <1>2, <1>3

LEMMA ClockConnection ==
  ASSUME ConnectionKept, SystemClockChanges
  PROVE  ConnectionKept'
<1>1. /\ interruptReasons' \subseteq Reasons /\ forceTokenRefreshes \in BOOLEAN
      /\ authToken' = authToken /\ authToken \in Tokens
  BY DEF SystemClockChanges, ConnectionKept, ConnectionTypeOK
<1>2. CASE realtime # "None" /\ Disconnects(forceTokenRefreshes)
  BY <1>1, <1>2, DisconnectsConnection
<1>3. CASE realtime = "None" /\ CancelsRetry
  BY <1>1, <1>3, CancelsRetryConnection
<1>4. ASSUME realtime = "None", connectionState' = "Disconnected",
             TryScheduleReconnect(forceTokenRefreshes),
             UNCHANGED <<realtime, fetch, staleFetches, requestVars>>
      PROVE  ConnectionKept'
  <2>1. scheduledRetry' \in {"None", "Cached", "Forced"} /\ forceTokenRefreshes' \in BOOLEAN
    BY <1>1, <1>4, ScheduleTypes DEF ConnectionKept
  <2> QED BY <1>1, <1>4, <2>1 DEF ConnectionKept, ConnectionTypeOK, ConnectionInv,
                ConnectionAssertions, Connected, States, requestVars
<1> QED BY <1>2, <1>3, <1>4 DEF SystemClockChanges

\* The block of tryScheduleReconnect.
LEMMA RetryConnection ==
  ASSUME ConnectionKept, RetryFires, StaleFailures = FALSE, token \in Tokens
  PROVE  ConnectionKept'
<1>1. /\ scheduledRetry # "None" /\ scheduledRetry' = "None" /\ connectionState' = "GettingToken"
      /\ fetch' = IF scheduledRetry = "Forced" THEN ForcedFetch ELSE token
      /\ UNCHANGED <<realtime, interruptReasons, forceTokenRefreshes, authToken, requests, responses>>
  BY DEF RetryFires, requestVars
<1>2. connectionState = "Disconnected" /\ staleFetches' = 0
  <2>1. staleFetches' = staleFetches + 0 /\ staleFetches = 0
    BY DEF RetryFires, ConnectionKept, ConnectionInv
  <2> QED BY <1>1, <2>1 DEF ConnectionKept, ConnectionInv, ConnectionAssertions
<1>3. fetch' \in Tokens \cup {NoFetch, ForcedFetch}
  BY <1>1
<1> QED BY <1>1, <1>2, <1>3 DEF ConnectionKept, ConnectionTypeOK, ConnectionInv,
              ConnectionAssertions, Connected, States

LEMMA FetchedConnection ==
  ASSUME ConnectionKept, FetchSucceeds, token \in Tokens, revoked \in Nat
  PROVE  ConnectionKept' /\ token' \in Tokens
<1>1. /\ fetch # NoFetch /\ fetch' = NoFetch /\ TokenArrives(Fetched)
      /\ token' = IF fetch = ForcedFetch THEN Fetched ELSE token
      /\ UNCHANGED <<interruptReasons, scheduledRetry, forceTokenRefreshes, staleFetches>>
  BY DEF FetchSucceeds
<1>2. Fetched \in Tokens
  <2>1. fetch \in Tokens \cup {ForcedFetch}
    BY <1>1 DEF ConnectionKept, ConnectionTypeOK
  <2>2. CASE fetch # ForcedFetch
    BY <2>1, <2>2 DEF Fetched
  <2>3. CASE fetch = ForcedFetch /\ token \in 1 .. revoked
    BY <2>3 DEF Fetched, Tokens
  <2>4. CASE fetch = ForcedFetch /\ token \notin 1 .. revoked
    BY <2>4 DEF Fetched
  <2> QED BY <2>2, <2>3, <2>4
<1>3. CASE connectionState = "GettingToken"
  <2>1. /\ authToken' = Fetched /\ connectionState' = "Connecting" /\ realtime' = "Connecting"
        /\ requests' = <<>> /\ responses' = <<>>
    BY <1>1, <1>3 DEF TokenArrives, OpenNetworkConnection
  <2> QED BY <1>1, <1>2, <1>3, <2>1 DEF ConnectionKept, ConnectionTypeOK, ConnectionInv,
                ConnectionAssertions, Connected, States
<1>4. CASE connectionState # "GettingToken"
  <2>1. UNCHANGED <<connectionState, realtime, authToken, requests, responses>>
    BY <1>1, <1>4 DEF TokenArrives, requestVars
  <2> QED BY <1>1, <1>2, <2>1 DEF ConnectionKept, ConnectionTypeOK, ConnectionInv,
                ConnectionAssertions, Connected
<1> QED BY <1>3, <1>4

LEMMA FailedConnection ==
  ASSUME ConnectionKept, FetchFails, StaleFailures = FALSE
  PROVE  ConnectionKept'
<1>1. /\ fetch # NoFetch /\ fetch' = NoFetch /\ staleFetches' = staleFetches
  BY DEF FetchFails
<1>2. /\ connectionState' = "Disconnected" /\ interruptReasons' \subseteq Reasons
      /\ TryScheduleReconnect(forceTokenRefreshes) /\ forceTokenRefreshes \in BOOLEAN
      /\ UNCHANGED <<realtime, authToken, requests, responses>>
  BY DEF FetchFails, requestVars, ConnectionKept, ConnectionTypeOK
<1>3. connectionState \in {"Disconnected", "GettingToken"} /\ staleFetches' = 0
  BY <1>1 DEF ConnectionKept, ConnectionInv, ConnectionAssertions
<1> QED BY <1>1, <1>2, <1>3, SchedulesConnection

\* A handshake ends connecting.
LEMMA HandshakeConnection ==
  ASSUME ConnectionKept, Handshake
  PROVE  ConnectionKept'
<1>1. /\ connectionState = "Connecting" /\ realtime' = "Connected"
      /\ connectionState' \in {"Authenticating", "Connected"}
      /\ UNCHANGED <<interruptReasons, scheduledRetry, forceTokenRefreshes, fetch, staleFetches,
                     authToken>>
  BY DEF Handshake, RestoreState, ConnectionKept, ConnectionInv, ConnectionAssertions
<1> QED BY <1>1 DEF ConnectionKept, ConnectionTypeOK, ConnectionInv, ConnectionAssertions,
              Connected, States

LEMMA RejectsConnection ==
  ASSUME ConnectionKept, RejectsToken
  PROVE  ConnectionKept'
<1>1. Disconnects(TRUE) /\ interruptReasons' \subseteq Reasons /\ authToken' \in Tokens
  BY DEF RejectsToken, ConnectionKept, ConnectionTypeOK, Tokens, NoToken
<1> QED BY <1>1, DisconnectsConnection

\* Answers arrive on an open connection only.
LEMMA ReceivesConnection ==
  ASSUME ConnectionKept, Receives
  PROVE  ConnectionKept'
<1> DEFINE response == Head(responses)
<1>1. responses # <<>> /\ realtime = "Connected"
  BY DEF Receives, ConnectionKept, ConnectionInv
<1>2. CASE AuthAnswered(response)
  <2>1. CASE RejectsToken
    BY <2>1, RejectsConnection
  <2>2. ASSUME connectionState' = "Connected",
               UNCHANGED <<realtime, interruptReasons, scheduledRetry, forceTokenRefreshes, fetch,
                           staleFetches, authToken>>
        PROVE  ConnectionKept'
    BY <1>1, <2>2 DEF ConnectionKept, ConnectionTypeOK, ConnectionInv, ConnectionAssertions,
                      Connected, States
  <2>3. response.ok => /\ connectionState' = "Connected"
                       /\ UNCHANGED <<realtime, interruptReasons, scheduledRetry,
                                      forceTokenRefreshes, fetch, staleFetches, authToken>>
    BY <1>2 DEF AuthAnswered, RestoreState
  <2>4. ~response.ok => RejectsToken
    BY <1>2 DEF AuthAnswered
  <2> QED BY <2>1, <2>2, <2>3, <2>4
<1>3. CASE UNCHANGED connectionVars
  BY <1>1, <1>3, SameConnection
<1> QED BY <1>2, <1>3 DEF Receives

-----------------------------------------------------------------------------
(* Operations, requests and answers.                                       *)

\* What a step leaves of them.
RequestsKept ==
  /\ RequestsTypeOK /\ log \in Seq(Operations)
  /\ AuthFirst /\ OperationsInv /\ TransactionsInv /\ ToldInv
  /\ ListensCounted

LEMMA RequestTypes ==
  ASSUME RequestsTypeOK
  PROVE  /\ operations \in [Operations -> OperationRecords]
         /\ \A o \in Operations : operations[o] \in OperationRecords
         /\ requests \in Seq(RequestRecords) /\ Len(requests) \in Nat
         /\ DOMAIN requests = 1 .. Len(requests)
         /\ \A i \in 1 .. Len(requests) : requests[i] \in RequestRecords
         /\ responses \in Seq(ResponseRecords) /\ Len(responses) \in Nat
         /\ DOMAIN responses = 1 .. Len(responses)
         /\ \A i \in 1 .. Len(responses) :
              responses[i] \in ResponseRecords /\ responses[i].request \in RequestRecords
<1>1. requests \in Seq(RequestRecords) /\ responses \in Seq(ResponseRecords)
  BY DEF RequestsTypeOK, ResponseRecords
<1>2. \A i \in 1 .. Len(responses) :
        responses[i] \in ResponseRecords /\ responses[i].request \in RequestRecords
  <2>1. \A i \in 1 .. Len(responses) : responses[i] \in ResponseRecords
    BY <1>1, ElementOfSeq
  <2> QED BY <2>1 DEF ResponseRecords
<1> QED BY <1>1, <1>2, LenProperties, ElementOfSeq DEF RequestsTypeOK

\* ListensCounted in terms of the answers and the requests.
LEMMA CountedByParts ==
  ASSUME RequestsTypeOK
  PROVE  /\ ListensCounted <=> unackedListens = Unanswered(responses, requests)
         /\ Unanswered(responses, requests) \in Nat
<1>1. responses \in Seq(ResponseRecords) /\ requests \in Seq(RequestRecords)
  BY RequestTypes
<1>2. Wire = AnsweredOf(responses) \o requests
  BY DEF Wire, AnsweredOf
<1>3. Cardinality({i \in DOMAIN Wire : Wire[i].kind = "listen"}) = ListensIn(Wire)
  BY DEF ListensIn, AreListens
<1> QED BY <1>1, <1>2, <1>3, UnansweredOnWire DEF ListensCounted

LEMMA CountedAgain ==
  ASSUME RequestsTypeOK', unackedListens' = Unanswered(responses', requests')
  PROVE  ListensCounted'
<1>1. responses' \in Seq(ResponseRecords) /\ requests' \in Seq(RequestRecords)
  BY DEF RequestsTypeOK, ResponseRecords
<1>2. Wire' = AnsweredOf(responses') \o requests'
  BY DEF Wire, AnsweredOf
<1>3. ListensCounted' <=> unackedListens' = ListensIn(Wire')
  BY DEF ListensIn, AreListens, ListensCounted
<1> QED BY <1>1, <1>2, <1>3, UnansweredOnWire

\* The application's calls aside, an operation keeps its kind, and once it was called
\* it stays where it is or has been answered.
MovesOn(op, new) ==
  /\ new.kind = op.kind
  /\ new.place = op.place \/ (op.place # "New" /\ new.place \in {"ToAck", "Gone"})

LEMMA OperationsMoveOn ==
  ASSUME RequestsTypeOK, log \in Seq(Operations), OperationsInv, TransactionsInv,
         \A o \in Operations : MovesOn(operations[o], operations'[o]),
         log' = log, requests' = requests \/ requests' = <<>>,
         \A i \in DOMAIN responses' : \E j \in DOMAIN responses : responses'[i] = responses[j],
         \/ connectionState' = connectionState
         \/ \A o \in Operations : operations'[o].kind = "transaction" => operations'[o].place # "Sent"
  PROVE  OperationsInv' /\ TransactionsInv'
<1>1. \A i \in DOMAIN requests : requests[i].kind = "operation" => requests[i].id \in Operations
  BY RequestTypes, RequestFields
<1>2. \A i \in DOMAIN responses : responses[i].request.kind = "operation" =>
        responses[i].request.id \in Operations
  BY RequestTypes, RequestFields
<1>3. \A i \in DOMAIN log : log[i] \in Operations
  OBVIOUS
<1>4. \A o \in Operations : /\ operations[o].place # "New" => operations'[o].place # "New"
                            /\ Unsent(o)' => Unsent(o)
                            /\ IsTransaction(o)' <=> IsTransaction(o)
                            /\ operations'[o].place = "Sent" => operations[o].place = "Sent"
  BY DEF MovesOn, Unsent, IsTransaction
<1>5. \A i \in DOMAIN requests' : i \in DOMAIN requests /\ requests'[i] = requests[i]
                                 /\ requests' = requests
  OBVIOUS
<1>6. OperationsInv'
  <2>1. \A i \in DOMAIN requests' : requests'[i].kind = "operation" =>
          operations'[requests'[i].id].place # "New"
    BY <1>1, <1>4, <1>5 DEF OperationsInv
  <2>2. \A i \in DOMAIN responses' : responses'[i].request.kind = "operation" =>
          operations'[responses'[i].request.id].place # "New"
    BY <1>2, <1>4 DEF OperationsInv
  <2>3. \A i \in DOMAIN log : operations'[log[i]].place # "New"
    BY <1>3, <1>4 DEF OperationsInv
  <2> QED BY <2>1, <2>2, <2>3 DEF OperationsInv
<1>7. TransactionsInv'
  <2>1. ASSUME NEW o \in Operations, IsTransaction(o)', operations'[o].place = "Sent"
        PROVE  connectionState' = "Connected"
    <3>1. IsTransaction(o) /\ operations[o].place = "Sent"
      BY <1>4, <2>1
    <3>2. connectionState = "Connected"
      BY <3>1 DEF TransactionsInv
    <3> QED BY <2>1, <3>2 DEF IsTransaction
  <2>2. ASSUME NEW i \in DOMAIN requests', requests'[i].kind = "operation",
               IsTransaction(requests[i].id)'
        PROVE  /\ ~Unsent(requests[i].id)'
               /\ \A j \in DOMAIN requests' : requests'[j] = requests'[i] => j = i
               /\ \A j \in DOMAIN log : log[j] # requests'[i].id
    <3>1. /\ i \in DOMAIN requests /\ requests' = requests /\ requests[i].id \in Operations
          /\ requests[i].kind = "operation"
      BY <1>1, <1>5, <2>2
    <3>2. IsTransaction(requests[i].id)
      BY <1>4, <2>2, <3>1 DEF IsTransaction
    <3>3. /\ ~Unsent(requests[i].id)
          /\ \A j \in DOMAIN requests : requests[j] = requests[i] => j = i
          /\ \A j \in DOMAIN log : log[j] # requests[i].id
      BY <3>1, <3>2 DEF TransactionsInv
    <3>4. ~Unsent(requests[i].id)'
      BY <1>4, <3>1, <3>3 DEF Unsent
    <3> QED BY <3>1, <3>3, <3>4
  <2>3. ASSUME NEW i \in DOMAIN log, IsTransaction(log[i])'
        PROVE  /\ ~Unsent(log[i])'
               /\ \A j \in DOMAIN log : log[j] = log[i] => j = i
    <3>1. log[i] \in Operations /\ IsTransaction(log[i])
      BY <1>3, <1>4, <2>3 DEF IsTransaction
    <3>2. /\ ~Unsent(log[i])
          /\ \A j \in DOMAIN log : log[j] = log[i] => j = i
      BY <3>1 DEF TransactionsInv
    <3>3. ~Unsent(log[i])'
      BY <1>4, <3>1, <3>2 DEF Unsent
    <3> QED BY <3>2, <3>3
  <2> QED BY <2>1, <2>2, <2>3 DEF TransactionsInv, IsTransaction, Unsent
<1> QED BY <1>6, <1>7

\* What has been told stays true.
LEMMA TellingMovesOn ==
  ASSUME RequestsTypeOK, ToldInv, log' = log,
         \A o \in Operations :
           /\ operations'[o].kind = operations[o].kind
           /\ ToldOnce(operations'[o])
           /\ operations'[o].kind \in Puts /\ operations'[o].outcome = "ok" => o \in Applied,
         \A i \in DOMAIN responses' : \E j \in DOMAIN responses : responses'[i] = responses[j]
  PROVE  ToldInv'
<1>1. Applied' = Applied
  BY DEF Applied
<1>2. ASSUME NEW i \in DOMAIN responses',
             responses'[i].ok, responses'[i].request.kind = "operation",
             operations'[responses'[i].request.id].kind \in Puts
      PROVE  responses'[i].request.id \in Applied
  <2>1. PICK j \in DOMAIN responses : responses'[i] = responses[j]
    OBVIOUS
  <2>2. responses[j].request.id \in Operations
    BY <1>2, <2>1, RequestTypes, RequestFields
  <2>3. operations[responses[j].request.id].kind \in Puts
    BY <1>2, <2>1, <2>2
  <2> QED BY <1>2, <2>1, <2>3 DEF ToldInv
<1> QED BY <1>1, <1>2 DEF ToldInv

wireVars == <<operations, listens, unackedListens, requests, responses>>

\* Nothing about the requests changes.
LEMMA SameRequests ==
  ASSUME RequestsKept, UNCHANGED <<connectionState, wireVars, log>>
  PROVE  RequestsKept'
BY DEF RequestsKept, RequestsTypeOK, AuthFirst, OperationsInv, TransactionsInv, Unsent,
       IsTransaction, ToldInv, Applied, ListensCounted, Wire, wireVars

\* Without an open connection the state of the connection does not matter to them.
LEMMA IdleRequests ==
  ASSUME RequestsKept, ~Connected, connectionState' \notin {"Authenticating", "Connected"},
         requests = <<>>, responses = <<>>,
         UNCHANGED <<wireVars, log>>
  PROVE  RequestsKept'
<1>1. RequestsTypeOK' /\ log' \in Seq(Operations) /\ ToldInv' /\ ListensCounted'
  BY DEF RequestsKept, RequestsTypeOK, ToldInv, Applied, ListensCounted, Wire, wireVars
<1>2. AuthFirst'
  BY DEF AuthFirst, wireVars
<1>3. OperationsInv'
  BY DEF RequestsKept, OperationsInv, wireVars
<1>4. TransactionsInv'
  BY DEF RequestsKept, TransactionsInv, Unsent, IsTransaction, wireVars, Connected
<1> QED BY <1>1, <1>2, <1>3, <1>4 DEF RequestsKept

\* A lost connection takes the requests and the answers with it, and the transactions
\* that were sent.
LEMMA DropsRequests ==
  ASSUME RequestsKept, NEW force \in BOOLEAN, Disconnects(force), log' = log
  PROVE  RequestsKept'
<1>1. /\ connectionState' = "Disconnected" /\ operations' = SentTransactionsCanceled
      /\ requests' = <<>> /\ responses' = <<>> /\ unackedListens' = 0 /\ listens' = listens
  BY DEF Disconnects
<1>2. RequestsTypeOK /\ operations \in [Operations -> OperationRecords] /\ log \in Seq(Operations)
  BY DEF RequestsKept, RequestsTypeOK
<1>3. /\ operations' \in [Operations -> OperationRecords]
      /\ \A o \in Operations :
           IF operations[o].kind = "transaction" /\ operations[o].place = "Sent"
           THEN operations'[o] = Told(operations[o], "disconnect")
           ELSE operations'[o] = operations[o]
  BY <1>1, <1>2, SentTransactionsCanceledFields
<1>4. RequestsTypeOK'
  BY <1>1, <1>2, <1>3 DEF RequestsTypeOK
<1>5. ASSUME NEW o \in Operations
      PROVE  /\ MovesOn(operations[o], operations'[o])
             /\ operations'[o].kind = "transaction" => operations'[o].place # "Sent"
             /\ ToldOnce(operations'[o])
             /\ operations'[o].kind \in Puts /\ operations'[o].outcome = "ok" => o \in Applied
  <2>1. operations[o] \in OperationRecords /\ operations[o].told \in Nat
    BY <1>2 DEF OperationRecords
  <2>2. /\ ToldOnce(operations[o])
        /\ operations[o].kind \in Puts /\ operations[o].outcome = "ok" => o \in Applied
    BY DEF RequestsKept, ToldInv
  <2>3. CASE operations[o].kind = "transaction" /\ operations[o].place = "Sent"
    <3>1. operations'[o] = Told(operations[o], "disconnect") /\ operations[o].told = 0
      BY <1>3, <2>2, <2>3 DEF ToldOnce
    <3>2. /\ operations'[o].place = "Gone" /\ operations'[o].outcome = "disconnect"
          /\ operations'[o].told = 1 /\ operations'[o].kind = operations[o].kind
      BY <2>1, <3>1, ToldFields DEF Outcomes
    <3> QED BY <2>3, <3>2 DEF MovesOn, ToldOnce
  <2>4. CASE ~(operations[o].kind = "transaction" /\ operations[o].place = "Sent")
    <3>1. operations'[o] = operations[o]
      BY <1>3, <2>4
    <3> QED BY <2>2, <2>4, <3>1 DEF MovesOn
  <2> QED BY <2>3, <2>4
<1>6. DOMAIN responses' = {} /\ DOMAIN requests' = {}
  BY <1>1
<1>7. OperationsInv' /\ TransactionsInv'
  BY <1>1, <1>2, <1>5, <1>6, OperationsMoveOn DEF RequestsKept
<1>8. ToldInv'
  BY <1>2, <1>5, <1>6, TellingMovesOn DEF RequestsKept, MovesOn
<1>9. AuthFirst'
  BY <1>1, <1>6 DEF AuthFirst
<1>10. ListensCounted'
  <2>1. AnsweredOf(<<>>) = <<>>
    BY DEF AnsweredOf
  <2>2. Unanswered(<<>>, <<>>) = 0
    BY <2>1, ListensInEmpty DEF Unanswered
  <2> QED BY <1>1, <1>4, <2>2, CountedAgain
<1> QED BY <1>2, <1>4, <1>7, <1>8, <1>9, <1>10 DEF RequestsKept

\* One operation moves on.
LEMMA OneMovesOn ==
  ASSUME RequestsKept, NEW o \in Operations, NEW new \in OperationRecords,
         MovesOn(operations[o], new), ToldOnce(new),
         new.kind \in Puts /\ new.outcome = "ok" => o \in Applied,
         operations' = [operations EXCEPT ![o] = new],
         UNCHANGED <<connectionState, requests, log>>,
         \A i \in DOMAIN responses' : \E j \in DOMAIN responses : responses'[i] = responses[j]
  PROVE  /\ operations' \in [Operations -> OperationRecords]
         /\ OperationsInv' /\ TransactionsInv' /\ ToldInv'
<1>1. operations \in [Operations -> OperationRecords] /\ RequestsTypeOK /\ log \in Seq(Operations)
  BY DEF RequestsKept, RequestsTypeOK
<1>2. /\ operations' \in [Operations -> OperationRecords] /\ operations'[o] = new
      /\ \A p \in Operations : p # o => operations'[p] = operations[p]
  BY <1>1
<1>3. \A p \in Operations :
        /\ ToldOnce(operations[p])
        /\ operations[p].kind \in Puts /\ operations[p].outcome = "ok" => p \in Applied
  BY DEF RequestsKept, ToldInv
<1>4. ASSUME NEW p \in Operations
      PROVE  /\ MovesOn(operations[p], operations'[p])
             /\ ToldOnce(operations'[p])
             /\ operations'[p].kind \in Puts /\ operations'[p].outcome = "ok" => p \in Applied
  <2>1. CASE p = o
    BY <1>2, <2>1
  <2>2. CASE p # o
    <3>1. operations'[p] = operations[p]
      BY <1>2, <2>2
    <3> QED BY <1>3, <3>1 DEF MovesOn
  <2> QED BY <2>1, <2>2
<1>5. OperationsInv' /\ TransactionsInv'
  BY <1>1, <1>4, OperationsMoveOn DEF RequestsKept
<1>6. ToldInv'
  BY <1>1, <1>4, TellingMovesOn DEF RequestsKept, MovesOn
<1> QED BY <1>2, <1>5, <1>6

\* Purging, and a get that times out.
LEMMA PurgesRequests ==
  ASSUME RequestsKept, PurgeOutstandingWrites
  PROVE  RequestsKept'
<1>1. /\ operations' = [o \in Operations |-> Purged(operations[o])]
      /\ UNCHANGED <<connectionState, listens, unackedListens, requests, responses, log>>
  BY DEF PurgeOutstandingWrites, connectionVars, outside
<1>2. RequestsTypeOK /\ log \in Seq(Operations)
      /\ \A o \in Operations : operations[o] \in OperationRecords
  BY RequestTypes DEF RequestsKept
<1>3. ASSUME NEW o \in Operations
      PROVE  /\ operations'[o] \in OperationRecords
             /\ MovesOn(operations[o], operations'[o])
             /\ ToldOnce(operations'[o])
             /\ operations'[o].kind \in Puts /\ operations'[o].outcome = "ok" => o \in Applied
  <2> DEFINE op == operations[o]
  <2>1. op \in OperationRecords /\ operations'[o] = Purged(op) /\ op.told \in Nat
        /\ op.outcome \in Outcomes \cup {"None"}
    BY <1>1, <1>2 DEF OperationRecords
  <2>2. /\ ToldOnce(op)
        /\ op.kind \in Puts /\ op.outcome = "ok" => o \in Applied
    BY DEF RequestsKept, ToldInv
  <2> HIDE DEF op
  <2>3. ASSUME NEW outcome \in Outcomes, operations'[o] = Told(op, outcome),
               op.place \notin {"New", "Gone"}, outcome \in {op.outcome, "canceled"}
        PROVE  /\ operations'[o] \in OperationRecords
               /\ MovesOn(op, operations'[o])
               /\ ToldOnce(operations'[o])
               /\ operations'[o].kind \in Puts /\ operations'[o].outcome = "ok" => o \in Applied
    <3>1. op.told = 0
      BY <2>2, <2>3 DEF ToldOnce
    <3>2. /\ operations'[o] \in OperationRecords
          /\ operations'[o].place = "Gone" /\ operations'[o].outcome = outcome
          /\ operations'[o].told = 1 /\ operations'[o].kind = op.kind
      BY <2>1, <2>3, <3>1, ToldFields
    <3> QED BY <2>2, <2>3, <3>2 DEF MovesOn, ToldOnce
  <2>4. CASE op.place = "ToAck"
    <3>1. operations'[o] = Told(op, op.outcome)
      BY <2>1, <2>4 DEF Purged, IsOutstandingPut
    <3>2. op.outcome \in Outcomes
      BY <2>2, <2>4 DEF ToldOnce, Outcomes
    <3> QED BY <2>3, <2>4, <3>1, <3>2 DEF op
  <2>5. CASE IsOutstandingPut(op) \/ (op.kind = "onDisconnect" /\ op.place = "Outstanding")
    <3>1. operations'[o] = Told(op, "canceled") /\ op.place \notin {"New", "Gone"}
      BY <2>1, <2>5 DEF Purged, IsOutstandingPut
    <3> QED BY <2>3, <3>1 DEF Outcomes, op
  <2>6. CASE /\ op.place # "ToAck"
             /\ ~(IsOutstandingPut(op) \/ (op.kind = "onDisconnect" /\ op.place = "Outstanding"))
    <3>1. operations'[o] = op
      BY <2>1, <2>6 DEF Purged
    <3> QED BY <2>1, <2>2, <3>1 DEF MovesOn, op
  <2> QED BY <2>4, <2>5, <2>6
<1>4. RequestsTypeOK'
  <2>1. operations' \in [Operations -> OperationRecords]
    BY <1>1, <1>3
  <2> QED BY <1>1, <1>2, <2>1 DEF RequestsTypeOK
<1>5. OperationsInv' /\ TransactionsInv'
  BY <1>1, <1>2, <1>3, OperationsMoveOn DEF RequestsKept
<1>6. ToldInv'
  BY <1>1, <1>2, <1>3, TellingMovesOn DEF RequestsKept, MovesOn
<1>7. AuthFirst' /\ ListensCounted'
  BY <1>1 DEF RequestsKept, AuthFirst, ListensCounted, Wire
<1> QED BY <1>1, <1>2, <1>4, <1>5, <1>6, <1>7 DEF RequestsKept

LEMMA TimesOutRequests ==
  ASSUME RequestsKept, NEW o \in Operations, GetTimesOut(o)
  PROVE  RequestsKept'
<1> DEFINE op == operations[o]
           new == IF op.place = "Outstanding" THEN [Told(op, "failed") EXCEPT !.timer = FALSE]
                  ELSE [op EXCEPT !.timer = FALSE]
<1>1. op \in OperationRecords /\ op.told \in Nat
  BY RequestTypes DEF RequestsKept, OperationRecords
<1>2. /\ operations' = [operations EXCEPT ![o] = new]
      /\ UNCHANGED <<connectionState, listens, unackedListens, requests, responses, log>>
  BY DEF GetTimesOut, connectionVars, outside
<1>3. /\ ToldOnce(op)
      /\ op.kind \in Puts /\ op.outcome = "ok" => o \in Applied
  BY DEF RequestsKept, ToldInv
<1>4. /\ new \in OperationRecords /\ MovesOn(op, new) /\ ToldOnce(new)
      /\ new.kind \in Puts /\ new.outcome = "ok" => o \in Applied
  <2> HIDE DEF op
  <2>1. CASE op.place = "Outstanding"
    <3> DEFINE told == Told(op, "failed")
    <3>1. /\ told \in OperationRecords /\ told.place = "Gone" /\ told.outcome = "failed"
          /\ told.told = 1 /\ told.kind = op.kind
      BY <1>1, <1>3, <2>1, ToldFields DEF Outcomes, ToldOnce
    <3>2. new = [told EXCEPT !.timer = FALSE]
      BY <2>1
    <3> HIDE DEF told, new
    <3>3. /\ new \in OperationRecords /\ new.place = "Gone" /\ new.outcome = "failed"
          /\ new.told = 1 /\ new.kind = op.kind
      BY <3>1, <3>2 DEF OperationRecords
    <3> QED BY <2>1, <3>3 DEF MovesOn, ToldOnce
  <2>2. CASE op.place # "Outstanding"
    <3>1. new = [op EXCEPT !.timer = FALSE]
      BY <2>2
    <3> HIDE DEF new
    <3>2. /\ new \in OperationRecords /\ new.place = op.place /\ new.outcome = op.outcome
          /\ new.told = op.told /\ new.kind = op.kind
      BY <1>1, <3>1 DEF OperationRecords
    <3> QED BY <1>3, <3>2 DEF MovesOn, ToldOnce
  <2> QED BY <2>1, <2>2
<1> HIDE DEF new
<1>5. /\ operations' \in [Operations -> OperationRecords]
      /\ OperationsInv' /\ TransactionsInv' /\ ToldInv'
  BY <1>2, <1>4, OneMovesOn
<1>6. RequestsTypeOK'
  BY <1>2, <1>5 DEF RequestsKept, RequestsTypeOK
<1>7. AuthFirst' /\ ListensCounted'
  BY <1>2 DEF RequestsKept, AuthFirst, ListensCounted, Wire
<1> QED BY <1>2, <1>5, <1>6, <1>7 DEF RequestsKept

\* A request is sent after the others.
LEMMA SentLast ==
  ASSUME RequestsKept, NEW r \in RequestRecords, r.restore = FALSE,
         requests' = Append(requests, r), UNCHANGED <<connectionState, responses>>
  PROVE  /\ requests' \in Seq(RequestRecords) /\ DOMAIN requests' = 1 .. Len(requests) + 1
         /\ \A i \in 1 .. Len(requests) : requests'[i] = requests[i]
         /\ requests'[Len(requests) + 1] = r
         /\ AuthFirst'
         /\ Unanswered(responses', requests') =
              Unanswered(responses, requests) + (IF r.kind = "listen" THEN 1 ELSE 0)
<1> DEFINE n == Len(requests)
           one == IF r.kind = "listen" THEN 1 ELSE 0
<1>1. /\ requests \in Seq(RequestRecords) /\ n \in Nat /\ DOMAIN requests = 1 .. n
      /\ responses \in Seq(ResponseRecords) /\ AuthFirst
  BY RequestTypes DEF RequestsKept
<1>2. /\ requests' \in Seq(RequestRecords) /\ DOMAIN requests' = 1 .. n + 1
      /\ \A i \in 1 .. n : requests'[i] = requests[i]
      /\ requests'[n + 1] = r
  BY <1>1, AppendProperties, LenProperties
<1>3. AuthFirst'
  <2>1. connectionState' = "Authenticating" => responses' # <<>> \/ requests' # <<>>
    BY <1>1 DEF AuthFirst
  <2>2. ASSUME NEW i \in DOMAIN requests'
        PROVE  requests'[i].restore <=>
                 connectionState' = "Authenticating" /\ i = 1 /\ responses' = <<>>
    <3>1. CASE i \in 1 .. n
      BY <1>1, <1>2, <3>1 DEF AuthFirst
    <3>2. CASE i = n + 1
      <4>1. requests'[i].restore = FALSE
        BY <1>2, <3>2
      <4>2. connectionState = "Authenticating" /\ responses = <<>> => n # 0
        BY <1>1 DEF AuthFirst
      <4> QED BY <1>1, <3>2, <4>1, <4>2
    <3> QED BY <1>1, <1>2, <3>1, <3>2
  <2>3. \A i \in DOMAIN responses' :
          responses'[i].request.restore <=> connectionState' = "Authenticating" /\ i = 1
    BY <1>1 DEF AuthFirst
  <2> QED BY <2>1, <2>2, <2>3 DEF AuthFirst
<1>4. Unanswered(responses', requests') = Unanswered(responses, requests) + one
  <2>1. ListensIn(requests') = ListensIn(requests) + one
    BY <1>1, ListensInAppend
  <2>2. ListensIn(AnsweredOf(responses)) \in Nat /\ ListensIn(requests) \in Nat /\ one \in Nat
    BY <1>1, UnansweredOnWire
  <2> HIDE DEF one
  <2> QED BY <2>1, <2>2 DEF Unanswered
<1> QED BY <1>2, <1>3, <1>4

\* An auth or a listen is sent.
LEMMA SendsOther ==
  ASSUME RequestsKept, NEW r \in RequestRecords, r.restore = FALSE, r.kind # "operation",
         requests' = Append(requests, r),
         UNCHANGED <<connectionState, responses, operations, log>>
  PROVE  OperationsInv' /\ TransactionsInv' /\ ToldInv'
<1> DEFINE n == Len(requests)
<1>1. /\ DOMAIN requests' = 1 .. n + 1 /\ DOMAIN requests = 1 .. n /\ n \in Nat
      /\ \A i \in 1 .. n : requests'[i] = requests[i]
      /\ requests'[n + 1] = r
  BY SentLast, RequestTypes DEF RequestsKept
<1>2. \A i \in DOMAIN requests' : requests'[i].kind = "operation" =>
        i \in DOMAIN requests /\ requests'[i] = requests[i]
  BY <1>1
<1> HIDE DEF n
<1>3. OperationsInv'
  BY <1>2 DEF RequestsKept, OperationsInv
<1>4. TransactionsInv'
  <2>1. ASSUME NEW i \in DOMAIN requests', requests'[i].kind = "operation",
               IsTransaction(requests[i].id)
        PROVE  /\ ~Unsent(requests[i].id)
               /\ \A j \in DOMAIN requests' : requests'[j] = requests'[i] => j = i
               /\ \A j \in DOMAIN log : log[j] # requests[i].id
    <3>1. i \in DOMAIN requests /\ requests'[i] = requests[i]
      BY <1>2, <2>1
    <3>2. /\ ~Unsent(requests[i].id)
          /\ \A j \in DOMAIN requests : requests[j] = requests[i] => j = i
          /\ \A j \in DOMAIN log : log[j] # requests[i].id
      BY <2>1, <3>1 DEF RequestsKept, TransactionsInv
    <3>3. ASSUME NEW j \in DOMAIN requests', requests'[j] = requests'[i]
          PROVE  j = i
      <4>1. j \in DOMAIN requests /\ requests'[j] = requests[j]
        BY <1>2, <2>1, <3>3
      <4> QED BY <3>1, <3>2, <3>3, <4>1
    <3> QED BY <3>2, <3>3
  <2>2. \A i \in DOMAIN requests' : requests'[i].kind = "operation" => requests'[i] = requests[i]
    BY <1>2
  <2> QED BY <2>1, <2>2 DEF RequestsKept, TransactionsInv, IsTransaction, Unsent
<1>5. ToldInv'
  BY DEF RequestsKept, ToldInv, Applied
<1> QED BY <1>3, <1>4, <1>5

LEMMA AuthChangesRequests ==
  ASSUME RequestsKept, AuthChanges, revoked \in Nat
  PROVE  RequestsKept' /\ authToken' \in Tokens /\ token' \in Tokens
<1>1. /\ token' \in Tokens /\ authToken' = token'
      /\ requests' = IF Connected /\ token' # NoToken THEN Append(requests, Auth(token', FALSE))
                     ELSE requests
      /\ UNCHANGED <<connectionState, operations, listens, unackedListens, responses, log>>
  BY DEF AuthChanges, RefreshAuthToken, Tokens, NoToken
<1>2. CASE Connected /\ token' # NoToken
  <2> DEFINE r == Auth(token', FALSE)
  <2>1. r \in RequestRecords /\ r.kind = "auth" /\ r.restore = FALSE
    BY <1>1, <1>2, NewRequests
  <2>2. requests' = Append(requests, r)
    BY <1>1, <1>2
  <2> HIDE DEF r
  <2>3. OperationsInv' /\ TransactionsInv' /\ ToldInv'
    BY <1>1, <2>1, <2>2, SendsOther
  <2>4. /\ requests' \in Seq(RequestRecords) /\ AuthFirst'
        /\ Unanswered(responses', requests') = Unanswered(responses, requests) + 0
    BY <1>1, <2>1, <2>2, SentLast
  <2>5. RequestsTypeOK'
    BY <1>1, <2>4 DEF RequestsKept, RequestsTypeOK
  <2>6. unackedListens = Unanswered(responses, requests) /\ unackedListens \in Nat
    BY CountedByParts DEF RequestsKept, RequestsTypeOK
  <2>7. unackedListens' = Unanswered(responses', requests')
    <3> DEFINE u == Unanswered(responses, requests)
               v == Unanswered(responses', requests')
    <3>1. u \in Nat /\ v = u + 0 /\ unackedListens' = u
      BY <1>1, <2>4, <2>6
    <3> HIDE DEF u, v
    <3>2. unackedListens' = v
      BY <3>1
    <3> QED BY <3>2 DEF v
  <2> QED BY <1>1, <2>3, <2>4, <2>5, <2>7, CountedAgain DEF RequestsKept
<1>3. CASE ~(Connected /\ token' # NoToken)
  BY <1>1, <1>3, SameRequests DEF wireVars
<1> QED BY <1>1, <1>2, <1>3

LEMMA ListenRequests ==
  ASSUME RequestsKept, NEW q \in Queries, ListenTo(q), listenCount \in Nat
  PROVE  RequestsKept'
<1>1. /\ listenCount' = listenCount + 1 /\ listens' = [listens EXCEPT ![q] = listenCount']
      /\ UNCHANGED <<connectionState, operations, responses, log>>
  BY DEF ListenTo, connectionVars, outside
<1>2. listens' \in [Queries -> Nat] /\ listenCount' \in Nat \ {0}
  BY <1>1 DEF RequestsKept, RequestsTypeOK
<1>3. CASE Connected
  <2> DEFINE r == Listen(listenCount')
  <2>1. r \in RequestRecords /\ r.kind = "listen" /\ r.restore = FALSE
    BY <1>2, NewRequests DEF NotListening
  <2>2. requests' = Append(requests, r) /\ unackedListens' = unackedListens + 1
    BY <1>3 DEF ListenTo
  <2> HIDE DEF r
  <2>3. OperationsInv' /\ TransactionsInv' /\ ToldInv'
    BY <1>1, <2>1, <2>2, SendsOther
  <2>4. /\ requests' \in Seq(RequestRecords) /\ AuthFirst'
        /\ Unanswered(responses', requests') = Unanswered(responses, requests) + 1
    BY <1>1, <2>1, <2>2, SentLast
  <2>5. RequestsTypeOK'
    BY <1>1, <1>2, <2>2, <2>4 DEF RequestsKept, RequestsTypeOK
  <2>6. unackedListens' = Unanswered(responses', requests')
    BY <2>2, <2>4, CountedByParts DEF RequestsKept
  <2> QED BY <1>1, <2>3, <2>4, <2>5, <2>6, CountedAgain DEF RequestsKept
<1>4. CASE ~Connected
  <2>1. UNCHANGED <<requests, unackedListens>>
    BY <1>4 DEF ListenTo
  <2>2. RequestsTypeOK'
    BY <1>1, <1>2, <2>1 DEF RequestsKept, RequestsTypeOK
  <2> QED BY <1>1, <2>1, <2>2 DEF RequestsKept, AuthFirst, OperationsInv, TransactionsInv, Unsent,
                IsTransaction, ToldInv, Applied, ListensCounted, Wire
<1> QED BY <1>3, <1>4

LEMMA UnlistenRequests ==
  ASSUME RequestsKept, NEW q \in Queries, Unlisten(q)
  PROVE  RequestsKept'
<1>1. /\ listens' = [listens EXCEPT ![q] = NotListening]
      /\ UNCHANGED <<connectionState, operations, unackedListens, requests, responses, log>>
  BY DEF Unlisten, connectionVars, outside
<1>2. RequestsTypeOK'
  BY <1>1 DEF RequestsKept, RequestsTypeOK, NotListening
<1> QED BY <1>1, <1>2 DEF RequestsKept, AuthFirst, OperationsInv, TransactionsInv, Unsent,
              IsTransaction, ToldInv, Applied, ListensCounted, Wire

\* An operation is called: nobody has heard of it.
LEMMA CallRequests ==
  ASSUME RequestsKept, NEW o \in Operations, NEW kind \in Kinds, Call(o, kind)
  PROVE  RequestsKept'
<1> DEFINE n == Len(requests)
           r == Operation(o)
           new == [NewOperation EXCEPT !.kind = kind,
                                       !.place = IF CanSend THEN "Sent" ELSE "Outstanding",
                                       !.timer = kind = "get" /\ ~Connected]
<1>1. /\ operations[o].place = "New" /\ operations' = [operations EXCEPT ![o] = new]
      /\ requests' = IF CanSend THEN Append(requests, r) ELSE requests
      /\ UNCHANGED <<connectionState, listens, unackedListens, responses, log>>
  BY DEF Call, connectionVars, outside
<1>2. /\ RequestsTypeOK /\ operations \in [Operations -> OperationRecords]
      /\ n \in Nat /\ DOMAIN requests = 1 .. n /\ log \in Seq(Operations)
  BY RequestTypes DEF RequestsKept
<1>3. /\ new \in OperationRecords /\ new.place = (IF CanSend THEN "Sent" ELSE "Outstanding")
      /\ new.told = 0 /\ new.outcome = "None" /\ new.kind = kind
  BY DEF NewOperation, OperationRecords, Places
<1> HIDE DEF new
<1>4. /\ operations' \in [Operations -> OperationRecords] /\ operations'[o] = new
      /\ \A p \in Operations : p # o => operations'[p] = operations[p]
  BY <1>1, <1>2, <1>3
<1>5. r \in RequestRecords /\ r.kind = "operation" /\ r.id = o /\ r.restore = FALSE
  BY NewRequests
<1>6. /\ requests' \in Seq(RequestRecords)
      /\ AuthFirst' /\ unackedListens' = Unanswered(responses', requests')
      /\ \A i \in DOMAIN requests' :
           \/ i \in DOMAIN requests /\ requests'[i] = requests[i]
           \/ i = n + 1 /\ requests'[i] = r /\ CanSend
  <2>1. CASE CanSend
    <3>1. requests' = Append(requests, r) /\ UNCHANGED <<connectionState, responses>>
      BY <1>1, <2>1
    <3>2. /\ requests' \in Seq(RequestRecords) /\ DOMAIN requests' = 1 .. n + 1
          /\ \A i \in 1 .. n : requests'[i] = requests[i]
          /\ requests'[n + 1] = r
          /\ AuthFirst'
          /\ Unanswered(responses', requests') = Unanswered(responses, requests) + 0
      BY <1>5, <3>1, SentLast
    <3>3. /\ Unanswered(responses, requests) \in Nat
          /\ unackedListens' = Unanswered(responses, requests)
      BY <1>1, CountedByParts DEF RequestsKept
    <3>4. unackedListens' = Unanswered(responses', requests')
      <4> DEFINE u == Unanswered(responses, requests)
                 v == Unanswered(responses', requests')
      <4>1. u \in Nat /\ v = u + 0 /\ unackedListens' = u
        BY <3>2, <3>3
      <4> HIDE DEF u, v
      <4>2. unackedListens' = v
        BY <4>1
      <4> QED BY <4>2 DEF v
    <3>5. \A i \in DOMAIN requests' :
            \/ i \in DOMAIN requests /\ requests'[i] = requests[i]
            \/ i = n + 1 /\ requests'[i] = r /\ CanSend
      BY <1>2, <2>1, <3>2
    <3> QED BY <3>2, <3>4, <3>5
  <2>2. CASE ~CanSend
    <3>1. requests' = requests
      BY <1>1, <2>2
    <3>2. unackedListens' = Unanswered(responses', requests')
      BY <1>1, <3>1, CountedByParts DEF RequestsKept
    <3> QED BY <1>1, <1>2, <3>1, <3>2, RequestTypes DEF RequestsKept, AuthFirst
  <2> QED BY <2>1, <2>2
<1>7. RequestsTypeOK' /\ ListensCounted'
  <2>1. RequestsTypeOK'
    BY <1>1, <1>2, <1>4, <1>6 DEF RequestsTypeOK
  <2> QED BY <1>6, <2>1, CountedAgain
<1> HIDE DEF n, r
<1>8. /\ \A i \in DOMAIN requests : requests[i].kind = "operation" =>
           requests[i].id \in Operations \ {o}
      /\ \A i \in DOMAIN responses : responses[i].request.kind = "operation" =>
           responses[i].request.id \in Operations \ {o}
      /\ \A i \in DOMAIN log : log[i] \in Operations \ {o}
  <2>1. \A i \in DOMAIN requests : requests[i].kind = "operation" =>
          requests[i].id \in Operations
    BY <1>2, RequestTypes, RequestFields
  <2>2. \A i \in DOMAIN responses : responses[i].request.kind = "operation" =>
          responses[i].request.id \in Operations
    BY <1>2, RequestTypes, RequestFields
  <2>3. \A i \in DOMAIN log : log[i] \in Operations
    BY <1>2
  <2> QED BY <1>1, <2>1, <2>2, <2>3 DEF RequestsKept, OperationsInv
<1>9. OperationsInv'
  <2>1. new.place # "New"
    BY <1>3
  <2>2. \A i \in DOMAIN requests' : requests'[i].kind = "operation" =>
          operations'[requests'[i].id].place # "New"
    BY <1>4, <1>5, <1>6, <1>8, <2>1 DEF RequestsKept, OperationsInv
  <2>3. \A i \in DOMAIN responses : responses[i].request.kind = "operation" =>
          operations'[responses[i].request.id].place # "New"
    BY <1>4, <1>8 DEF RequestsKept, OperationsInv
  <2>4. \A i \in DOMAIN log : operations'[log[i]].place # "New"
    BY <1>4, <1>8 DEF RequestsKept, OperationsInv
  <2> QED BY <1>1, <2>2, <2>3, <2>4 DEF OperationsInv
<1>10. TransactionsInv'
  <2>1. ASSUME NEW p \in Operations, operations'[p].kind = "transaction",
               operations'[p].place = "Sent"
        PROVE  connectionState = "Connected"
    <3>1. CASE p = o
      BY <1>3, <1>4, <2>1, <3>1 DEF CanSend
    <3>2. CASE p # o
      BY <1>4, <2>1, <3>2 DEF RequestsKept, TransactionsInv, IsTransaction
    <3> QED BY <3>1, <3>2
  <2>2. ASSUME NEW i \in DOMAIN requests', requests'[i].kind = "operation",
               operations'[requests'[i].id].kind = "transaction"
        PROVE  /\ operations'[requests'[i].id].place \notin {"New", "Outstanding"}
               /\ \A j \in DOMAIN requests' : requests'[j] = requests'[i] => j = i
               /\ \A j \in DOMAIN log : log[j] # requests'[i].id
    <3>1. CASE i \in DOMAIN requests /\ requests'[i] = requests[i]
      <4>1. requests[i].id \in Operations \ {o}
        BY <1>8, <2>2, <3>1
      <4>2. operations'[requests[i].id] = operations[requests[i].id]
        BY <1>4, <4>1
      <4>3. /\ ~Unsent(requests[i].id)
            /\ \A j \in DOMAIN requests : requests[j] = requests[i] => j = i
            /\ \A j \in DOMAIN log : log[j] # requests[i].id
        BY <2>2, <3>1, <4>2 DEF RequestsKept, TransactionsInv, IsTransaction
      <4>4. ASSUME NEW j \in DOMAIN requests', requests'[j] = requests'[i]
            PROVE  j = i
        BY <1>5, <1>6, <3>1, <4>1, <4>3, <4>4
      <4> QED BY <3>1, <4>2, <4>3, <4>4 DEF Unsent
    <3>2. CASE i = n + 1 /\ requests'[i] = r /\ CanSend
      <4>1. operations'[o].place = "Sent"
        BY <1>3, <1>4, <3>2
      <4>2. ASSUME NEW j \in DOMAIN requests', requests'[j] = requests'[i]
            PROVE  j = i
        <5>1. ~(j \in DOMAIN requests /\ requests'[j] = requests[j])
          BY <1>5, <1>8, <3>2, <4>2
        <5> QED BY <1>6, <3>2, <5>1
      <4>3. \A j \in DOMAIN log : log[j] # o
        BY <1>8
      <4> QED BY <1>5, <3>2, <4>1, <4>2, <4>3
    <3> QED BY <1>6, <3>1, <3>2
  <2>3. ASSUME NEW i \in DOMAIN log, operations'[log[i]].kind = "transaction"
        PROVE  /\ operations'[log[i]].place \notin {"New", "Outstanding"}
               /\ \A j \in DOMAIN log : log[j] = log[i] => j = i
    BY <1>4, <1>8, <2>3 DEF RequestsKept, TransactionsInv, IsTransaction, Unsent
  <2> QED BY <1>1, <2>1, <2>2, <2>3 DEF TransactionsInv, IsTransaction, Unsent
<1>11. ToldInv'
  <2>1. Applied' = Applied
    BY <1>1 DEF Applied
  <2>2. ASSUME NEW p \in Operations
        PROVE  /\ ToldOnce(operations'[p])
               /\ operations'[p].kind \in Puts /\ operations'[p].outcome = "ok" => p \in Applied
    <3>1. CASE p = o
      BY <1>3, <1>4, <3>1 DEF ToldOnce
    <3>2. CASE p # o
      BY <1>4, <3>2 DEF RequestsKept, ToldInv
    <3> QED BY <3>1, <3>2
  <2>3. \A i \in DOMAIN responses :
          /\ responses[i].ok /\ responses[i].request.kind = "operation"
          /\ operations'[responses[i].request.id].kind \in Puts
          => responses[i].request.id \in Applied
    BY <1>4, <1>8 DEF RequestsKept, ToldInv
  <2> QED BY <1>1, <2>1, <2>2, <2>3 DEF ToldInv
<1> QED BY <1>1, <1>2, <1>6, <1>7, <1>9, <1>10, <1>11 DEF RequestsKept

\* The backend answers the first request.
LEMMA AnswersRequests ==
  ASSUME RequestsKept, ServerAnswers, revoked \in Nat
  PROVE  RequestsKept'
<1> DEFINE n == Len(requests)
           m == Len(responses)
           first == Head(requests)
<1>1. /\ requests # <<>> /\ requests' = Tail(requests)
      /\ UNCHANGED <<connectionState, operations, listens, unackedListens>>
  BY DEF ServerAnswers, connectionVars
<1>2. PICK ok \in BOOLEAN :
        /\ responses' = Append(responses, [request |-> first, ok |-> ok])
        /\ log' = IF ok /\ first.kind = "operation" /\ operations[first.id].kind \in Puts
                  THEN Append(log, first.id) ELSE log
  <2>1. requests \in Seq(RequestRecords)
    BY DEF RequestsKept, RequestsTypeOK
  <2>2. first \in RequestRecords
    BY <1>1, <2>1, HeadTailProperties
  <2> HIDE DEF first
  <2>3. first.id \in Nat
    BY <2>2, RequestFields
  <2>4. (first.id > revoked) \in BOOLEAN
    BY <2>3
  <2>5. Verdicts(first) \subseteq BOOLEAN
    BY <2>4 DEF Verdicts
  <2> QED BY <2>5 DEF ServerAnswers, first
<1> DEFINE x == [request |-> first, ok |-> ok]
<1>3. /\ RequestsTypeOK /\ log \in Seq(Operations)
      /\ requests \in Seq(RequestRecords) /\ n \in Nat \ {0} /\ DOMAIN requests = 1 .. n
      /\ responses \in Seq(ResponseRecords) /\ m \in Nat /\ DOMAIN responses = 1 .. m
  BY <1>1, RequestTypes DEF RequestsKept
<1>4. first \in RequestRecords /\ first = requests[1] /\ 1 \in DOMAIN requests
  BY <1>3, <1>1, HeadTailProperties
<1>5. x \in ResponseRecords /\ x.request = first /\ x.ok = ok
  BY <1>4 DEF ResponseRecords
<1>6. /\ requests' \in Seq(RequestRecords) /\ DOMAIN requests' = 1 .. n - 1
      /\ \A i \in 1 .. n - 1 : requests'[i] = requests[i + 1]
      /\ \A i \in 1 .. n - 1 : i + 1 \in DOMAIN requests
  BY <1>1, <1>3, HeadTailProperties, LenProperties
<1>7. Unanswered(responses', requests') = Unanswered(responses, requests)
  BY <1>1, <1>2, <1>3, UnansweredAnswer
<1> HIDE DEF first, x
<1>8. /\ responses' \in Seq(ResponseRecords) /\ DOMAIN responses' = 1 .. m + 1
      /\ \A i \in 1 .. m : responses'[i] = responses[i]
      /\ responses'[m + 1] = x
  BY <1>2, <1>3, <1>5, AppendProperties, LenProperties DEF x
<1>9. first.kind = "operation" =>
        first.id \in Operations /\ first = Operation(first.id) /\ operations[first.id].place # "New"
  BY <1>4, RequestFields DEF RequestsKept, OperationsInv
<1> DEFINE k == Len(log)
           applied == ok /\ first.kind = "operation" /\ operations[first.id].kind \in Puts
<1>10. /\ log' \in Seq(Operations) /\ k \in Nat /\ DOMAIN log = 1 .. k
       /\ applied => /\ DOMAIN log' = 1 .. k + 1 /\ log'[k + 1] = first.id
                     /\ \A i \in 1 .. k : log'[i] = log[i]
       /\ ~applied => log' = log
  <2>1. k \in Nat /\ DOMAIN log = 1 .. k
    BY <1>3, LenProperties
  <2>2. CASE applied
    <3>1. log' = Append(log, first.id) /\ first.id \in Operations
      BY <1>2, <1>9, <2>2
    <3>2. /\ log' \in Seq(Operations) /\ DOMAIN log' = 1 .. k + 1 /\ log'[k + 1] = first.id
          /\ \A i \in 1 .. k : log'[i] = log[i]
      <4>1. /\ log' \in Seq(Operations) /\ Len(log') = k + 1 /\ log'[k + 1] = first.id
            /\ \A i \in 1 .. k : log'[i] = log[i]
        BY <1>3, <3>1, AppendProperties
      <4>2. DOMAIN log' = 1 .. k + 1
        BY <4>1, LenProperties
      <4> QED BY <4>1, <4>2
    <3> QED BY <2>1, <2>2, <3>2
  <2>3. CASE ~applied
    BY <1>2, <1>3, <2>1, <2>3
  <2> QED BY <2>2, <2>3
<1> HIDE DEF k, n, m, applied
<1>11. /\ \A i \in DOMAIN log' :
            \/ i \in DOMAIN log /\ log'[i] = log[i]
            \/ applied /\ i = k + 1 /\ log'[i] = first.id
       /\ \A i \in DOMAIN log : i \in DOMAIN log' /\ log'[i] = log[i]
       /\ applied => \E i \in DOMAIN log' : log'[i] = first.id
  <2>1. CASE applied
    <3>1. k + 1 \in DOMAIN log' /\ \A i \in DOMAIN log' : i \in 1 .. k \/ i = k + 1
      BY <1>10, <2>1
    <3>2. \A i \in DOMAIN log : i \in DOMAIN log' /\ log'[i] = log[i]
      BY <1>10, <2>1
    <3> QED BY <1>10, <2>1, <3>1, <3>2
  <2>2. CASE ~applied
    BY <1>10, <2>2
  <2> QED BY <2>1, <2>2
<1>12. /\ RequestsTypeOK' /\ ListensCounted'
  <2>1. RequestsTypeOK'
    BY <1>1, <1>3, <1>6, <1>8 DEF RequestsTypeOK, ResponseRecords
  <2>2. unackedListens' = Unanswered(responses', requests')
    BY <1>1, <1>3, <1>7, CountedByParts DEF RequestsKept
  <2> QED BY <2>1, <2>2, CountedAgain
<1>13. AuthFirst'
  <2>1. AuthFirst
    BY DEF RequestsKept
  <2>2. responses' # <<>>
    <3>1. m + 1 \in DOMAIN responses'
      BY <1>3, <1>8
    <3>2. DOMAIN <<>> = {}
      OBVIOUS
    <3> QED BY <3>1, <3>2
  <2>3. ASSUME NEW i \in DOMAIN responses'
        PROVE  responses'[i].request.restore <=> connectionState' = "Authenticating" /\ i = 1
    <3>1. CASE i \in 1 .. m
      BY <1>1, <1>3, <1>8, <2>1, <3>1 DEF AuthFirst
    <3>2. CASE i = m + 1
      <4>1. responses'[i].request = requests[1]
        BY <1>4, <1>5, <1>8, <3>2
      <4>2. requests[1].restore <=> connectionState = "Authenticating" /\ responses = <<>>
        BY <1>4, <2>1 DEF AuthFirst
      <4>3. responses = <<>> <=> m = 0
        BY <1>3 DEF m
      <4> QED BY <1>1, <1>3, <3>2, <4>1, <4>2, <4>3
    <3> QED BY <1>3, <1>8, <3>1, <3>2
  <2>4. ASSUME NEW i \in DOMAIN requests'
        PROVE  requests'[i].restore = FALSE
    <3>1. i + 1 \in DOMAIN requests /\ i + 1 # 1 /\ requests'[i] = requests[i + 1]
      BY <1>3, <1>6
    <3>2. ~requests[i + 1].restore
      BY <2>1, <3>1 DEF AuthFirst
    <3>3. requests[i + 1] \in RequestRecords
      BY <1>3, <3>1
    <3> QED BY <3>1, <3>2, <3>3, RequestFields
  <2> QED BY <2>2, <2>3, <2>4 DEF AuthFirst
<1>14. OperationsInv'
  <2>1. ASSUME NEW i \in DOMAIN requests', requests'[i].kind = "operation"
        PROVE  operations[requests'[i].id].place # "New"
    <3>1. i + 1 \in DOMAIN requests /\ requests'[i] = requests[i + 1]
      BY <1>6
    <3> QED BY <2>1, <3>1 DEF RequestsKept, OperationsInv
  <2>2. ASSUME NEW i \in DOMAIN responses', responses'[i].request.kind = "operation"
        PROVE  operations[responses'[i].request.id].place # "New"
    <3>1. CASE i \in 1 .. m
      BY <1>3, <1>8, <2>2, <3>1 DEF RequestsKept, OperationsInv
    <3>2. CASE i = m + 1
      BY <1>5, <1>8, <1>9, <2>2, <3>2
    <3> QED BY <1>3, <1>8, <3>1, <3>2
  <2>3. ASSUME NEW i \in DOMAIN log'
        PROVE  operations[log'[i]].place # "New"
    BY <1>9, <1>11, <2>3 DEF RequestsKept, OperationsInv, applied
  <2> QED BY <1>1, <2>1, <2>2, <2>3 DEF OperationsInv
<1>15. TransactionsInv'
  <2>1. ASSUME NEW i \in DOMAIN requests, requests[i].kind = "operation",
               IsTransaction(requests[i].id)
        PROVE  /\ ~Unsent(requests[i].id)
               /\ \A j \in DOMAIN requests : requests[j] = requests[i] => j = i
               /\ \A j \in DOMAIN log : log[j] # requests[i].id
    BY <2>1 DEF RequestsKept, TransactionsInv
  <2>2. ASSUME NEW i \in DOMAIN requests', requests'[i].kind = "operation",
               IsTransaction(requests'[i].id)
        PROVE  /\ ~Unsent(requests'[i].id)
               /\ \A j \in DOMAIN requests' : requests'[j] = requests'[i] => j = i
               /\ \A j \in DOMAIN log' : log'[j] # requests'[i].id
    <3>1. i + 1 \in DOMAIN requests /\ requests'[i] = requests[i + 1] /\ i \in Int
      BY <1>3, <1>6
    <3>2. /\ ~Unsent(requests[i + 1].id)
          /\ \A j \in DOMAIN requests : requests[j] = requests[i + 1] => j = i + 1
          /\ \A j \in DOMAIN log : log[j] # requests[i + 1].id
      BY <2>1, <2>2, <3>1
    <3>3. ASSUME NEW j \in DOMAIN requests', requests'[j] = requests'[i]
          PROVE  j = i
      <4>1. j + 1 \in DOMAIN requests /\ requests'[j] = requests[j + 1] /\ j \in Int
        BY <1>3, <1>6
      <4>2. j + 1 = i + 1
        BY <3>1, <3>2, <3>3, <4>1
      <4> QED BY <3>1, <4>1, <4>2
    <3>4. first.kind = "operation" => first.id # requests[i + 1].id
      <4> SUFFICES ASSUME first.kind = "operation", first.id = requests[i + 1].id
                   PROVE  FALSE
        OBVIOUS
      <4>1. requests[i + 1] = Operation(first.id)
        BY <1>3, <2>2, <3>1, RequestFields
      <4>2. i + 1 = 1
        BY <1>4, <1>9, <3>2, <4>1
      <4> QED BY <1>3, <1>6, <4>2
    <3>5. \A j \in DOMAIN log' : log'[j] # requests[i + 1].id
      BY <1>11, <3>2, <3>4 DEF applied
    <3> QED BY <3>1, <3>2, <3>3, <3>5
  <2>3. ASSUME applied, IsTransaction(first.id)
        PROVE  ~Unsent(first.id) /\ \A j \in DOMAIN log : log[j] # first.id
    BY <1>4, <2>1, <2>3 DEF applied
  <2>4. ASSUME NEW i \in DOMAIN log', IsTransaction(log'[i])
        PROVE  ~Unsent(log'[i]) /\ \A j \in DOMAIN log' : log'[j] = log'[i] => j = i
    <3>1. CASE i \in DOMAIN log /\ log'[i] = log[i]
      <4>1. ~Unsent(log[i]) /\ \A j \in DOMAIN log : log[j] = log[i] => j = i
        BY <2>4, <3>1 DEF RequestsKept, TransactionsInv
      <4>2. applied => log[i] # first.id
        BY <2>3, <2>4, <3>1
      <4> QED BY <1>11, <3>1, <4>1, <4>2
    <3>2. CASE applied /\ i = k + 1 /\ log'[i] = first.id
      <4>1. ~Unsent(first.id) /\ \A j \in DOMAIN log : log[j] # first.id
        BY <2>3, <2>4, <3>2
      <4> QED BY <1>11, <3>2, <4>1
    <3> QED BY <1>11, <3>1, <3>2
  <2>5. \A o \in Operations : IsTransaction(o) /\ operations[o].place = "Sent" =>
          connectionState = "Connected"
    BY DEF RequestsKept, TransactionsInv
  <2>6. UNCHANGED <<operations, connectionState>>
    BY <1>1
  <2> QED BY <2>2, <2>4, <2>5, <2>6 DEF TransactionsInv, IsTransaction, Unsent
<1>16. ToldInv'
  <2>1. Applied \subseteq Applied'
    <3>1. \A i \in DOMAIN log : log[i] \in Applied'
      <4>1. \A i \in DOMAIN log : i \in DOMAIN log' /\ log'[i] = log[i]
        BY <1>11
      <4> QED BY <4>1 DEF Applied
    <3> QED BY <3>1 DEF Applied
  <2>2. applied => first.id \in Applied'
    BY <1>11 DEF Applied
  <2>3. ASSUME NEW i \in DOMAIN responses',
               responses'[i].ok, responses'[i].request.kind = "operation",
               operations[responses'[i].request.id].kind \in Puts
        PROVE  responses'[i].request.id \in Applied'
    <3>1. CASE i \in 1 .. m
      <4>1. i \in DOMAIN responses /\ responses'[i] = responses[i]
        BY <1>3, <1>8, <3>1
      <4>2. responses[i].request.id \in Applied
        BY <2>3, <4>1 DEF RequestsKept, ToldInv
      <4> QED BY <2>1, <4>1, <4>2
    <3>2. CASE i = m + 1
      BY <1>5, <1>8, <2>2, <2>3, <3>2 DEF applied
    <3> QED BY <1>3, <1>8, <3>1, <3>2
  <2> QED BY <1>1, <2>1, <2>3 DEF RequestsKept, ToldInv
<1> QED BY <1>10, <1>12, <1>13, <1>14, <1>15, <1>16 DEF RequestsKept

\* restoreState, after the handshake or after the answer to restoreAuth.
LEMMA RestoresRequests ==
  ASSUME RequestsTypeOK, log \in Seq(Operations), OperationsInv, TransactionsInv, ToldInv,
         connectionState # "Connected", RestoreState,
         responses' \in Seq(ResponseRecords),
         \A i \in DOMAIN responses' : \E j \in DOMAIN responses : responses'[i] = responses[j],
         \A i \in DOMAIN responses' : ~responses'[i].request.restore,
         \A i \in DOMAIN requests : ~requests[i].restore,
         unackedListens = Unanswered(responses', requests),
         UNCHANGED <<listens, log>>
  PROVE  RequestsKept'
<1> DEFINE n == Len(requests)
           N == Len(requests')
<1>1. /\ connectionState' = "Connected" /\ operations' = OutstandingSent
      /\ unackedListens' = unackedListens + Cardinality(Listening)
  BY DEF RestoreState
<1>2. /\ requests' \in Seq(RequestRecords) /\ N >= n
      /\ \A i \in 1 .. n : requests'[i] = requests[i]
      /\ \A i \in n + 1 .. N :
           /\ requests'[i].restore = FALSE
           /\ requests'[i].kind = "operation" =>
                /\ requests'[i].id \in ToRestore
                /\ \A j \in n + 1 .. N : requests'[j] = requests'[i] => j = i
      /\ ListensIn(requests') = ListensIn(requests) + Cardinality(Listening)
  BY RestoredRequests
<1>3. /\ n \in Nat /\ N \in Nat /\ DOMAIN requests = 1 .. n /\ DOMAIN requests' = 1 .. N
      /\ requests \in Seq(RequestRecords)
  BY <1>2, RequestTypes, LenProperties
<1> HIDE DEF n, N
<1>4. \A i \in DOMAIN requests' :
        \/ i \in DOMAIN requests /\ requests'[i] = requests[i]
        \/ i \in n + 1 .. N
  BY <1>2, <1>3
<1>5. /\ operations' \in [Operations -> OperationRecords]
      /\ \A o \in Operations :
           /\ operations'[o].kind = operations[o].kind
           /\ operations'[o].told = operations[o].told
           /\ operations'[o].outcome = operations[o].outcome
           /\ operations'[o].place = IF operations[o].place = "Outstanding" THEN "Sent"
                                     ELSE operations[o].place
  BY <1>1, OutstandingSentFields DEF RequestsTypeOK
<1>6. RequestsTypeOK' /\ ListensCounted'
  <2> DEFINE c == Cardinality(Listening)
             answered == ListensIn(AnsweredOf(responses'))
             asked == ListensIn(requests)
             asks == ListensIn(requests')
  <2>1. /\ c \in Nat /\ answered \in Nat /\ asked \in Nat
        /\ unackedListens = answered + asked
        /\ Unanswered(responses', requests') = answered + asks
    BY <1>3, FiniteToRestore, UnansweredOnWire DEF Unanswered
  <2>2. asks = asked + c /\ unackedListens' = unackedListens + c
    BY <1>1, <1>2
  <2> HIDE DEF c, answered, asked, asks
  <2>3. unackedListens' = Unanswered(responses', requests') /\ unackedListens' \in Nat
    BY <2>1, <2>2
  <2>4. RequestsTypeOK'
    BY <1>2, <1>5, <2>3 DEF RequestsTypeOK, ResponseRecords
  <2> QED BY <2>3, <2>4, CountedAgain
<1>7. AuthFirst'
  <2>1. \A i \in DOMAIN requests' : ~requests'[i].restore
    BY <1>2, <1>4
  <2> QED BY <1>1, <2>1 DEF AuthFirst
<1>8. /\ \A i \in DOMAIN requests : requests[i].kind = "operation" => requests[i].id \in Operations
      /\ \A i \in DOMAIN responses : responses[i].request.kind = "operation" =>
           responses[i].request.id \in Operations
      /\ \A i \in DOMAIN log : log[i] \in Operations
      /\ ToRestore \subseteq Operations
  BY RequestTypes, RequestFields DEF ToRestore
<1>9. \A o \in ToRestore : /\ operations[o].place \in {"Outstanding", "Sent"}
                           /\ operations'[o].place = "Sent"
                           /\ operations[o].kind = "transaction" => operations[o].place = "Outstanding"
  BY <1>5 DEF ToRestore, IsOutstandingPut, TransactionsInv, IsTransaction
<1>10. OperationsInv'
  <2>1. ASSUME NEW i \in DOMAIN requests', requests'[i].kind = "operation"
        PROVE  operations'[requests'[i].id].place # "New"
    <3>1. CASE i \in DOMAIN requests /\ requests'[i] = requests[i]
      <4>1. operations[requests[i].id].place # "New" /\ requests[i].id \in Operations
        BY <1>8, <2>1, <3>1 DEF OperationsInv
      <4> QED BY <1>5, <3>1, <4>1
    <3>2. CASE i \in n + 1 .. N
      BY <1>2, <1>9, <2>1, <3>2
    <3> QED BY <1>4, <3>1, <3>2
  <2>2. ASSUME NEW i \in DOMAIN responses', responses'[i].request.kind = "operation"
        PROVE  operations'[responses'[i].request.id].place # "New"
    <3>1. PICK j \in DOMAIN responses : responses'[i] = responses[j]
      OBVIOUS
    <3>2. /\ responses[j].request.id \in Operations
          /\ operations[responses[j].request.id].place # "New"
      BY <1>8, <2>2, <3>1 DEF OperationsInv
    <3> QED BY <1>5, <3>1, <3>2
  <2>3. ASSUME NEW i \in DOMAIN log
        PROVE  operations'[log[i]].place # "New"
    BY <1>5, <1>8 DEF OperationsInv
  <2> QED BY <2>1, <2>2, <2>3 DEF OperationsInv
<1>11. TransactionsInv'
  <2>1. ASSUME NEW i \in DOMAIN requests', requests'[i].kind = "operation",
               operations'[requests'[i].id].kind = "transaction"
        PROVE  /\ operations'[requests'[i].id].place \notin {"New", "Outstanding"}
               /\ \A j \in DOMAIN requests' : requests'[j] = requests'[i] => j = i
               /\ \A j \in DOMAIN log : log[j] # requests'[i].id
    <3>1. CASE i \in DOMAIN requests /\ requests'[i] = requests[i]
      <4>1. requests[i].id \in Operations /\ IsTransaction(requests[i].id)
        BY <1>5, <1>8, <2>1, <3>1 DEF IsTransaction
      <4>2. /\ ~Unsent(requests[i].id)
            /\ \A j \in DOMAIN requests : requests[j] = requests[i] => j = i
            /\ \A j \in DOMAIN log : log[j] # requests[i].id
        BY <2>1, <3>1, <4>1 DEF TransactionsInv
      <4>3. requests[i].id \notin ToRestore
        BY <1>9, <4>1, <4>2 DEF Unsent, IsTransaction
      <4>4. ASSUME NEW j \in DOMAIN requests', requests'[j] = requests'[i]
            PROVE  j = i
        <5>1. j \notin n + 1 .. N
          BY <1>2, <2>1, <3>1, <4>3, <4>4
        <5> QED BY <1>4, <3>1, <4>2, <4>4, <5>1
      <4>5. operations'[requests[i].id].place \notin {"New", "Outstanding"}
        BY <1>5, <4>1, <4>2 DEF Unsent
      <4> QED BY <3>1, <4>2, <4>4, <4>5
    <3>2. CASE i \in n + 1 .. N
      <4> DEFINE o == requests'[i].id
      <4>1. o \in ToRestore /\ \A j \in n + 1 .. N : requests'[j] = requests'[i] => j = i
        BY <1>2, <2>1, <3>2
      <4>2. o \in Operations /\ operations'[o].place = "Sent" /\ IsTransaction(o) /\ Unsent(o)
        BY <1>5, <1>8, <1>9, <2>1, <4>1 DEF IsTransaction, Unsent
      <4>3. \A j \in DOMAIN log : log[j] # o
        BY <4>2 DEF TransactionsInv
      <4>4. ASSUME NEW j \in DOMAIN requests', requests'[j] = requests'[i]
            PROVE  j = i
        <5>1. ~(j \in DOMAIN requests /\ requests'[j] = requests[j])
          <6> SUFFICES ASSUME j \in DOMAIN requests, requests[j] = requests'[i]
                       PROVE  FALSE
            BY <4>4
          <6> QED BY <2>1, <4>2 DEF TransactionsInv
        <5> QED BY <1>4, <4>1, <4>4, <5>1
      <4> QED BY <4>2, <4>3, <4>4
    <3> QED BY <1>4, <3>1, <3>2
  <2>2. ASSUME NEW i \in DOMAIN log, operations'[log[i]].kind = "transaction"
        PROVE  /\ operations'[log[i]].place \notin {"New", "Outstanding"}
               /\ \A j \in DOMAIN log : log[j] = log[i] => j = i
    <3>1. log[i] \in Operations /\ IsTransaction(log[i])
      BY <1>5, <1>8, <2>2 DEF IsTransaction
    <3>2. /\ ~Unsent(log[i])
          /\ \A j \in DOMAIN log : log[j] = log[i] => j = i
      BY <3>1 DEF TransactionsInv
    <3> QED BY <1>5, <3>1, <3>2 DEF Unsent
  <2> QED BY <1>1, <2>1, <2>2 DEF TransactionsInv, IsTransaction, Unsent
<1>12. ToldInv'
  <2>1. \A o \in Operations :
          /\ operations'[o].kind = operations[o].kind
          /\ ToldOnce(operations'[o])
          /\ operations'[o].kind \in Puts /\ operations'[o].outcome = "ok" => o \in Applied
    BY <1>5 DEF ToldInv, ToldOnce
  <2> QED BY <2>1, TellingMovesOn
<1> QED BY <1>6, <1>7, <1>10, <1>11, <1>12 DEF RequestsKept

LEMMA HandshakeRequests ==
  ASSUME RequestsKept, ConnectionKept, Handshake
  PROVE  RequestsKept'
<1>1. /\ connectionState = "Connecting" /\ requests = <<>> /\ responses = <<>>
      /\ UNCHANGED <<listens, responses, log>>
  BY DEF Handshake, ConnectionKept, ConnectionInv, ConnectionAssertions, outside
<1>2. unackedListens = Unanswered(responses, requests) /\ unackedListens \in Nat
  BY CountedByParts DEF RequestsKept, RequestsTypeOK
<1>3. DOMAIN <<>> = {}
  OBVIOUS
<1>4. CASE authToken = NoToken
  <2>1. RestoreState
    BY <1>4 DEF Handshake
  <2>2. responses' \in Seq(ResponseRecords)
    BY <1>1
  <2>3. unackedListens = Unanswered(responses', requests)
    BY <1>1, <1>2
  <2> QED BY <1>1, <1>3, <2>1, <2>2, <2>3, RestoresRequests DEF RequestsKept
<1>5. CASE authToken # NoToken
  <2> DEFINE r == Auth(authToken, TRUE)
  <2>1. /\ connectionState' = "Authenticating" /\ requests' = Append(requests, r)
        /\ UNCHANGED <<unackedListens, operations>>
    BY <1>5 DEF Handshake
  <2>2. r \in RequestRecords /\ r.kind = "auth" /\ r.restore = TRUE
    BY <1>5, NewRequests DEF ConnectionKept, ConnectionTypeOK
  <2> HIDE DEF r
  <2>3. /\ requests' = <<r>> /\ requests' \in Seq(RequestRecords)
        /\ DOMAIN requests' = {1} /\ requests'[1] = r
    BY <1>1, <2>1, <2>2
  <2>4. RequestsTypeOK'
    BY <1>1, <2>1, <2>3 DEF RequestsKept, RequestsTypeOK
  <2>5. ListensCounted'
    <3>1. ListensIn(requests') = 0 /\ ListensIn(requests) = 0
      BY <1>1, <2>2, <2>3, ListensInOne, ListensInEmpty
    <3>2. Unanswered(responses', requests') = Unanswered(responses, requests)
      BY <1>1, <3>1 DEF Unanswered
    <3> QED BY <1>2, <2>1, <2>4, <3>2, CountedAgain
  <2>6. AuthFirst'
    <3>1. requests' # <<>> /\ \A i \in DOMAIN requests' : i = 1 /\ requests'[i].restore
      BY <2>2, <2>3
    <3> QED BY <1>1, <1>3, <2>1, <3>1 DEF AuthFirst
  <2>7. OperationsInv' /\ TransactionsInv' /\ ToldInv'
    <3>1. \A i \in DOMAIN requests' : requests'[i].kind # "operation"
      BY <2>2, <2>3
    <3>2. OperationsInv'
      BY <1>1, <2>1, <3>1 DEF RequestsKept, OperationsInv
    <3>3. TransactionsInv'
      BY <1>1, <2>1, <3>1 DEF RequestsKept, TransactionsInv, IsTransaction, Unsent
    <3>4. ToldInv'
      BY <1>1, <2>1 DEF RequestsKept, ToldInv, Applied
    <3> QED BY <3>2, <3>3, <3>4
  <2> QED BY <1>1, <2>4, <2>5, <2>6, <2>7 DEF RequestsKept
<1> QED BY <1>4, <1>5

\* The first answer is taken: what is left was there before, and restores nothing.
LEMMA FirstAnswer ==
  ASSUME RequestsKept, responses # <<>>
  PROVE  LET rest == Tail(responses) IN
         /\ rest \in Seq(ResponseRecords)
         /\ \A i \in DOMAIN rest : /\ \E j \in DOMAIN responses : rest[i] = responses[j]
                                 /\ ~rest[i].request.restore
         /\ \A i \in DOMAIN requests : ~requests[i].restore
         /\ Head(responses) \in ResponseRecords /\ Head(responses).request \in RequestRecords
         /\ 1 \in DOMAIN responses /\ Head(responses) = responses[1]
         /\ Head(responses).request.restore <=> connectionState = "Authenticating"
         /\ Unanswered(rest, requests) \in Nat
         /\ unackedListens = (IF Head(responses).request.kind = "listen" THEN 1 ELSE 0)
                              + Unanswered(rest, requests)
<1> DEFINE rest == Tail(responses)
           m == Len(responses)
<1>1. /\ responses \in Seq(ResponseRecords) /\ m \in Nat \ {0} /\ DOMAIN responses = 1 .. m
      /\ requests \in Seq(RequestRecords) /\ AuthFirst /\ RequestsTypeOK
  BY RequestTypes DEF RequestsKept
<1>2. /\ rest \in Seq(ResponseRecords) /\ Head(responses) \in ResponseRecords
      /\ Head(responses) = responses[1] /\ 1 \in DOMAIN responses
      /\ DOMAIN rest = 1 .. m - 1
      /\ \A i \in 1 .. m - 1 : rest[i] = responses[i + 1]
  BY <1>1, HeadTailProperties, LenProperties
<1>3. Head(responses).request \in RequestRecords
  BY <1>2 DEF ResponseRecords
<1>4. /\ Unanswered(rest, requests) \in Nat
      /\ unackedListens = (IF Head(responses).request.kind = "listen" THEN 1 ELSE 0)
                           + Unanswered(rest, requests)
  BY <1>1, <1>2, CountedByParts, UnansweredReceive, UnansweredOnWire DEF RequestsKept
<1> HIDE DEF rest, m
<1>5. ASSUME NEW i \in DOMAIN rest
      PROVE  /\ \E j \in DOMAIN responses : rest[i] = responses[j]
             /\ ~rest[i].request.restore
  <2>1. i + 1 \in DOMAIN responses /\ rest[i] = responses[i + 1] /\ i + 1 # 1
    BY <1>1, <1>2
  <2>2. ~responses[i + 1].request.restore
    BY <1>1, <2>1 DEF AuthFirst
  <2> QED BY <2>1, <2>2
<1>6. \A i \in DOMAIN requests : ~requests[i].restore
  BY <1>1 DEF AuthFirst
<1>7. Head(responses).request.restore <=> connectionState = "Authenticating"
  BY <1>1, <1>2 DEF AuthFirst
<1> QED BY <1>2, <1>3, <1>4, <1>5, <1>6, <1>7 DEF rest

\* Nothing but the first answer is taken.
LEMMA AnswerTaken ==
  ASSUME RequestsKept, responses # <<>>, responses' = Tail(responses),
         connectionState' # "Authenticating", requests' = requests
  PROVE  AuthFirst'
BY FirstAnswer DEF AuthFirst

LEMMA AuthAnswerRequests ==
  ASSUME RequestsKept, ConnectionKept, responses # <<>>, AuthAnswered(Head(responses)),
         Head(responses).request.kind = "auth", log' = log
  PROVE  RequestsKept'
<1> DEFINE response == Head(responses)
<1>1. realtime = "Connected" /\ connectionState \in {"Authenticating", "Connected"}
  BY DEF ConnectionKept, ConnectionInv, Connected
<1>2. unackedListens = Unanswered(Tail(responses), requests)
  BY FirstAnswer
<1>3. CASE ~response.ok
  <2>1. Disconnects(TRUE)
    BY <1>3 DEF AuthAnswered, RejectsToken
  <2> QED BY <2>1, DropsRequests
<1>4. CASE response.ok /\ response.request.restore
  <2>1. RestoreState /\ responses' = Tail(responses) /\ listens' = listens
    BY <1>4 DEF AuthAnswered
  <2>2. connectionState = "Authenticating"
    BY <1>4, FirstAnswer
  <2>3. /\ responses' \in Seq(ResponseRecords)
        /\ \A i \in DOMAIN responses' : \E j \in DOMAIN responses : responses'[i] = responses[j]
        /\ \A i \in DOMAIN responses' : ~responses'[i].request.restore
        /\ \A i \in DOMAIN requests : ~requests[i].restore
    BY <2>1, FirstAnswer
  <2>4. unackedListens = Unanswered(responses', requests)
    BY <1>2, <2>1
  <2> QED BY <2>1, <2>2, <2>3, <2>4, RestoresRequests DEF RequestsKept
<1>5. CASE response.ok /\ ~response.request.restore
  <2>1. /\ connectionState' = "Connected" /\ responses' = Tail(responses)
        /\ UNCHANGED <<requests, unackedListens, operations, listens>>
    BY <1>5 DEF AuthAnswered
  <2>2. connectionState = "Connected"
    BY <1>1, <1>5, FirstAnswer
  <2>3. /\ responses' \in Seq(ResponseRecords)
        /\ \A i \in DOMAIN responses' : \E j \in DOMAIN responses : responses'[i] = responses[j]
    BY <2>1, FirstAnswer
  <2>4. RequestsTypeOK' /\ ListensCounted'
    <3>1. RequestsTypeOK'
      BY <2>1, <2>3 DEF RequestsKept, RequestsTypeOK, ResponseRecords
    <3> QED BY <1>2, <2>1, <3>1, CountedAgain
  <2>5. OperationsInv' /\ TransactionsInv'
    BY <2>1, <2>2, <2>3, OperationsMoveOn DEF RequestsKept, MovesOn
  <2>6. ToldInv'
    BY <2>1, <2>3, TellingMovesOn DEF RequestsKept, ToldInv
  <2>7. AuthFirst'
    BY <2>1, AnswerTaken
  <2> QED BY <2>4, <2>5, <2>6, <2>7 DEF RequestsKept
<1> QED BY <1>3, <1>4, <1>5

\* The answer to an operation.
LEMMA OperationAnswerRequests ==
  ASSUME RequestsKept, responses # <<>>, responses' = Tail(responses),
         Head(responses).request.kind = "operation",
         OperationAnswered(Head(responses).request.id, Head(responses).ok),
         UNCHANGED <<connectionState, requests, log>>
  PROVE  RequestsKept'
<1> DEFINE o == Head(responses).request.id
           ok == Head(responses).ok
           op == operations[o]
           new == CASE op.place # "Sent" -> op
                    [] op.place = "Sent" /\ op.kind \in Puts /\ unackedListens # 0 ->
                         [op EXCEPT !.place = "ToAck", !.outcome = Outcome(ok)]
                    [] op.place = "Sent" /\ op.kind = "onDisconnect" /\ ok ->
                         [op EXCEPT !.place = "Gone"]
                    [] OTHER -> Told(op, Outcome(ok))
<1>1. /\ responses' \in Seq(ResponseRecords)
      /\ \A i \in DOMAIN responses' : \E j \in DOMAIN responses : responses'[i] = responses[j]
      /\ 1 \in DOMAIN responses /\ Head(responses) = responses[1]
      /\ Head(responses) \in ResponseRecords /\ Head(responses).request \in RequestRecords
      /\ Head(responses).request.restore <=> connectionState = "Authenticating"
      /\ unackedListens = 0 + Unanswered(responses', requests)
      /\ Unanswered(responses', requests) \in Nat
  BY FirstAnswer
<1>2. o \in Operations /\ ok \in BOOLEAN /\ connectionState # "Authenticating"
  BY <1>1, RequestFields DEF ResponseRecords
<1>3. /\ operations' = [operations EXCEPT ![o] = new]
      /\ UNCHANGED <<listens, unackedListens>>
  BY DEF OperationAnswered
<1>4. /\ op \in OperationRecords /\ ToldOnce(op) /\ op.place # "New"
      /\ op.kind \in Puts /\ op.outcome = "ok" => o \in Applied
      /\ ok /\ op.kind \in Puts => o \in Applied
  <2>1. op \in OperationRecords
    BY <1>2, RequestTypes DEF RequestsKept
  <2> QED BY <1>1, <1>2, <2>1 DEF RequestsKept, OperationsInv, ToldInv
<1>5. Outcome(ok) \in {"ok", "failed"} /\ (Outcome(ok) = "ok" => ok)
  BY DEF Outcome
<1> HIDE DEF op, o, ok
<1>6. /\ new \in OperationRecords /\ MovesOn(op, new) /\ ToldOnce(new)
      /\ new.kind \in Puts /\ new.outcome = "ok" => o \in Applied
  <2>1. CASE op.place # "Sent"
    <3>1. new = op
      BY <2>1
    <3> QED BY <1>4, <3>1 DEF MovesOn
  <2>2. CASE op.place = "Sent" /\ op.kind \in Puts /\ unackedListens # 0
    <3>1. new = [op EXCEPT !.place = "ToAck", !.outcome = Outcome(ok)]
      BY <2>2 DEF Puts
    <3> HIDE DEF new
    <3>2. /\ new \in OperationRecords /\ new.place = "ToAck" /\ new.outcome = Outcome(ok)
          /\ new.told = op.told /\ new.kind = op.kind
      BY <1>4, <1>5, <3>1 DEF OperationRecords, Places, Outcomes
    <3> QED BY <1>4, <1>5, <2>2, <3>2 DEF MovesOn, ToldOnce
  <2>3. CASE op.place = "Sent" /\ op.kind = "onDisconnect" /\ ok
    <3>1. new = [op EXCEPT !.place = "Gone"]
      BY <2>3 DEF Puts
    <3> HIDE DEF new
    <3>2. /\ new \in OperationRecords /\ new.place = "Gone" /\ new.outcome = op.outcome
          /\ new.told = op.told /\ new.kind = op.kind
      BY <1>4, <3>1 DEF OperationRecords, Places
    <3> QED BY <1>4, <2>3, <3>2 DEF MovesOn, ToldOnce
  <2>4. CASE /\ op.place = "Sent" /\ ~(op.kind \in Puts /\ unackedListens # 0)
             /\ ~(op.kind = "onDisconnect" /\ ok)
    <3>1. new = Told(op, Outcome(ok)) /\ Outcome(ok) \in Outcomes
      BY <1>5, <2>4 DEF Outcomes
    <3> HIDE DEF new
    <3>2. op.told = 0
      BY <1>4, <2>4 DEF ToldOnce
    <3>3. /\ new \in OperationRecords /\ new.place = "Gone" /\ new.outcome = Outcome(ok)
          /\ new.told = 1 /\ new.kind = op.kind
      BY <1>4, <3>1, <3>2, ToldFields
    <3> QED BY <1>4, <1>5, <2>4, <3>3 DEF MovesOn, ToldOnce
  <2> QED BY <2>1, <2>2, <2>3, <2>4
<1> HIDE DEF new
<1>7. /\ operations' \in [Operations -> OperationRecords]
      /\ OperationsInv' /\ TransactionsInv' /\ ToldInv'
  BY <1>1, <1>2, <1>3, <1>6, OneMovesOn DEF op
<1>8. RequestsTypeOK'
  BY <1>1, <1>3, <1>7 DEF RequestsKept, RequestsTypeOK, ResponseRecords
<1>9. ListensCounted'
  <2>1. unackedListens' = Unanswered(responses', requests')
    <3> DEFINE u == Unanswered(responses', requests)
    <3>1. unackedListens = 0 + u /\ u \in Nat
      BY <1>1
    <3> HIDE DEF u
    <3>2. unackedListens = u
      BY <3>1
    <3> QED BY <1>3, <3>2 DEF u
  <2> QED BY <1>8, <2>1, CountedAgain
<1>10. AuthFirst'
  BY <1>2, AnswerTaken
<1> QED BY <1>7, <1>8, <1>9, <1>10 DEF RequestsKept

\* The answer to a listen, the last of which lets the puts be told.
LEMMA ListenAnswerRequests ==
  ASSUME RequestsKept, responses # <<>>, responses' = Tail(responses),
         Head(responses).request.kind = "listen",
         ListenAnswered(Head(responses).request.id, Head(responses).ok),
         UNCHANGED <<connectionState, requests, log>>
  PROVE  RequestsKept'
<1> DEFINE n == Head(responses).request.id
           ok == Head(responses).ok
<1>1. /\ responses' \in Seq(ResponseRecords)
      /\ \A i \in DOMAIN responses' : \E j \in DOMAIN responses : responses'[i] = responses[j]
      /\ Head(responses).request \in RequestRecords
      /\ Head(responses).request.restore <=> connectionState = "Authenticating"
      /\ unackedListens = 1 + Unanswered(responses', requests)
      /\ Unanswered(responses', requests) \in Nat
  BY FirstAnswer
<1>2. connectionState # "Authenticating"
  BY <1>1, RequestFields
<1>3. /\ listens' = [q \in Queries |->
                      IF listens[q] = n /\ ~ok THEN NotListening ELSE listens[q]]
      /\ unackedListens' = unackedListens - 1
      /\ operations' = IF unackedListens' = 0 THEN PutsAcked ELSE operations
  BY DEF ListenAnswered
<1>4. unackedListens' = Unanswered(responses', requests') /\ unackedListens' \in Nat
  <2> DEFINE u == Unanswered(responses', requests)
  <2>1. unackedListens' = unackedListens - 1 /\ unackedListens = 1 + u /\ u \in Nat
    BY <1>1, <1>3
  <2> HIDE DEF u
  <2>2. unackedListens' = u /\ u \in Nat
    BY <2>1
  <2> QED BY <2>2 DEF u
<1> HIDE DEF n, ok
<1>5. listens' \in [Queries -> Nat]
  <2>1. listens \in [Queries -> Nat] /\ NotListening \in Nat
    BY DEF RequestsKept, RequestsTypeOK, NotListening
  <2> QED BY <1>3, <2>1
<1>6. ASSUME NEW o \in Operations
      PROVE  /\ operations'[o] \in OperationRecords
             /\ MovesOn(operations[o], operations'[o])
             /\ ToldOnce(operations'[o])
             /\ operations'[o].kind \in Puts /\ operations'[o].outcome = "ok" => o \in Applied
  <2> DEFINE op == operations[o]
  <2>1. op \in OperationRecords
    BY RequestTypes DEF RequestsKept
  <2>2. /\ ToldOnce(op)
        /\ op.kind \in Puts /\ op.outcome = "ok" => o \in Applied
    BY DEF RequestsKept, ToldInv
  <2>3. operations'[o] = op \/ (op.place = "ToAck" /\ operations'[o] = Told(op, op.outcome))
    BY <1>3 DEF PutsAcked
  <2> HIDE DEF op
  <2>4. CASE operations'[o] = op
    BY <2>1, <2>2, <2>4 DEF MovesOn, op
  <2>5. CASE op.place = "ToAck" /\ operations'[o] = Told(op, op.outcome)
    <3>1. op.outcome \in Outcomes /\ op.told = 0
      BY <2>2, <2>5 DEF ToldOnce, Outcomes
    <3>2. /\ operations'[o] \in OperationRecords
          /\ operations'[o].place = "Gone" /\ operations'[o].outcome = op.outcome
          /\ operations'[o].told = 1 /\ operations'[o].kind = op.kind
      BY <2>1, <2>5, <3>1, ToldFields
    <3> QED BY <2>2, <2>5, <3>2 DEF MovesOn, ToldOnce, op
  <2> QED BY <2>3, <2>4, <2>5
<1>7. operations' \in [Operations -> OperationRecords]
  <2>1. operations \in [Operations -> OperationRecords]
    BY DEF RequestsKept, RequestsTypeOK
  <2>2. operations' = [o \in Operations |-> operations'[o]]
    BY <1>3, <2>1 DEF PutsAcked
  <2> QED BY <1>6, <2>2
<1>8. RequestsTypeOK' /\ ListensCounted'
  <2>1. RequestsTypeOK'
    BY <1>1, <1>4, <1>5, <1>7 DEF RequestsKept, RequestsTypeOK, ResponseRecords
  <2> QED BY <1>4, <2>1, CountedAgain
<1>9. OperationsInv' /\ TransactionsInv'
  BY <1>1, <1>6, OperationsMoveOn DEF RequestsKept
<1>10. ToldInv'
  BY <1>1, <1>6, TellingMovesOn DEF RequestsKept, MovesOn
<1>11. AuthFirst'
  BY <1>2, AnswerTaken
<1> QED BY <1>8, <1>9, <1>10, <1>11 DEF RequestsKept

LEMMA ReceivesRequests ==
  ASSUME RequestsKept, ConnectionKept, Receives
  PROVE  RequestsKept'
<1> DEFINE response == Head(responses)
<1>1. responses # <<>> /\ log' = log
  BY DEF Receives, outside
<1>2. CASE response.request.kind = "auth" /\ AuthAnswered(response)
  BY <1>1, <1>2, AuthAnswerRequests
<1>3. CASE /\ response.request.kind = "operation"
           /\ OperationAnswered(response.request.id, response.ok)
           /\ responses' = Tail(responses) /\ UNCHANGED <<connectionVars, requests>>
  BY <1>1, <1>3, OperationAnswerRequests DEF connectionVars
<1>4. CASE /\ response.request.kind = "listen"
           /\ ListenAnswered(response.request.id, response.ok)
           /\ responses' = Tail(responses) /\ UNCHANGED <<connectionVars, requests>>
  BY <1>1, <1>4, ListenAnswerRequests DEF connectionVars
<1> QED BY <1>2, <1>3, <1>4 DEF Receives

-----------------------------------------------------------------------------
(* The invariant.                                                          *)

OthersKept == token \in Tokens /\ revoked \in Nat /\ listenCount \in Nat /\ disturbances \in Nat

Kept == ConnectionKept /\ RequestsKept /\ OthersKept

LEMMA Parts == IInv <=> Kept /\ accepted \subseteq Nat
BY DEF IInv, TypeOK, Kept, ConnectionKept, RequestsKept, OthersKept

LEMMA PartsAgain == Kept' /\ accepted' \subseteq Nat => IInv'
BY DEF IInv, TypeOK, Kept, ConnectionKept, RequestsKept, OthersKept

\* What the outside of a step may be.
LEMMA DisturbanceKeeps ==
  ASSUME OthersKept, UNCHANGED <<token, revoked>>, Disturbance \/ UNCHANGED history
  PROVE  OthersKept'
BY DEF OthersKept, Disturbance, history

LEMMA InitIInv == Init => IInv
<1> SUFFICES ASSUME Init PROVE IInv
  OBVIOUS
<1>1. /\ connectionState = "Disconnected" /\ realtime = "None"
      /\ interruptReasons = {"WaitingForOpen"}
      /\ scheduledRetry = "None" /\ forceTokenRefreshes = FALSE
      /\ fetch = NoFetch /\ staleFetches = 0 /\ authToken = NoToken
      /\ operations = [o \in Operations |-> NewOperation]
      /\ listens = [q \in Queries |-> NotListening] /\ unackedListens = 0
      /\ requests = <<>> /\ responses = <<>>
      /\ log = <<>> /\ token \in {NoToken, 1} /\ revoked = 0
      /\ listenCount = 0 /\ disturbances = 0
  BY DEF Init
<1>2. ConnectionKept
  BY <1>1 DEF ConnectionKept, ConnectionTypeOK, ConnectionInv, ConnectionAssertions, Connected,
              States, Reasons, Tokens, NoToken
<1>3. /\ NewOperation \in OperationRecords /\ NewOperation.kind = "put"
      /\ NewOperation.place = "New" /\ ToldOnce(NewOperation) /\ NewOperation.outcome = "None"
  BY DEF NewOperation, OperationRecords, Places, ToldOnce
<1>4. DOMAIN <<>> = {} /\ <<>> \in Seq(Operations)
      /\ <<>> \in Seq(RequestRecords) /\ <<>> \in Seq(ResponseRecords)
  OBVIOUS
<1>5. /\ operations \in [Operations -> OperationRecords]
      /\ \A o \in Operations : operations[o] = NewOperation
  BY <1>1, <1>3
<1>6. RequestsTypeOK
  BY <1>1, <1>4, <1>5 DEF RequestsTypeOK, ResponseRecords, NotListening
<1>7. ListensCounted
  <2>1. AnsweredOf(<<>>) = <<>>
    BY DEF AnsweredOf
  <2>2. Unanswered(<<>>, <<>>) = 0
    BY <2>1, ListensInEmpty DEF Unanswered
  <2> QED BY <1>1, <1>6, <2>2, CountedByParts
<1>8. AuthFirst /\ OperationsInv
  BY <1>1, <1>4 DEF AuthFirst, OperationsInv
<1>9. TransactionsInv
  BY <1>1, <1>3, <1>4, <1>5 DEF TransactionsInv, IsTransaction
<1>10. ToldInv
  BY <1>1, <1>3, <1>4, <1>5 DEF ToldInv, Puts
<1>11. RequestsKept
  BY <1>1, <1>4, <1>6, <1>7, <1>8, <1>9, <1>10 DEF RequestsKept
<1>12. OthersKept
  BY <1>1 DEF OthersKept, Tokens, NoToken
<1>13. accepted \subseteq Nat
  BY DEF Init
<1> QED BY <1>2, <1>11, <1>12, <1>13, Parts DEF Kept

\* A step that only schedules, or tells Auth, leaves the requests alone.
LEMMA StepKept ==
  ASSUME StaleFailures = FALSE, Kept, [Next]_vars
  PROVE  Kept'
<1>1. ConnectionKept /\ RequestsKept /\ OthersKept
  BY DEF Kept
<1>2. /\ token \in Tokens /\ revoked \in Nat /\ listenCount \in Nat
      /\ forceTokenRefreshes \in BOOLEAN /\ ConnectionInv
  BY <1>1 DEF OthersKept, ConnectionKept, ConnectionTypeOK
\* The shapes of the steps that concern the connection alone.
<1>3. ASSUME UNCHANGED <<connectionState, wireVars, log>>, ConnectionKept', OthersKept'
      PROVE  Kept'
  BY <1>1, <1>3, SameRequests DEF Kept
<1>4. ASSUME ~Connected, connectionState' \notin {"Authenticating", "Connected"},
             UNCHANGED <<wireVars, log>>, ConnectionKept', OthersKept'
      PROVE  Kept'
  <2>1. requests = <<>> /\ responses = <<>>
    BY <1>2, <1>4 DEF ConnectionInv, ConnectionAssertions
  <2> QED BY <1>1, <1>4, <2>1, IdleRequests DEF Kept
<1>5. ASSUME NEW force \in BOOLEAN, Disconnects(force), log' = log, ConnectionKept', OthersKept'
      PROVE  Kept'
  BY <1>1, <1>5, DropsRequests DEF Kept
<1>6. ASSUME NEW reason \in Reasons, Resume(reason)
      PROVE  Kept'
  <2>1. ConnectionKept'
    BY <1>1, <1>6, ResumeConnection
  <2>2. UNCHANGED <<connectionState, wireVars, outside, history>>
    BY <1>6 DEF Resume, requestVars, wireVars
  <2>3. OthersKept'
    BY <1>1, <2>2, DisturbanceKeeps DEF outside
  <2> QED BY <1>3, <2>1, <2>2, <2>3 DEF outside
<1>7. ASSUME NEW reason \in Reasons, Interrupt(reason), Disturbance, UNCHANGED outside
      PROVE  Kept'
  <2>1. ConnectionKept'
    BY <1>1, <1>7, InterruptConnection
  <2>2. OthersKept'
    BY <1>1, <1>7, DisturbanceKeeps DEF outside
  <2>3. CASE realtime # "None"
    <3>1. Disconnects(forceTokenRefreshes)
      BY <1>7, <2>3 DEF Interrupt
    <3> QED BY <1>2, <1>5, <1>7, <2>1, <2>2, <3>1 DEF outside
  <2>4. CASE realtime = "None"
    <3>1. connectionState' = "Disconnected" /\ UNCHANGED wireVars
      BY <1>7, <2>4 DEF Interrupt, CancelsRetry, requestVars, wireVars
    <3>2. ~Connected
      BY <1>2, <2>4 DEF ConnectionInv, ConnectionAssertions
    <3> QED BY <1>4, <1>7, <2>1, <2>2, <3>1, <3>2 DEF outside
  <2> QED BY <2>3, <2>4
<1>8. CASE Open
  BY <1>6, <1>8 DEF Open, Reasons
<1>9. CASE GoOnline
  BY <1>6, <1>9 DEF GoOnline, Reasons
<1>10. CASE GoOffline
  BY <1>7, <1>10 DEF GoOffline, Reasons
<1>11. CASE ServerKills
  BY <1>7, <1>11 DEF ServerKills, Reasons
<1>12. CASE SystemClockChanges
  <2>1. ConnectionKept'
    BY <1>1, <1>12, ClockConnection
  <2>2. UNCHANGED outside /\ Disturbance
    BY <1>12 DEF SystemClockChanges
  <2>3. OthersKept'
    BY <1>1, <2>2, DisturbanceKeeps DEF outside
  <2>4. CASE Disconnects(forceTokenRefreshes)
    BY <1>2, <1>5, <2>1, <2>2, <2>3, <2>4 DEF outside
  <2>5. CASE realtime = "None" /\ connectionState' = "Disconnected" /\ UNCHANGED wireVars
    <3>1. ~Connected
      BY <1>2, <2>5 DEF ConnectionInv, ConnectionAssertions
    <3> QED BY <1>4, <2>1, <2>2, <2>3, <2>5, <3>1 DEF outside
  <2> QED BY <1>12, <2>4, <2>5 DEF SystemClockChanges, CancelsRetry, requestVars, wireVars
<1>13. CASE EnteringForeground
  <2>1. /\ connectionState = "Disconnected" /\ TryScheduleReconnect(forceTokenRefreshes)
        /\ Disturbance /\ interruptReasons' = interruptReasons
        /\ UNCHANGED <<connectionState, realtime, fetch, staleFetches, authToken, wireVars, outside>>
    BY <1>13 DEF EnteringForeground, requestVars, wireVars
  <2>2. ConnectionKept'
    <3>1. interruptReasons' \subseteq Reasons /\ staleFetches' = 0
      BY <1>1, <2>1 DEF ConnectionKept, ConnectionTypeOK, ConnectionInv
    <3> QED BY <1>1, <1>2, <2>1, <3>1, SchedulesConnection DEF wireVars
  <2>3. OthersKept'
    BY <1>1, <2>1, DisturbanceKeeps DEF outside
  <2> QED BY <1>3, <2>1, <2>2, <2>3 DEF outside
<1>14. CASE RetryFires
  <2>1. ConnectionKept'
    BY <1>1, <1>2, <1>14, RetryConnection
  <2>2. /\ scheduledRetry # "None" /\ connectionState' = "GettingToken"
        /\ UNCHANGED <<wireVars, outside, history>>
    BY <1>14 DEF RetryFires, requestVars, wireVars
  <2>3. ~Connected
    BY <1>2, <2>2 DEF ConnectionInv, ConnectionAssertions, Connected
  <2>4. OthersKept'
    BY <1>1, <2>2, DisturbanceKeeps DEF outside
  <2> QED BY <1>4, <2>1, <2>2, <2>3, <2>4 DEF outside
<1>15. CASE FetchSucceeds
  <2>1. ConnectionKept' /\ token' \in Tokens
    BY <1>1, <1>2, <1>15, FetchedConnection
  <2>2. fetch # NoFetch /\ TokenArrives(Fetched) /\ UNCHANGED <<log, revoked, history>>
    BY <1>15 DEF FetchSucceeds
  <2>3. OthersKept'
    BY <1>1, <2>1, <2>2 DEF OthersKept, history
  <2>4. ~Connected
    BY <1>2, <2>2 DEF ConnectionInv, ConnectionAssertions, Connected
  <2>5. CASE connectionState = "GettingToken"
    <3>1. requests = <<>> /\ responses = <<>>
      BY <1>2, <2>4 DEF ConnectionInv, ConnectionAssertions
    <3>2. connectionState' = "Connecting" /\ UNCHANGED wireVars
      BY <2>2, <2>5, <3>1 DEF TokenArrives, OpenNetworkConnection, wireVars
    <3> QED BY <1>4, <2>1, <2>2, <2>3, <2>4, <3>2
  <2>6. CASE connectionState # "GettingToken"
    <3>1. UNCHANGED <<connectionState, wireVars>>
      BY <2>2, <2>6 DEF TokenArrives, requestVars, wireVars
    <3> QED BY <1>3, <2>1, <2>2, <2>3, <3>1
  <2> QED BY <2>5, <2>6
<1>16. CASE FetchFails
  <2>1. ConnectionKept'
    BY <1>1, <1>16, FailedConnection
  <2>2. fetch # NoFetch /\ connectionState' = "Disconnected" /\ Disturbance
        /\ UNCHANGED <<wireVars, outside>>
    BY <1>16 DEF FetchFails, requestVars, wireVars
  <2>3. ~Connected
    BY <1>2, <2>2 DEF ConnectionInv, ConnectionAssertions, Connected
  <2>4. OthersKept'
    BY <1>1, <2>2, DisturbanceKeeps DEF outside
  <2> QED BY <1>4, <2>1, <2>2, <2>3, <2>4 DEF outside
<1>17. CASE ConnectionLost
  <2>1. /\ Disconnects(forceTokenRefreshes) /\ Disturbance
        /\ UNCHANGED <<interruptReasons, authToken, outside>>
    BY <1>17 DEF ConnectionLost
  <2>2. ConnectionKept'
    <3>1. interruptReasons' \subseteq Reasons /\ authToken' \in Tokens
      BY <1>1, <2>1 DEF ConnectionKept, ConnectionTypeOK
    <3> QED BY <1>1, <1>2, <2>1, <3>1, DisconnectsConnection
  <2>3. OthersKept'
    BY <1>1, <2>1, DisturbanceKeeps DEF outside
  <2> QED BY <1>2, <1>5, <2>1, <2>2, <2>3 DEF outside
<1>18. CASE AuthRevoked
  <2>1. RejectsToken /\ UNCHANGED outside /\ (Disturbance \/ UNCHANGED history)
    BY <1>18 DEF AuthRevoked
  <2>2. ConnectionKept' /\ Disconnects(TRUE)
    BY <1>1, <2>1, RejectsConnection DEF RejectsToken
  <2>3. OthersKept'
    BY <1>1, <2>1, DisturbanceKeeps DEF outside
  <2> QED BY <1>5, <2>1, <2>2, <2>3 DEF outside
<1>19. CASE TokenRevoked
  <2>1. revoked' = token /\ Disturbance /\ UNCHANGED <<connectionVars, wireVars, log, token>>
    BY <1>19 DEF TokenRevoked, requestVars, wireVars
  <2>2. ConnectionKept'
    BY <1>1, <2>1, SameConnection DEF wireVars
  <2>3. OthersKept'
    BY <1>1, <2>1 DEF OthersKept, Disturbance, Tokens
  <2> QED BY <1>3, <2>1, <2>2, <2>3 DEF connectionVars
<1>20. CASE Handshake
  <2>1. ConnectionKept' /\ RequestsKept'
    BY <1>1, <1>20, HandshakeConnection, HandshakeRequests
  <2>2. OthersKept'
    BY <1>1, <1>20, DisturbanceKeeps DEF Handshake, outside
  <2> QED BY <2>1, <2>2 DEF Kept
<1>21. CASE Receives
  <2>1. ConnectionKept' /\ RequestsKept'
    BY <1>1, <1>21, ReceivesConnection, ReceivesRequests
  <2>2. OthersKept'
    BY <1>1, <1>21, DisturbanceKeeps DEF Receives, outside
  <2> QED BY <2>1, <2>2 DEF Kept
<1>22. ASSUME UNCHANGED connectionVars, RequestsKept', OthersKept',
              realtime # "Connected" => UNCHANGED <<requests, responses>>
       PROVE  Kept'
  BY <1>1, <1>22, SameConnection DEF Kept
<1>23. CASE ServerAnswers
  <2>1. /\ requests # <<>> /\ UNCHANGED <<connectionVars, token, revoked, history>>
    BY <1>23 DEF ServerAnswers
  <2>2. realtime = "Connected"
    BY <1>2, <2>1 DEF ConnectionInv
  <2>3. RequestsKept'
    BY <1>1, <1>2, <1>23, AnswersRequests
  <2>4. OthersKept'
    BY <1>1, <2>1, DisturbanceKeeps
  <2> QED BY <1>22, <2>1, <2>2, <2>3, <2>4
<1>24. CASE AuthChanges
  <2>1. RequestsKept' /\ authToken' \in Tokens /\ token' \in Tokens
    BY <1>1, <1>2, <1>24, AuthChangesRequests
  <2>2. /\ Disturbance
        /\ UNCHANGED <<connectionState, realtime, interruptReasons, scheduledRetry,
                       forceTokenRefreshes, fetch, staleFetches, responses, revoked>>
        /\ ~Connected => requests' = requests
    BY <1>24 DEF AuthChanges, RefreshAuthToken
  <2>3. ConnectionKept'
    BY <1>1, <2>1, <2>2 DEF ConnectionKept, ConnectionTypeOK, ConnectionInv, ConnectionAssertions,
                            Connected
  <2>4. OthersKept'
    BY <1>1, <2>1, <2>2 DEF OthersKept, Disturbance
  <2> QED BY <2>1, <2>3, <2>4 DEF Kept
<1>25. CASE PurgeOutstandingWrites
  <2>1. /\ Disturbance
        /\ UNCHANGED <<connectionVars, requests, responses, outside>>
    BY <1>25 DEF PurgeOutstandingWrites
  <2>2. RequestsKept'
    BY <1>1, <1>25, PurgesRequests
  <2>3. OthersKept'
    BY <1>1, <2>1, DisturbanceKeeps DEF outside
  <2> QED BY <1>22, <2>1, <2>2, <2>3
<1>26. ASSUME NEW o \in Operations, GetTimesOut(o)
       PROVE  Kept'
  <2>1. UNCHANGED <<connectionVars, requests, responses, outside, history>>
    BY <1>26 DEF GetTimesOut
  <2>2. RequestsKept'
    BY <1>1, <1>26, TimesOutRequests
  <2>3. OthersKept'
    BY <1>1, <2>1, DisturbanceKeeps DEF outside
  <2> QED BY <1>22, <2>1, <2>2, <2>3
<1>27. ASSUME NEW o \in Operations, NEW kind \in Kinds, Call(o, kind)
       PROVE  Kept'
  <2>1. /\ UNCHANGED <<connectionVars, responses, outside, history>>
        /\ ~CanSend => requests' = requests
    BY <1>27 DEF Call
  <2>2. RequestsKept'
    BY <1>1, <1>27, CallRequests
  <2>3. OthersKept'
    BY <1>1, <2>1, DisturbanceKeeps DEF outside
  <2>4. realtime # "Connected" => UNCHANGED <<requests, responses>>
    BY <1>2, <2>1 DEF ConnectionInv, ConnectionAssertions, Connected, CanSend
  <2> QED BY <1>22, <2>1, <2>2, <2>3, <2>4
<1>28. ASSUME NEW q \in Queries, ListenTo(q)
       PROVE  Kept'
  <2>1. /\ listenCount' = listenCount + 1
        /\ UNCHANGED <<connectionVars, responses, outside, disturbances>>
        /\ ~Connected => requests' = requests
    BY <1>28 DEF ListenTo
  <2>2. RequestsKept'
    BY <1>1, <1>2, <1>28, ListenRequests
  <2>3. OthersKept'
    BY <1>1, <2>1 DEF OthersKept, outside
  <2>4. realtime # "Connected" => UNCHANGED <<requests, responses>>
    BY <1>2, <2>1 DEF ConnectionInv, ConnectionAssertions
  <2> QED BY <1>22, <2>1, <2>2, <2>3, <2>4
<1>29. ASSUME NEW q \in Queries, Unlisten(q)
       PROVE  Kept'
  <2>1. UNCHANGED <<connectionVars, requests, responses, outside, history>>
    BY <1>29 DEF Unlisten
  <2>2. RequestsKept'
    BY <1>1, <1>29, UnlistenRequests
  <2>3. OthersKept'
    BY <1>1, <2>1, DisturbanceKeeps DEF outside
  <2> QED BY <1>22, <2>1, <2>2, <2>3
<1>30. CASE UNCHANGED vars
  <2>1. UNCHANGED <<connectionVars, wireVars, outside, history>>
    BY <1>30 DEF vars, requestVars, wireVars
  <2>2. ConnectionKept'
    BY <1>1, <2>1, SameConnection DEF wireVars
  <2>3. OthersKept'
    BY <1>1, <2>1, DisturbanceKeeps DEF outside
  <2> QED BY <1>3, <2>1, <2>2, <2>3 DEF connectionVars, outside
<1>31. CASE Next
  BY <1>8, <1>9, <1>10, <1>11, <1>12, <1>13, <1>14, <1>15, <1>16, <1>17, <1>18, <1>19, <1>20,
     <1>21, <1>23, <1>24, <1>25, <1>26, <1>27, <1>28, <1>29, <1>31 DEF Next, Fetches, Network
<1> QED BY <1>30, <1>31

\* The numbers of the listens that the backend has accepted: only its answers add to them.
LEMMA AcceptedNumbers ==
  ASSUME IInv, [Next]_vars
  PROVE  accepted' \subseteq Nat
<1>1. accepted \subseteq Nat /\ requests \in Seq(RequestRecords)
  BY DEF IInv, TypeOK, RequestsTypeOK
<1>2. CASE ServerAnswers
  <2>1. requests # <<>> /\ accepted' \in {accepted, accepted \cup {Head(requests).id}}
    BY <1>2 DEF ServerAnswers
  <2>2. Head(requests) \in RequestRecords
    BY <1>1, <2>1, HeadTailProperties
  <2> QED BY <1>1, <2>1, <2>2, RequestFields
<1>3. CASE UNCHANGED accepted \/ accepted' = {}
  BY <1>1, <1>3
<1>4. ServerAnswers \/ UNCHANGED accepted \/ accepted' = {}
  BY DEF Next, Fetches, Network, vars, requestVars, Open, GoOnline, GoOffline, ServerKills,
         SystemClockChanges, EnteringForeground, RetryFires, FetchSucceeds, FetchFails, TokenArrives,
         OpenNetworkConnection, Handshake, Receives, AuthAnswered, ConnectionLost, AuthChanges,
         TokenRevoked, AuthRevoked, RejectsToken, PurgeOutstandingWrites, GetTimesOut, Call,
         ListenTo, Unlisten, Resume, Interrupt, Disconnects, CancelsRetry
<1> QED BY <1>2, <1>3, <1>4

LEMMA StepIInv ==
  ASSUME StaleFailures = FALSE, IInv, [Next]_vars
  PROVE  IInv'
<1>1. Kept'
  BY Parts, StepKept
<1> QED BY <1>1, AcceptedNumbers, PartsAgain

\* What IInv says of an application's operations.
LEMMA IInvProperties ==
  ASSUME IInv
  PROVE  /\ TypeOK /\ ConnectionAssertions /\ TransactionsAppliedOnce
         /\ ListensCounted /\ ToldOnceAndTruly
<1>1. TypeOK /\ ConnectionAssertions /\ ListensCounted
  BY DEF IInv, ConnectionInv
<1>2. TransactionsAppliedOnce
  BY DEF IInv, TransactionsInv, IsTransaction, TransactionsAppliedOnce
<1>3. ToldOnceAndTruly
  BY DEF IInv, ToldInv, ToldOnce, ToldOnceAndTruly
<1> QED BY <1>1, <1>2, <1>3

-----------------------------------------------------------------------------
(* The theorems.                                                           *)

LEMMA SpecIInv ==
  ASSUME StaleFailures = FALSE
  PROVE  Spec => []IInv
<1>1. IInv /\ [Next]_vars => IInv'
  BY StepIInv
<1> QED BY <1>1, InitIInv, PTL DEF Spec

\* The connection's variables have their types; an auth is sent only with a token
\* (sendAuthAndRestoreStateAfterComplete).
THEOREM ConnectionTypes ==
  ASSUME StaleFailures = FALSE
  PROVE  Spec => []TypeOK
<1>1. IInv => TypeOK
  BY IInvProperties
<1> QED BY <1>1, SpecIInv, PTL

\* If no attempt to fetch a token fails after a later one began, no assertion about the
\* state of the connection fails (tryScheduleReconnect, restoreAuth, sendPut, sendData).
THEOREM AssertionsHold ==
  ASSUME StaleFailures = FALSE
  PROVE  Spec => []ConnectionAssertions
<1>1. IInv => ConnectionAssertions
  BY IInvProperties
<1> QED BY <1>1, SpecIInv, PTL

\* Then no transaction is applied twice, however often the connection is lost
\* (cancelSentTransactions).
THEOREM NoTransactionTwice ==
  ASSUME StaleFailures = FALSE
  PROVE  Spec => []TransactionsAppliedOnce
<1>1. IInv => TransactionsAppliedOnce
  BY IInvProperties
<1> QED BY <1>1, SpecIInv, PTL

\* Then unackedListentsCount is the number of listens on the wire of this connection, and
\* never negative, over lost connections, unlistens and repeated listens (sendListen).
THEOREM EveryListenCounted ==
  ASSUME StaleFailures = FALSE
  PROVE  Spec => []ListensCounted
<1>1. IInv => ListensCounted
  BY IInvProperties
<1> QED BY <1>1, SpecIInv, PTL

\* Then a completion is called once at most, and with success only for a put that was
\* applied (sendPut, ackPuts, purgeOutstandingWrites, cancelSentTransactions).
THEOREM CompletionsTrue ==
  ASSUME StaleFailures = FALSE
  PROVE  Spec => []ToldOnceAndTruly
<1>1. IInv => ToldOnceAndTruly
  BY IInvProperties
<1> QED BY <1>1, SpecIInv, PTL
=============================================================================
