------------------------- MODULE WatchSnapshotProofs -------------------------
(***************************************************************************)
(* Proof that resume tokens describe the cache and that current views are  *)
(* snapshots, for every set of targets and of keys and every bound, until  *)
(* the backend rejects a target.                                           *)
(*                                                                         *)
(* First what a sequence of responses does to what the client holds of a   *)
(* target; then what the updates of the backend do to it; then that one    *)
(* response taken does it to the aggregator; then the steps.               *)
(***************************************************************************)
EXTENDS WatchSnapshots, WatchProofs

(***************************************************************************)
(* Traces of responses.                                                    *)
(***************************************************************************)

\* A trace that reaches the end of its responses goes on with a trace of more of them.
Continued(s, h, g, more) ==
  [i \in 0 .. Len(s \o more) |-> IF i <= Len(s) THEN h[i] ELSE g[i - Len(s)]]

LEMMA ContinuedIs ==
  ASSUME NEW M, NEW s \in Seq(M), NEW more \in Seq(M), NEW h, NEW g, g[0] = h[Len(s)]
  PROVE  /\ \A i \in 0 .. Len(s) : Continued(s, h, g, more)[i] = h[i]
         /\ \A i \in 0 .. Len(more) : Continued(s, h, g, more)[Len(s) + i] = g[i]
<1> DEFINE n == Len(s)
           f == Continued(s, h, g, more)
<1>1. n \in Nat /\ Len(more) \in Nat /\ Len(s \o more) = n + Len(more)
  OBVIOUS
<1>4. f = [i \in 0 .. n + Len(more) |-> IF i <= n THEN h[i] ELSE g[i - n]]
  BY <1>1 DEF Continued
<1> HIDE DEF n, f
<1>5. \A i \in 0 .. n : f[i] = h[i]
  BY <1>1, <1>4
<1>6. \A i \in 0 .. Len(more) : f[n + i] = g[i]
  <2> SUFFICES ASSUME NEW i \in 0 .. Len(more)
               PROVE  f[n + i] = g[i]
    OBVIOUS
  <2>1. CASE i = 0
    BY <2>1, <1>1, <1>5 DEF n
  <2>2. CASE i # 0
    BY <2>2, <1>1, <1>4
  <2> QED
    BY <2>1, <2>2
<1> QED
  BY <1>5, <1>6 DEF n, f

LEMMA TracesJoin ==
  ASSUME NEW M, NEW s \in Seq(M), NEW more \in Seq(M), NEW t, NEW synced,
         NEW p \in 0 .. Len(s), NEW b \in 1 .. Len(more) + 1, NEW h, NEW g,
         Traces(s, t, synced, p, Len(s) + 1, h), Traces(more, t, synced, 0, b, g),
         g[0] = h[Len(s)]
  PROVE  Traces(s \o more, t, synced, p, Len(s) + b, Continued(s, h, g, more))
<1> DEFINE n == Len(s)
           f == Continued(s, h, g, more)
           both == s \o more
<1>1. n \in Nat /\ Len(more) \in Nat /\ Len(both) = n + Len(more)
  OBVIOUS
<1>2. /\ h \in [0 .. n -> SUBSET Keys] /\ g \in [0 .. Len(more) -> SUBSET Keys]
  BY DEF Traces
<1>3. /\ \A i \in 1 .. n : both[i] = s[i]
      /\ \A j \in 1 .. Len(more) : both[n + j] = more[j]
  BY ConcatAt
<1>4. f = [i \in 0 .. n + Len(more) |-> IF i <= n THEN h[i] ELSE g[i - n]]
  BY <1>1 DEF Continued
<1>5. (\A i \in 0 .. n : f[i] = h[i]) /\ \A i \in 0 .. Len(more) : f[n + i] = g[i]
  BY ContinuedIs
<1> HIDE DEF n, f, both
<1>7. f \in [0 .. n + Len(more) -> SUBSET Keys]
  BY <1>1, <1>2, <1>4
<1>8. ASSUME NEW i \in p + 1 .. n + Len(more)
      PROVE  /\ i < n + b => /\ ~Fails(both[i], t, synced, f[i - 1])
                             /\ f[i] = Follow(both[i], t, synced, f[i - 1])
             /\ i = n + b => Fails(both[i], t, synced, f[i - 1])
  <2>1. CASE i <= n
    <3>1. i \in p + 1 .. n /\ i < n + 1 /\ i < n + b /\ i \in 1 .. n /\ i - 1 \in 0 .. n /\ i \in 0 .. n
      BY <2>1, <1>1
    <3>2. ~Fails(s[i], t, synced, h[i - 1]) /\ h[i] = Follow(s[i], t, synced, h[i - 1])
      BY <3>1 DEF Traces, n
    <3>3. both[i] = s[i] /\ f[i] = h[i] /\ f[i - 1] = h[i - 1]
      BY <3>1, <1>3, <1>5
    <3> QED
      BY <3>1, <3>2, <3>3
  <2>2. CASE ~(i <= n)
    <3> DEFINE j == i - n
    <3>1. j \in 0 + 1 .. Len(more) /\ j \in 1 .. Len(more) /\ i = n + j /\ i - 1 = n + (j - 1)
          /\ j - 1 \in 0 .. Len(more) /\ j \in 0 .. Len(more)
          /\ (i < n + b <=> j < b) /\ (i = n + b <=> j = b)
      BY <2>2, <1>1
    <3> HIDE DEF j
    <3>2. /\ j < b => ~Fails(more[j], t, synced, g[j - 1]) /\ g[j] = Follow(more[j], t, synced, g[j - 1])
          /\ j = b => Fails(more[j], t, synced, g[j - 1])
      BY <3>1 DEF Traces
    <3>3. both[i] = more[j] /\ f[i] = g[j] /\ f[i - 1] = g[j - 1]
      BY <3>1, <1>3, <1>5
    <3> QED
      BY <3>1, <3>2, <3>3
  <2> QED
    BY <2>1, <2>2
<1>9. Traces(both, t, synced, p, n + b, f)
  BY <1>1, <1>7, <1>8 DEF Traces
<1> QED
  BY <1>9 DEF n, f, both

\* A trace that stops at a reset is one of more responses too.
Stopped(s, h, more) == [i \in 0 .. Len(s \o more) |-> IF i <= Len(s) THEN h[i] ELSE {}]

LEMMA StoppedIs ==
  ASSUME NEW M, NEW s \in Seq(M), NEW more \in Seq(M), NEW h
  PROVE  \A i \in 0 .. Len(s) : Stopped(s, h, more)[i] = h[i]
<1>1. \A i \in 0 .. Len(s) : i \in 0 .. Len(s \o more) /\ i <= Len(s)
  OBVIOUS
<1> QED
  BY <1>1 DEF Stopped

LEMMA TracesExtend ==
  ASSUME NEW M, NEW s \in Seq(M), NEW more \in Seq(M), NEW t, NEW synced,
         NEW p \in 0 .. Len(s), NEW b \in 0 .. Len(s), NEW h,
         Traces(s, t, synced, p, b, h)
  PROVE  Traces(s \o more, t, synced, p, b, Stopped(s, h, more))
<1> DEFINE n == Len(s)
           f == Stopped(s, h, more)
           both == s \o more
<1>1. n \in Nat /\ Len(more) \in Nat /\ Len(both) = n + Len(more)
  OBVIOUS
<1>2. h \in [0 .. n -> SUBSET Keys]
  BY DEF Traces
<1>3. \A i \in 1 .. n : both[i] = s[i]
  BY ConcatAt
<1>4. f = [i \in 0 .. n + Len(more) |-> IF i <= n THEN h[i] ELSE {}]
  BY <1>1 DEF Stopped
<1> HIDE DEF n, f, both
<1>5. \A i \in 0 .. n : f[i] = h[i]
  BY <1>1, <1>4
<1>7. f \in [0 .. n + Len(more) -> SUBSET Keys]
  BY <1>1, <1>2, <1>4
<1>8. ASSUME NEW i \in p + 1 .. n + Len(more)
      PROVE  /\ i < b => /\ ~Fails(both[i], t, synced, f[i - 1])
                         /\ f[i] = Follow(both[i], t, synced, f[i - 1])
             /\ i = b => Fails(both[i], t, synced, f[i - 1])
  <2> SUFFICES ASSUME i <= b
               PROVE  /\ i < b => /\ ~Fails(both[i], t, synced, f[i - 1])
                                  /\ f[i] = Follow(both[i], t, synced, f[i - 1])
                      /\ i = b => Fails(both[i], t, synced, f[i - 1])
    BY <1>1 DEF n
  <2>1. i \in p + 1 .. n /\ i \in 1 .. n /\ i - 1 \in 0 .. n /\ i \in 0 .. n
    BY <1>1 DEF n
  <2>2. both[i] = s[i] /\ f[i] = h[i] /\ f[i - 1] = h[i - 1]
    BY <2>1, <1>3, <1>5
  <2> QED
    BY <2>1, <2>2 DEF Traces, n
<1>9. Traces(both, t, synced, p, b, f)
  BY <1>1, <1>7, <1>8 DEF Traces
<1> QED
  BY <1>5, <1>9 DEF n, f, both

\* The responses take what is held of t from one set of keys to another, or make it reset t.
Leads(s, t, synced, from, to) ==
  \E h : Traces(s, t, synced, 0, Len(s) + 1, h) /\ h[0] = from /\ h[Len(s)] = to
Breaks(s, t, synced, from) ==
  \E b \in 1 .. Len(s) : \E h : Traces(s, t, synced, 0, b, h) /\ h[0] = from

LEMMA LeadsThenLeads ==
  ASSUME NEW M, NEW s \in Seq(M), NEW more \in Seq(M), NEW t, NEW synced,
         NEW from, NEW via, NEW to, Leads(s, t, synced, from, via)
  PROVE  /\ Leads(more, t, synced, via, to) => Leads(s \o more, t, synced, from, to)
         /\ Breaks(more, t, synced, via) => Breaks(s \o more, t, synced, from)
<1> DEFINE n == Len(s)
<1>1. n \in Nat /\ Len(more) \in Nat /\ Len(s \o more) = n + Len(more)
  OBVIOUS
<1>2. 0 \in 0 .. n /\ n \in 0 .. n /\ 0 \in 0 .. Len(more) /\ Len(more) \in 0 .. Len(more)
  BY <1>1
<1>3. PICK h : Traces(s, t, synced, 0, n + 1, h) /\ h[0] = from /\ h[n] = via
  BY DEF Leads
<1>7. 0 \in 0 .. Len(s) /\ Traces(s, t, synced, 0, Len(s) + 1, h) /\ h[Len(s)] = via
  BY <1>2, <1>3
<1> HIDE DEF n
<1>4. ASSUME Leads(more, t, synced, via, to)
      PROVE  Leads(s \o more, t, synced, from, to)
  <2>1. PICK g : Traces(more, t, synced, 0, Len(more) + 1, g) /\ g[0] = via /\ g[Len(more)] = to
    BY <1>4 DEF Leads
  <2> DEFINE f == Continued(s, h, g, more)
  <2>2. Len(more) + 1 \in 1 .. Len(more) + 1 /\ g[0] = h[Len(s)]
    BY <1>1, <1>7, <2>1
  <2>3. Traces(s \o more, t, synced, 0, Len(s) + (Len(more) + 1), f)
    BY <1>7, <2>1, <2>2, TracesJoin
  <2>4. \A i \in 0 .. Len(s) : f[i] = h[i]
    BY <2>2, ContinuedIs
  <2>7. \A i \in 0 .. Len(more) : f[Len(s) + i] = g[i]
    BY <2>2, ContinuedIs
  <2> HIDE DEF f
  <2>5. f[0] = from /\ f[Len(s) + Len(more)] = to
    BY <1>2, <1>3, <2>1, <2>4, <2>7 DEF n
  <2>6. Len(s) + (Len(more) + 1) = Len(s \o more) + 1 /\ Len(s) + Len(more) = Len(s \o more)
    BY <1>1 DEF n
  <2> QED
    BY <2>3, <2>5, <2>6 DEF Leads
<1>5. ASSUME Breaks(more, t, synced, via)
      PROVE  Breaks(s \o more, t, synced, from)
  <2>0. PICK b \in 1 .. Len(more) : \E g : Traces(more, t, synced, 0, b, g) /\ g[0] = via
    BY <1>5 DEF Breaks
  <2>1. PICK g : Traces(more, t, synced, 0, b, g) /\ g[0] = via
    BY <2>0
  <2> DEFINE f == Continued(s, h, g, more)
  <2>2. b \in 1 .. Len(more) + 1 /\ g[0] = h[Len(s)]
    BY <1>1, <1>7, <2>1
  <2>3. Traces(s \o more, t, synced, 0, Len(s) + b, f)
    BY <1>7, <2>1, <2>2, TracesJoin
  <2>4. \A i \in 0 .. Len(s) : f[i] = h[i]
    BY <2>2, ContinuedIs
  <2> HIDE DEF f
  <2>5. f[0] = from
    BY <1>2, <1>3, <2>4 DEF n
  <2>6. Len(s) + b \in 1 .. Len(s \o more)
    BY <1>1 DEF n
  <2> QED
    BY <2>3, <2>5, <2>6 DEF Breaks
<1> QED
  BY <1>4, <1>5

LEMMA BreaksThenAny ==
  ASSUME NEW M, NEW s \in Seq(M), NEW more \in Seq(M), NEW t, NEW synced, NEW from,
         Breaks(s, t, synced, from)
  PROVE  Breaks(s \o more, t, synced, from)
<1>1. Len(s) \in Nat /\ Len(more) \in Nat /\ Len(s \o more) = Len(s) + Len(more)
  OBVIOUS
<1>0. PICK b \in 1 .. Len(s) : \E h : Traces(s, t, synced, 0, b, h) /\ h[0] = from
  BY DEF Breaks
<1>2. PICK h : Traces(s, t, synced, 0, b, h) /\ h[0] = from
  BY <1>0
<1>3. 0 \in 0 .. Len(s) /\ b \in 0 .. Len(s) /\ b \in 1 .. Len(s \o more)
  BY <1>1
<1> DEFINE f == Stopped(s, h, more)
<1>4. Traces(s \o more, t, synced, 0, b, f)
  BY <1>2, <1>3, TracesExtend
<1>5. \A i \in 0 .. Len(s) : f[i] = h[i]
  BY StoppedIs
<1> HIDE DEF f
<1>6. f[0] = from
  BY <1>2, <1>3, <1>5
<1> QED
  BY <1>3, <1>4, <1>6 DEF Breaks

\* Responses about other targets change nothing.
LEMMA OthersLead ==
  ASSUME NEW M, NEW s \in Seq(M), NEW t, NEW synced, NEW held \in SUBSET Keys,
         \A i \in 1 .. Len(s) : ~About(s[i], t)
  PROVE  Leads(s, t, synced, held, held)
<1> DEFINE h == [i \in 0 .. Len(s) |-> held]
<1>1. Len(s) \in Nat
  OBVIOUS
<1>2. \A i \in 1 .. Len(s) : ~Fails(s[i], t, synced, held) /\ Follow(s[i], t, synced, held) = held
  BY DEF Fails, Follow, IsFilter
<1>3. \A i \in 1 .. Len(s) : i \in 0 .. Len(s) /\ i - 1 \in 0 .. Len(s) /\ i # Len(s) + 1
  BY <1>1
<1>4. Traces(s, t, synced, 0, Len(s) + 1, h)
  BY <1>1, <1>2, <1>3 DEF Traces
<1> QED
  BY <1>1, <1>4 DEF Leads

\* One response.
LEMMA OneLeads ==
  ASSUME NEW m, NEW t, NEW synced, NEW held \in SUBSET Keys,
         Follow(m, t, synced, held) \in SUBSET Keys
  PROVE  /\ ~Fails(m, t, synced, held) => Leads(<<m>>, t, synced, held, Follow(m, t, synced, held))
         /\ Fails(m, t, synced, held) => Breaks(<<m>>, t, synced, held)
<1> DEFINE next == Follow(m, t, synced, held)
           h == [i \in 0 .. 1 |-> IF i = 0 THEN held ELSE next]
           s == <<m>>
<1>1. Len(s) = 1 /\ s[1] = m
  OBVIOUS
<1>2. h \in [0 .. 1 -> SUBSET Keys] /\ h[0] = held /\ h[1] = next /\ h[1 - 1] = held
  OBVIOUS
<1>3. 0 + 1 .. 1 = {1} /\ 1 < 1 + 1 /\ 1 # 1 + 1 /\ ~(1 < 1)
  OBVIOUS
<1> HIDE DEF h, s
<1>4. ~Fails(m, t, synced, held) => Traces(s, t, synced, 0, 1 + 1, h)
  BY <1>1, <1>2, <1>3 DEF Traces
<1>5. Fails(m, t, synced, held) => Traces(s, t, synced, 0, 1, h)
  BY <1>1, <1>2, <1>3 DEF Traces
<1>6. ~Fails(m, t, synced, held) => Leads(s, t, synced, held, next)
  BY <1>1, <1>2, <1>4 DEF Leads
<1>7. Fails(m, t, synced, held) => Breaks(s, t, synced, held)
  BY <1>1, <1>2, <1>5 DEF Breaks
<1> QED
  BY <1>6, <1>7 DEF s

\* The documents of a target that are sent are added to, or taken from, what is held.
LEMMA MessagesLead ==
  ASSUME NEW type \in {"Document", "Delete"}, NEW t, NEW keys \in SUBSET Keys, IsFiniteSet(keys),
         NEW synced, NEW held \in SUBSET Keys
  PROVE  Leads(Messages(type, t, keys), t, synced, held,
               IF type = "Document" THEN held \cup keys ELSE held \ keys)
<1> DEFINE n == Cardinality(keys)
           list == SetToSeq(keys)
           s == Messages(type, t, keys)
           part(i) == {list[x] : x \in 1 .. i}
           h == [i \in 0 .. n |-> IF type = "Document" THEN held \cup part(i) ELSE held \ part(i)]
<1>1. /\ n \in Nat /\ list \in [1 .. n -> keys]
      /\ \A k \in keys : \E i \in 1 .. n : list[i] = k
  BY SetListed
<1>2. s = [i \in 1 .. n |-> [type |-> type, target |-> t, key |-> list[i]]]
  BY DEF Messages
<1>3. Len(s) = n /\ \A i \in 1 .. n : s[i] = [type |-> type, target |-> t, key |-> list[i]]
  BY <1>1, <1>2
<1> HIDE DEF n, list, s
<1>4. part(0) = {} /\ part(n) = keys
  BY <1>1
<1>5. ASSUME NEW i \in 1 .. n PROVE part(i) = part(i - 1) \cup {list[i]} /\ part(i) \subseteq keys
  <2>1. 1 .. i = (1 .. i - 1) \cup {i} /\ 1 .. i \subseteq 1 .. n
    BY <1>1
  <2> QED
    BY <1>1, <2>1
<1>6. h \in [0 .. n -> SUBSET Keys]
  <2>1. \A i \in 0 .. n : 1 .. i \subseteq 1 .. n
    BY <1>1
  <2>2. \A i \in 0 .. n : part(i) \subseteq Keys
    BY <1>1, <2>1
  <2> HIDE DEF part
  <2> QED
    BY <2>2
<1>7. h[0] = held /\ h[n] = IF type = "Document" THEN held \cup keys ELSE held \ keys
  <2>1. 0 \in 0 .. n /\ n \in 0 .. n
    BY <1>1
  <2> HIDE DEF part
  <2>2. /\ h[0] = IF type = "Document" THEN held \cup part(0) ELSE held \ part(0)
        /\ h[n] = IF type = "Document" THEN held \cup part(n) ELSE held \ part(n)
    BY <2>1
  <2> HIDE DEF h
  <2> QED
    BY <1>4, <2>2
<1>8. ASSUME NEW i \in 1 .. n
      PROVE  ~Fails(s[i], t, synced, h[i - 1]) /\ h[i] = Follow(s[i], t, synced, h[i - 1])
  <2>1. i \in 0 .. n /\ i - 1 \in 0 .. n
    BY <1>1
  <2>2. s[i].type = type /\ s[i].key = list[i] /\ About(s[i], t) /\ ~IsFilter(s[i], t)
    BY <1>3 DEF About, IsFilter
  <2> HIDE DEF part
  <2>3. CASE type = "Document"
    <3>1. h[i] = h[i - 1] \cup {list[i]}
      BY <1>5, <2>1, <2>3
    <3> HIDE DEF h
    <3> QED
      BY <2>2, <2>3, <3>1 DEF Fails, Follow
  <2>4. CASE type = "Delete"
    <3>1. h[i] = h[i - 1] \ {list[i]}
      BY <1>5, <2>1, <2>4
    <3> HIDE DEF h
    <3> QED
      BY <2>2, <2>4, <3>1 DEF Fails, Follow
  <2> QED
    BY <2>3, <2>4
<1> HIDE DEF h
<1>9. Traces(s, t, synced, 0, n + 1, h)
  <2>1. \A i \in 0 + 1 .. n : i \in 1 .. n /\ i # n + 1
    BY <1>1
  <2> QED
    BY <1>3, <1>6, <1>8, <2>1 DEF Traces
<1> QED
  BY <1>3, <1>7, <1>9 DEF Leads, s

(***************************************************************************)
(* What the backend sends to bring a target to a version.                  *)
(***************************************************************************)

Sent(t, add, gone) == Messages("Document", t, add) \o Messages("Delete", t, gone)
ResetTo(t, keys) == <<[type |-> "Reset", target |-> t]>> \o Messages("Document", t, keys)
FilterFor(t, keys, bloom) ==
  [type |-> "Filter", target |-> t, count |-> Cardinality(keys), bloom |-> bloom]

\* Changes, a reset, or changes that may leave out deletes and a filter that says so.
IsUpdate(u, t, v, old, new) ==
  \/ \E m \in SUBSET (old \cap new) : u = Sent(t, (new \ old) \cup m, old \ new)
  \/ u = ResetTo(t, new)
  \/ /\ served[t].version = None /\ ~(v < lastRemote)
     /\ \E m \in SUBSET (old \cap new), r \in SUBSET (old \ new) :
          \E bloom \in {NoBloom, (old \cap new) \ m} :
            u = Sent(t, (new \ old) \cup m, r) \o <<FilterFor(t, new, bloom)>>

LEMMA UpdatesAre ==
  ASSUME ~Collisions, ~SplitResets, NEW t, NEW v, NEW u \in Updates(t, v)
  PROVE  IsUpdate(u, t, v, served[t].keys, truth[v][t])
<1> DEFINE old == served[t].keys
           new == truth[v][t]
           gone == old \ new
           touched == IF Modifications THEN SUBSET (old \cap new) ELSE {{}}
           changes(also, removed) == Sent(t, (new \ old) \cup also, removed)
           filter(bloom) == <<FilterFor(t, new, bloom)>>
           ByChanges == {changes(m, gone) : m \in touched}
           Unfiltered == {changes(m, r) \o filter(NoBloom) : m \in touched, r \in SUBSET gone}
           claimed == IF Collisions THEN SUBSET gone ELSE {{}}
           ByBloom(m, r) == {changes(m, r) \o filter(((old \cap new) \ m) \cup p) : p \in claimed}
           Filtered == UNION {ByBloom(m, r) : m \in touched, r \in SUBSET gone}
           without == \/ ~served[t].resumed \/ served[t].version # None
                      \/ ~SplitResets /\ v < lastRemote
<1>1. Updates(t, v) = ByChanges \cup {ResetTo(t, new)} \cup IF without THEN {} ELSE Unfiltered \cup Filtered
  BY SMTT(30) DEF Updates, Sent, ResetTo, FilterFor
<1>2. \A m \in touched : m \in SUBSET (old \cap new)
  OBVIOUS
<1>0. claimed = {{}}
  OBVIOUS
<1> HIDE DEF changes, filter, touched, claimed
<1> HIDE DEF old, new
<1>3. CASE u \in ByChanges
  <2>1. PICK m \in touched : u = changes(m, gone)
    BY <1>3
  <2> QED
    BY <1>2, <2>1 DEF changes, IsUpdate, old, new
<1>4. ASSUME ~without, u \in Unfiltered \cup Filtered
      PROVE  \E m \in touched, r \in SUBSET gone : \E bloom \in {NoBloom, (old \cap new) \ m} :
               u = changes(m, r) \o filter(bloom)
  <2>1. CASE u \in Unfiltered
    <3>1. PICK m \in touched, r \in SUBSET gone : u = changes(m, r) \o filter(NoBloom)
      BY <2>1
    <3>2. NoBloom \in {NoBloom, (old \cap new) \ m}
      OBVIOUS
    <3> QED
      BY <3>1, <3>2
  <2>2. CASE u \in Filtered
    <3>1. PICK m \in touched, r \in SUBSET gone : u \in ByBloom(m, r)
      <4> HIDE DEF ByBloom
      <4> QED
        BY <2>2
    <3>2. u = changes(m, r) \o filter(((old \cap new) \ m) \cup {})
      BY <1>0, <3>1
    <3>3. ((old \cap new) \ m) \cup {} = (old \cap new) \ m
      OBVIOUS
    <3>4. (old \cap new) \ m \in {NoBloom, (old \cap new) \ m}
      OBVIOUS
    <3> QED
      BY <3>1, <3>2, <3>3, <3>4
  <2> HIDE DEF Unfiltered, Filtered
  <2> QED
    BY <1>4, <2>1, <2>2
<1> HIDE DEF ByChanges, Unfiltered, Filtered
<1>5. ASSUME ~without, u \in Unfiltered \cup Filtered
      PROVE  /\ served[t].version = None /\ ~(v < lastRemote)
             /\ \E m \in SUBSET (old \cap new), r \in SUBSET (old \ new) :
                  \E bloom \in {NoBloom, (old \cap new) \ m} :
                    u = Sent(t, (new \ old) \cup m, r) \o <<FilterFor(t, new, bloom)>>
  <2>0. PICK m \in touched, r \in SUBSET gone : \E bloom \in {NoBloom, (old \cap new) \ m} :
               u = changes(m, r) \o filter(bloom)
    BY <1>4, <1>5
  <2>1. PICK bloom \in {NoBloom, (old \cap new) \ m} : u = changes(m, r) \o filter(bloom)
    BY <2>0
  <2>2. served[t].version = None /\ ~(v < lastRemote)
    BY <1>5
  <2> QED
    BY <1>2, <2>1, <2>2 DEF changes, filter
<1>6. u \in ByChanges \/ u = ResetTo(t, new) \/ (~without /\ u \in Unfiltered \cup Filtered)
  <2> HIDE DEF without
  <2>1. CASE without
    <3>1. u \in ByChanges \cup {ResetTo(t, new)} \cup {}
      BY <1>1, <2>1, Zenon
    <3> QED
      BY <3>1, Zenon
  <2>2. CASE ~without
    <3>1. u \in ByChanges \cup {ResetTo(t, new)} \cup (Unfiltered \cup Filtered)
      BY <1>1, <2>2, Zenon
    <3> QED
      BY <2>2, <3>1, Zenon
  <2> QED
    BY <2>1, <2>2
<1> QED
  BY <1>3, <1>5, <1>6 DEF IsUpdate, old, new

LEMMA KeysAreFinite ==
  ASSUME NEW keys \in SUBSET Keys
  PROVE  IsFiniteSet(keys) /\ Cardinality(keys) \in Nat
BY FS_Subset, FS_CardinalityType, WatchConstants DEF WatchConstants

LEMMA SentLeads ==
  ASSUME NEW n, NEW t \in Targets, NEW add \in SUBSET Keys, NEW gone \in SUBSET Keys,
         NEW synced, NEW held \in SUBSET Keys
  PROVE  /\ Sent(t, add, gone) \in Seq(Passive(n))
         /\ Leads(Sent(t, add, gone), t, synced, held, (held \cup add) \ gone)
<1> DEFINE a == Messages("Document", t, add)
           d == Messages("Delete", t, gone)
<1>1. a \in Seq(Passive(n)) /\ d \in Seq(Passive(n))
  BY MessagesArePassive
<1>2. Leads(a, t, synced, held, held \cup add)
  BY MessagesLead, KeysAreFinite
<1>3. held \cup add \in SUBSET Keys
  OBVIOUS
<1>4. Leads(d, t, synced, held \cup add, (held \cup add) \ gone)
  <2> HIDE DEF d
  <2>1. "Delete" \in {"Document", "Delete"} /\ "Delete" # "Document" /\ IsFiniteSet(gone)
    BY KeysAreFinite
  <2>2. Leads(Messages("Delete", t, gone), t, synced, held \cup add,
              IF "Delete" = "Document" THEN (held \cup add) \cup gone ELSE (held \cup add) \ gone)
    BY <1>3, <2>1, MessagesLead
  <2> QED
    BY <2>1, <2>2 DEF d
<1> HIDE DEF a, d
<1>5. Leads(a \o d, t, synced, held, (held \cup add) \ gone)
  BY <1>1, <1>2, <1>4, LeadsThenLeads
<1>6. a \o d \in Seq(Passive(n))
  BY <1>1
<1> QED
  BY <1>5, <1>6 DEF Sent, a, d

\* A filter that finds nothing amiss, or whose Bloom filter accounts for it, is right.
IsRight(t, old, new, bloom, held) ==
  ~Fails(FilterFor(t, new, bloom), t, old, held)
    => Follow(FilterFor(t, new, bloom), t, old, held) = new

LEMMA FilterIsRight ==
  ASSUME NEW t, NEW old \in SUBSET Keys, NEW new \in SUBSET Keys,
         NEW m, m \subseteq old \cap new, NEW r, r \subseteq old \ new,
         NEW bloom, bloom = NoBloom \/ bloom = (old \cap new) \ m,
         NEW held, held = (old \cup ((new \ old) \cup m)) \ r
  PROVE  IsRight(t, old, new, bloom, held)
<1> SUFFICES ASSUME ~Fails(FilterFor(t, new, bloom), t, old, held)
             PROVE  Follow(FilterFor(t, new, bloom), t, old, held) = new
  BY DEF IsRight
<1> DEFINE f == FilterFor(t, new, bloom)
           gone == old \ new
<1>1. f.type = "Filter" /\ f.count = Cardinality(new) /\ f.bloom = bloom /\ About(f, t) /\ IsFilter(f, t)
  BY DEF FilterFor, About, IsFilter
<1>2. /\ held = new \cup (gone \ r) /\ new \cap (gone \ r) = {} /\ held \in SUBSET Keys
      /\ gone \ r \in SUBSET Keys /\ gone \cup m \in SUBSET Keys /\ new \subseteq held
  OBVIOUS
<1> HIDE DEF f
<1>3. CASE Cardinality(held) = Cardinality(new)
  <2>1. held = new
    BY <1>2, <1>3, KeysAreFinite, FS_Subset
  <2>2. Follow(f, t, old, held) = held
    BY <1>1, <1>3 DEF Follow
  <2> QED
    BY <2>1, <2>2 DEF f
<1>4. CASE Cardinality(held) # Cardinality(new)
  <2>1. /\ f.bloom # NoBloom /\ f.count = Cardinality(held) - Cardinality(Absent(f, old))
    BY <1>1, <1>4 DEF Fails, f
  <2>2. Absent(f, old) = gone \cup m
    BY <1>1, <2>1 DEF Absent
  <2>3. Cardinality(held) = Cardinality(new) + Cardinality(gone \ r)
    <3>1. IsFiniteSet(new) /\ IsFiniteSet(gone \ r)
      BY <1>2, KeysAreFinite
    <3>2. Cardinality(new \cap (gone \ r)) = 0
      BY <1>2, FS_EmptySet
    <3> HIDE DEF gone
    <3>3. Cardinality(new \cup (gone \ r)) = Cardinality(new) + Cardinality(gone \ r) - 0
      BY <3>1, <3>2, FS_Union
    <3>4. Cardinality(new) \in Nat /\ Cardinality(gone \ r) \in Nat
      BY <1>2, KeysAreFinite
    <3> DEFINE x == Cardinality(new)
               y == Cardinality(gone \ r)
    <3>5. Cardinality(held) = x + y - 0
      BY <1>2, <3>3, Zenon
    <3> HIDE DEF x, y
    <3>6. Cardinality(held) = x + y
      BY <3>4, <3>5 DEF x, y
    <3> QED
      BY <3>6 DEF x, y
  <2>4. Cardinality(gone \ r) = Cardinality(gone \cup m)
    <3>1. /\ Cardinality(gone \ r) \in Nat /\ Cardinality(gone \cup m) \in Nat
          /\ Cardinality(new) \in Nat /\ Cardinality(held) \in Nat
      BY <1>2, KeysAreFinite
    <3> HIDE DEF gone
    <3>2. Cardinality(new) = Cardinality(held) - Cardinality(gone \cup m)
      BY <1>1, <2>1, <2>2
    <3> QED
      BY <2>3, <3>1, <3>2
  <2>5. gone \ r = gone \cup m
    <3>1. gone \ r \subseteq gone \cup m /\ IsFiniteSet(gone \cup m)
      BY <1>2, KeysAreFinite
    <3> HIDE DEF gone
    <3> QED
      BY <2>4, <3>1, FS_Subset
  <2>6. Follow(f, t, old, held) = held \ (gone \cup m)
    <3>1. IsFilter(f, t) /\ Cardinality(held) # f.count
      BY <1>1, <1>4
    <3> QED
      BY <1>1, <2>2, <3>1 DEF Follow
  <2>7. held \ (gone \cup m) = new
    BY <1>2, <2>5
  <2> QED
    BY <2>6, <2>7 DEF f
<1> QED
  BY <1>3, <1>4

\* An update takes what is held to the keys of its version, or makes the client reset t.
LEMMA UpdateLeads ==
  ASSUME NEW t \in Targets, NEW v, NEW u, NEW old \in SUBSET Keys, NEW new \in SUBSET Keys,
         IsUpdate(u, t, v, old, new), NEW synced \in SUBSET Keys, served[t].version = None => old = synced
  PROVE  Leads(u, t, synced, old, new) \/ Breaks(u, t, synced, old)
<1>1. \A m \in SUBSET (old \cap new), r \in SUBSET (old \ new) :
        /\ Sent(t, (new \ old) \cup m, r) \in Seq(Passive(0))
        /\ Leads(Sent(t, (new \ old) \cup m, r), t, synced, old, (old \cup ((new \ old) \cup m)) \ r)
  <2> TAKE m \in SUBSET (old \cap new), r \in SUBSET (old \ new)
  <2>1. (new \ old) \cup m \in SUBSET Keys /\ r \in SUBSET Keys
    OBVIOUS
  <2> QED
    BY <2>1, SentLeads
<1>2. CASE \E m \in SUBSET (old \cap new) : u = Sent(t, (new \ old) \cup m, old \ new)
  <2>1. PICK m \in SUBSET (old \cap new) : u = Sent(t, (new \ old) \cup m, old \ new)
    BY <1>2
  <2>2. old \ new \in SUBSET (old \ new)
    OBVIOUS
  <2>3. Leads(u, t, synced, old, (old \cup ((new \ old) \cup m)) \ (old \ new))
    BY <1>1, <2>1, <2>2
  <2>4. (old \cup ((new \ old) \cup m)) \ (old \ new) = new
    OBVIOUS
  <2> QED
    BY <2>3, <2>4
<1>3. CASE u = ResetTo(t, new)
  <2> DEFINE m == [type |-> "Reset", target |-> t]
             a == <<m>>
             d == Messages("Document", t, new)
  <2>1. /\ Follow(m, t, synced, old) = {} /\ ~Fails(m, t, synced, old)
    BY DEF Follow, Fails, IsFilter, About
  <2>2. {} \in SUBSET Keys
    OBVIOUS
  <2>3. Leads(a, t, synced, old, {})
    BY <2>1, <2>2, OneLeads
  <2>4. Leads(d, t, synced, {}, {} \cup new)
    BY <2>2, MessagesLead, KeysAreFinite
  <2>5. m \in Passive(0)
    BY DEF Passive, Responses, Answers
  <2> HIDE DEF m
  <2>6. a \in Seq(Passive(0)) /\ d \in Seq(Passive(0))
    BY <2>5, MessagesArePassive
  <2>7. {} \cup new = new
    OBVIOUS
  <2> HIDE DEF a, d
  <2>8. Leads(a \o d, t, synced, old, new)
    BY <2>3, <2>4, <2>6, <2>7, LeadsThenLeads
  <2> QED
    BY <1>3, <2>8 DEF ResetTo, a, d, m
<1>4. CASE /\ served[t].version = None
           /\ \E m \in SUBSET (old \cap new), r \in SUBSET (old \ new) :
                \E bloom \in {NoBloom, (old \cap new) \ m} :
                  u = Sent(t, (new \ old) \cup m, r) \o <<FilterFor(t, new, bloom)>>
  <2>1. PICK m \in SUBSET (old \cap new), r \in SUBSET (old \ new) :
                \E bloom \in {NoBloom, (old \cap new) \ m} :
                  u = Sent(t, (new \ old) \cup m, r) \o <<FilterFor(t, new, bloom)>>
    BY <1>4
  <2>2. PICK bloom \in {NoBloom, (old \cap new) \ m} :
                  u = Sent(t, (new \ old) \cup m, r) \o <<FilterFor(t, new, bloom)>>
    BY <2>1
  <2> DEFINE a == Sent(t, (new \ old) \cup m, r)
             f == FilterFor(t, new, bloom)
             held == (old \cup ((new \ old) \cup m)) \ r
             P == Passive(0) \cup {f}
  <2>3. a \in Seq(Passive(0)) /\ Leads(a, t, synced, old, held)
    BY <1>1
  <2>4. held \in SUBSET Keys /\ synced = old
    BY <1>4
  <2>5. Follow(f, t, synced, held) \in SUBSET Keys
    <3>1. f.type = "Filter"
      BY DEF FilterFor
    <3> HIDE DEF f, held
    <3> QED
      BY <2>4, <3>1 DEF Follow
  <2>6. ~Fails(f, t, synced, held) => Follow(f, t, synced, held) = new
    <3>1. held = (old \cup ((new \ old) \cup m)) \ r
      OBVIOUS
    <3>3. /\ m \subseteq old \cap new /\ r \subseteq old \ new
          /\ bloom = NoBloom \/ bloom = (old \cap new) \ m
      OBVIOUS
    <3> HIDE DEF held, f, a, P
    <3>2. IsRight(t, old, new, bloom, held)
      BY <3>1, <3>3, FilterIsRight
    <3> QED
      BY <2>4, <3>2 DEF f, IsRight
  <2> HIDE DEF a, f, held
  <2>7. (Leads(<<f>>, t, synced, held, new)) \/ Breaks(<<f>>, t, synced, held)
    BY <2>4, <2>5, <2>6, OneLeads
  <2>8. a \in Seq(P) /\ <<f>> \in Seq(P)
    BY <2>3, SeqMonotonic
  <2> HIDE DEF P
  <2>9. Leads(a \o <<f>>, t, synced, old, new) \/ Breaks(a \o <<f>>, t, synced, old)
    BY <2>3, <2>7, <2>8, LeadsThenLeads
  <2> QED
    BY <2>2, <2>9 DEF a, f
<1>5. \/ \E m \in SUBSET (old \cap new) : u = Sent(t, (new \ old) \cup m, old \ new)
      \/ u = ResetTo(t, new)
      \/ /\ served[t].version = None /\ ~(v < lastRemote)
         /\ \E m \in SUBSET (old \cap new), r \in SUBSET (old \ new) :
              \E bloom \in {NoBloom, (old \cap new) \ m} :
                u = Sent(t, (new \ old) \cup m, r) \o <<FilterFor(t, new, bloom)>>
  BY DEF IsUpdate
<1> QED
  BY <1>2, <1>3, <1>4, <1>5

\* An update is about its target; a filter is its last part, of a first snapshot that is not
\* behind the last remote one.
LEMMA UpdateParts ==
  ASSUME NEW t \in Targets, NEW v, NEW u, NEW old \in SUBSET Keys, NEW new \in SUBSET Keys,
         IsUpdate(u, t, v, old, new)
  PROVE  \A i \in 1 .. Len(u) :
           /\ u[i].type \in {"Document", "Delete", "Reset", "Filter"} /\ u[i].target = t
           /\ u[i].type = "Filter" =>
                i = Len(u) /\ served[t].version = None /\ ~(v < lastRemote)
<1> DEFINE Plain == {x \in Passive(0) : x.type \in {"Document", "Delete", "Reset"} /\ x.target = t}
<1>1. \A keys \in SUBSET Keys : \A type \in {"Document", "Delete"} :
        Messages(type, t, keys) \in Seq(Plain)
  <2> SUFFICES ASSUME NEW keys \in SUBSET Keys, NEW type \in {"Document", "Delete"}
               PROVE  Messages(type, t, keys) \in Seq(Plain)
    OBVIOUS
  <2> DEFINE N == Cardinality(keys)
             s == Messages(type, t, keys)
  <2>1. N \in Nat /\ SetToSeq(keys) \in [1 .. N -> keys]
    BY KeysAreFinite, SetListed
  <2>2. s = [i \in 1 .. N |-> [type |-> type, target |-> t, key |-> SetToSeq(keys)[i]]]
    BY DEF Messages
  <2>3. \A k \in Keys : [type |-> type, target |-> t, key |-> k] \in Plain
    BY DEF Passive, Responses, Answers
  <2> HIDE DEF N, s, Plain
  <2>4. s \in [1 .. N -> Plain]
    BY <2>1, <2>2, <2>3
  <2> QED
    BY <2>1, <2>4 DEF s
<1>2. \A add \in SUBSET Keys, gone \in SUBSET Keys : Sent(t, add, gone) \in Seq(Plain)
  <2> HIDE DEF Plain
  <2> QED
    BY <1>1 DEF Sent
<1>3. ResetTo(t, new) \in Seq(Plain)
  <2>1. [type |-> "Reset", target |-> t] \in Plain
    BY DEF Passive, Responses, Answers
  <2> HIDE DEF Plain
  <2>2. <<[type |-> "Reset", target |-> t]>> \in Seq(Plain) /\ Messages("Document", t, new) \in Seq(Plain)
    BY <1>1, <2>1
  <2> QED
    BY <2>2 DEF ResetTo
<1>4. ASSUME u \in Seq(Plain)
      PROVE  \A i \in 1 .. Len(u) :
               u[i].type \in {"Document", "Delete", "Reset"} /\ u[i].target = t
  <2>1. \A i \in 1 .. Len(u) : u[i] \in Plain
    BY <1>4
  <2> QED
    BY <2>1
<1>5. CASE \E m \in SUBSET (old \cap new) : u = Sent(t, (new \ old) \cup m, old \ new)
  <2>1. PICK m \in SUBSET (old \cap new) : u = Sent(t, (new \ old) \cup m, old \ new)
    BY <1>5
  <2>2. (new \ old) \cup m \in SUBSET Keys /\ old \ new \in SUBSET Keys
    OBVIOUS
  <2>3. u \in Seq(Plain)
    BY <1>2, <2>1, <2>2
  <2> QED
    BY <1>4, <2>3
<1>6. CASE u = ResetTo(t, new)
  BY <1>3, <1>4, <1>6
<1>7. CASE /\ served[t].version = None /\ ~(v < lastRemote)
           /\ \E m \in SUBSET (old \cap new), r \in SUBSET (old \ new) :
                \E bloom \in {NoBloom, (old \cap new) \ m} :
                  u = Sent(t, (new \ old) \cup m, r) \o <<FilterFor(t, new, bloom)>>
  <2>1. PICK m \in SUBSET (old \cap new), r \in SUBSET (old \ new) :
                \E bloom \in {NoBloom, (old \cap new) \ m} :
                  u = Sent(t, (new \ old) \cup m, r) \o <<FilterFor(t, new, bloom)>>
    BY <1>7
  <2>2. PICK bloom \in {NoBloom, (old \cap new) \ m} :
                  u = Sent(t, (new \ old) \cup m, r) \o <<FilterFor(t, new, bloom)>>
    BY <2>1
  <2> DEFINE a == Sent(t, (new \ old) \cup m, r)
             f == FilterFor(t, new, bloom)
  <2>3. (new \ old) \cup m \in SUBSET Keys /\ r \in SUBSET Keys
    OBVIOUS
  <2>4. a \in Seq(Plain)
    BY <1>2, <2>3
  <2>5. f.type = "Filter" /\ f.target = t
    BY DEF FilterFor
  <2> DEFINE P == Plain \cup {f}
  <2>9. a \in Seq(P) /\ <<f>> \in Seq(P)
    BY <2>4, SeqMonotonic
  <2>10. u = a \o <<f>>
    BY <2>2
  <2> HIDE DEF a, f, Plain, P
  <2>11. \A i \in 1 .. Len(a) : u[i] = a[i]
    BY <2>9, <2>10, ConcatAt
  <2>6. /\ Len(u) = Len(a) + 1 /\ Len(a) \in Nat /\ u[Len(a) + 1] = f
        /\ \A i \in 1 .. Len(a) : u[i] = a[i] /\ a[i] \in Plain
    BY <2>4, <2>9, <2>10, <2>11
  <2>7. \A i \in 1 .. Len(u) : i = Len(u) \/ i \in 1 .. Len(a)
    BY <2>6
  <2>8. \A x \in Plain : x.type \in {"Document", "Delete", "Reset"} /\ x.target = t
    BY DEF Plain
  <2> QED
    BY <1>7, <2>5, <2>6, <2>7, <2>8
<1> QED
  <2>2. \/ \E m \in SUBSET (old \cap new) : u = Sent(t, (new \ old) \cup m, old \ new)
        \/ u = ResetTo(t, new)
        \/ /\ served[t].version = None /\ ~(v < lastRemote)
           /\ \E m \in SUBSET (old \cap new), r \in SUBSET (old \ new) :
                \E bloom \in {NoBloom, (old \cap new) \ m} :
                  u = Sent(t, (new \ old) \cup m, r) \o <<FilterFor(t, new, bloom)>>
    BY DEF IsUpdate
  <2> QED
    BY <1>5, <1>6, <1>7, <2>2

\* Of sequences put one after the other, one stands between what are parts of the others.
OfThese(s, seqs, D) ==
  \A i \in 1 .. Len(s) : \E u \in D : \E j \in 1 .. Len(seqs[u]) : s[i] = seqs[u][j]
StandsBetween(s, before, part, after, seqs, others) ==
  s = (before \o part) \o after /\ OfThese(before, seqs, others) /\ OfThese(after, seqs, others)

LEMMA InOrderSplit ==
  ASSUME NEW M, NEW D, IsFiniteSet(D), NEW seqs \in [D -> Seq(M)], NEW t \in D
  PROVE  \E before \in Seq(M), after \in Seq(M) :
           StandsBetween(InSomeOrder(seqs), before, seqs[t], after, seqs, D \ {t})
<1> DEFINE L == Cardinality(D)
           list == SetToSeq(D)
           s == InSomeOrder(seqs)
<1>1. /\ L \in Nat /\ list \in [1 .. L -> D]
      /\ \A i, j \in 1 .. L : list[i] = list[j] => i = j
      /\ \A x \in D : \E i \in 1 .. L : list[i] = x
  BY SetListed
<1>2. s \in Seq(M) /\ \A i \in 1 .. L : Listed(seqs)[i] = seqs[list[i]]
  BY InOrder
<1>3. PICK off : Ends(Listed(seqs), L, off) /\ Joined(s, Listed(seqs), L, off)
  BY InOrder
<1> HIDE DEF L, list, s
<1>4. \A i \in 1 .. L : Listed(seqs)[i] \in Seq(M) /\ Len(Listed(seqs)[i]) \in Nat
  BY <1>1, <1>2
<1>5. PICK k \in 1 .. L : list[k] = t
  BY <1>1
<1>6. /\ off \in [0 .. L -> Nat] /\ off[0] = 0 /\ Len(s) = off[L]
      /\ off[k] = off[k - 1] + Len(seqs[t])
      /\ \A i \in 1 .. L : \A j \in 1 .. Len(seqs[list[i]]) : s[off[i - 1] + j] = seqs[list[i]][j]
  <2>1. off \in [0 .. L -> Nat] /\ off[0] = 0 /\ Len(s) = off[L]
    BY <1>3 DEF Ends, Joined
  <2>2. off[k] = off[k - 1] + Len(Listed(seqs)[k])
    BY <1>3 DEF Ends
  <2>3. Listed(seqs)[k] = seqs[t]
    BY <1>2, <1>5
  <2>4. \A i \in 1 .. L : \A j \in 1 .. Len(seqs[list[i]]) : s[off[i - 1] + j] = seqs[list[i]][j]
    <3> SUFFICES ASSUME NEW i \in 1 .. L, NEW j \in 1 .. Len(seqs[list[i]])
                 PROVE  s[off[i - 1] + j] = seqs[list[i]][j]
      OBVIOUS
    <3>1. Listed(seqs)[i] = seqs[list[i]]
      BY <1>2
    <3> QED
      BY <1>3, <3>1 DEF Joined
  <2> QED
    BY <2>1, <2>2, <2>3, <2>4
<1>7. \A i, j \in 0 .. L : i <= j => off[i] <= off[j]
  BY <1>1, <1>3, <1>4, EndsGrow
<1> DEFINE x == off[k - 1]
           y == off[k]
           n == off[L]
           before == [i \in 1 .. x |-> s[i]]
           after == [i \in 1 .. n - y |-> s[y + i]]
<1>8. x \in Nat /\ y \in Nat /\ n \in Nat /\ x <= y /\ y <= n
  <2>1. k - 1 \in 0 .. L /\ k \in 0 .. L /\ L \in 0 .. L /\ k - 1 <= k /\ k <= L
    BY <1>1
  <2> QED
    BY <1>6, <1>7, <2>1
<1>9. ASSUME NEW p \in 1 .. n, p <= x \/ p > y
      PROVE  \E u \in D \ {t} : \E j \in 1 .. Len(seqs[u]) : s[p] = seqs[u][j]
  <2>1. PICK i \in 1 .. L : \E j \in 1 .. Len(Listed(seqs)[i]) : p = off[i - 1] + j
    <3>1. Ends(Listed(seqs), L, off) /\ (\A i \in 1 .. L : Len(Listed(seqs)[i]) \in Nat) /\ p \in 1 .. off[L]
      BY <1>3, <1>4
    <3> QED
      <4>0. L \in Nat
        BY <1>1
      <4> DEFINE parts == Listed(seqs)
      <4>1. Ends(parts, L, off) /\ (\A i \in 1 .. L : Len(parts[i]) \in Nat) /\ p \in 1 .. off[L]
        BY <3>1
      <4> HIDE DEF parts
      <4>2. \E i \in 1 .. L : \E j \in 1 .. Len(parts[i]) : p = off[i - 1] + j
        BY <4>0, <4>1, PlaceInPart
      <4> QED
        BY <4>2 DEF parts
  <2>2. PICK j \in 1 .. Len(Listed(seqs)[i]) : p = off[i - 1] + j
    BY <2>1
  <2>3. j \in 1 .. Len(seqs[list[i]]) /\ s[p] = seqs[list[i]][j] /\ list[i] \in D
    BY <1>1, <1>2, <1>6, <2>2
  <2>4. list[i] # t
    <3> SUFFICES ASSUME list[i] = t PROVE FALSE
      OBVIOUS
    <3>1. i = k
      BY <1>1, <1>5
    <3>2. j \in 1 .. Len(seqs[t]) /\ p = x + j /\ Len(seqs[t]) \in Nat
      BY <2>2, <2>3, <3>1
    <3> QED
      BY <1>6, <1>8, <1>9, <3>2
  <2> QED
    BY <2>3, <2>4
<1>10. before \in Seq(M) /\ after \in Seq(M) /\ Len(before) = x /\ Len(after) = n - y
  <2>1. \A i \in 1 .. n : s[i] \in M
    BY <1>2, <1>6
  <2>2. (\A i \in 1 .. x : i \in 1 .. n) /\ \A i \in 1 .. n - y : y + i \in 1 .. n
    BY <1>8
  <2> HIDE DEF x, y, n
  <2> QED
    BY <1>8, <2>1, <2>2
<1>11. s = (before \o seqs[t]) \o after
  <2> DEFINE a == before \o seqs[t]
             c == a \o after
  <2>1. seqs[t] \in Seq(M) /\ y = x + Len(seqs[t]) /\ Len(seqs[t]) \in Nat
    BY <1>6
  <2> HIDE DEF x, y, n, before, after
  <2>2. a \in Seq(M) /\ Len(a) = y
    <3> HIDE DEF a
    <3>1. before \o seqs[t] \in Seq(M) /\ Len(before \o seqs[t]) = Len(before) + Len(seqs[t])
      BY <1>10, <2>1, ConcatProperties, Zenon
    <3> QED
      BY <1>10, <2>1, <3>1 DEF a
  <2>3. c \in Seq(M) /\ Len(c) = n
    <3> HIDE DEF a, c
    <3>1. a \o after \in Seq(M) /\ Len(a \o after) = Len(a) + Len(after)
      BY <1>10, <2>2, ConcatProperties, Zenon
    <3> QED
      BY <1>8, <1>10, <2>2, <3>1 DEF c
  <2>4. (\A i \in 1 .. x : a[i] = before[i]) /\ \A j \in 1 .. Len(seqs[t]) : a[x + j] = seqs[t][j]
    <3>1. /\ \A i \in 1 .. Len(before) : (before \o seqs[t])[i] = before[i]
          /\ \A j \in 1 .. Len(seqs[t]) : (before \o seqs[t])[Len(before) + j] = seqs[t][j]
      BY <1>10, <2>1, ConcatAt
    <3> QED
      BY <1>10, <3>1
  <2>5. (\A i \in 1 .. y : c[i] = a[i]) /\ \A j \in 1 .. n - y : c[y + j] = after[j]
    <3> HIDE DEF a
    <3>1. /\ \A i \in 1 .. Len(a) : (a \o after)[i] = a[i]
          /\ \A j \in 1 .. Len(after) : (a \o after)[Len(a) + j] = after[j]
      BY <1>10, <2>2, ConcatAt
    <3> QED
      BY <1>10, <2>2, <3>1
  <2>6. /\ \A i \in 1 .. x : before[i] = s[i]
        /\ \A j \in 1 .. n - y : after[j] = s[y + j]
        /\ \A j \in 1 .. Len(seqs[t]) : s[x + j] = seqs[t][j]
    BY <1>5, <1>6 DEF x, y, n, before, after
  <2> HIDE DEF a, c
  <2>7. ASSUME NEW i \in 1 .. n PROVE c[i] = s[i]
    <3>1. CASE i <= x
      BY <1>8, <2>4, <2>5, <2>6, <3>1
    <3>2. CASE i > x /\ i <= y
      <4>1. i - x \in 1 .. Len(seqs[t]) /\ i = x + (i - x) /\ i \in 1 .. y
        BY <1>8, <2>1, <3>2
      <4> QED
        BY <2>4, <2>5, <2>6, <4>1
    <3>3. CASE i > y
      <4>1. i - y \in 1 .. n - y /\ i = y + (i - y)
        BY <1>8, <3>3
      <4> QED
        BY <2>5, <2>6, <4>1
    <3> QED
      BY <1>8, <3>1, <3>2, <3>3
  <2>8. Len(s) = n
    BY <1>6 DEF n
  <2>9. c = s
    BY <1>2, <2>3, <2>7, <2>8, SeqEqual
  <2> QED
    BY <2>9 DEF c, a
<1>12. /\ \A i \in 1 .. Len(before) : i \in 1 .. n /\ i <= x /\ before[i] = s[i]
       /\ \A i \in 1 .. Len(after) : y + i \in 1 .. n /\ y + i > y /\ after[i] = s[y + i]
  <2>1. /\ \A i \in 1 .. x : i \in 1 .. n /\ i <= x
        /\ \A i \in 1 .. n - y : y + i \in 1 .. n /\ y + i > y
    BY <1>8
  <2> HIDE DEF x, y, n
  <2> QED
    BY <1>10, <2>1
<1> HIDE DEF before, after, x, y, n
<1>13. /\ \A i \in 1 .. Len(before) :
            \E u \in D \ {t} : \E j \in 1 .. Len(seqs[u]) : before[i] = seqs[u][j]
       /\ \A i \in 1 .. Len(after) :
            \E u \in D \ {t} : \E j \in 1 .. Len(seqs[u]) : after[i] = seqs[u][j]
  BY <1>9, <1>12
<1>14. StandsBetween(s, before, seqs[t], after, seqs, D \ {t})
  BY <1>11, <1>13 DEF StandsBetween, OfThese
<1> QED
  BY <1>10, <1>14 DEF s

\* After a filter for t, nothing but Current is said of t.
FilterLast(s, t) ==
  \A i \in 1 .. Len(s) : IsFilter(s[i], t) =>
    \A x \in i + 1 .. Len(s) : About(s[x], t) => s[x].type = "Current"
Silent(s, t) == \A i \in 1 .. Len(s) : ~About(s[i], t)
OnlyCurrent(s, t) == \A i \in 1 .. Len(s) : About(s[i], t) => s[i].type = "Current"

LEMMA FilterLastJoin ==
  ASSUME NEW M, NEW a \in Seq(M), NEW b \in Seq(M), NEW t,
         \/ Silent(a, t) /\ FilterLast(b, t)
         \/ FilterLast(a, t) /\ OnlyCurrent(b, t)
  PROVE  FilterLast(a \o b, t)
<1> DEFINE s == a \o b
           n == Len(a)
<1>1. n \in Nat /\ Len(b) \in Nat /\ Len(s) = n + Len(b)
  OBVIOUS
<1>2. \A i \in 1 .. n : s[i] = a[i]
  BY ConcatAt
<1>3. \A j \in 1 .. Len(b) : s[n + j] = b[j]
  BY ConcatAt
<1> SUFFICES ASSUME NEW i \in 1 .. n + Len(b), IsFilter(s[i], t),
                    NEW x \in i + 1 .. n + Len(b), About(s[x], t)
             PROVE  s[x].type = "Current"
  BY <1>1 DEF FilterLast
<1> HIDE DEF s, n
<1>4. About(s[i], t) /\ s[i].type = "Filter"
  BY DEF IsFilter
<1>5. CASE Silent(a, t) /\ FilterLast(b, t)
  <2>1. ~(i <= n)
    <3> SUFFICES ASSUME i <= n PROVE FALSE
      OBVIOUS
    <3>1. i \in 1 .. n /\ i \in 1 .. Len(a)
      BY <1>1 DEF n
    <3> QED
      BY <1>2, <1>4, <1>5, <3>1 DEF Silent
  <2>2. /\ i - n \in 1 .. Len(b) /\ x - n \in (i - n) + 1 .. Len(b) /\ x - n \in 1 .. Len(b)
        /\ i = n + (i - n) /\ x = n + (x - n)
    BY <1>1, <2>1
  <2>3. s[i] = b[i - n] /\ s[x] = b[x - n]
    BY <1>3, <2>2
  <2> QED
    BY <1>5, <2>2, <2>3 DEF FilterLast
<1>6. CASE FilterLast(a, t) /\ OnlyCurrent(b, t)
  <2>1. CASE x <= n
    <3>1. i \in 1 .. n /\ x \in 1 .. n /\ x \in i + 1 .. n
      BY <1>1, <2>1
    <3>2. s[i] = a[i] /\ s[x] = a[x]
      BY <1>2, <3>1
    <3> QED
      BY <1>6, <3>1, <3>2 DEF FilterLast, n
  <2>2. CASE ~(x <= n)
    <3>1. x - n \in 1 .. Len(b) /\ x = n + (x - n)
      BY <1>1, <2>2
    <3>2. s[x] = b[x - n]
      BY <1>3, <3>1
    <3> QED
      BY <1>6, <3>1, <3>2 DEF OnlyCurrent
  <2> QED
    BY <2>1, <2>2
<1> QED
  BY <1>5, <1>6

\* What catching up to version v says of target t before the snapshot.
BringsUp(s, t, v, synced, old, new) ==
  /\ Leads(s, t, synced, old, new) \/ Breaks(s, t, synced, old)
  /\ FilterLast(s, t)
  /\ \A i \in 1 .. Len(s) :
       /\ s[i].type # "NoChange" /\ ~Answers(s[i])
       /\ IsFilter(s[i], t) => served[t].version = None /\ ~(v < lastRemote)

AllFor(s, t) == \A i \in 1 .. Len(s) : s[i].target = t

LEMMA OneTargetBroughtUp ==
  ASSUME NEW n, NEW t \in Targets, NEW v \in 1 .. n, NEW u \in Seq(Passive(n)),
         NEW old \in SUBSET Keys, NEW new \in SUBSET Keys, IsUpdate(u, t, v, old, new),
         NEW synced \in SUBSET Keys, served[t].version = None => old = synced,
         NEW cur, cur = <<>> \/ cur = <<[type |-> "Current", target |-> t, token |-> v]>>
  PROVE  /\ u \o cur \in Seq(Passive(n)) /\ BringsUp(u \o cur, t, v, synced, old, new)
         /\ AllFor(u \o cur, t)
<1> DEFINE P == Passive(n)
           m == [type |-> "Current", target |-> t, token |-> v]
           s == u \o cur
<1>1. m \in P /\ m.type = "Current" /\ m.target = t
  BY DEF Passive, Responses, Answers
<1>2. \A x \in P : ~Answers(x)
  BY DEF Passive
<1>3. \A held \in SUBSET Keys : ~Fails(m, t, synced, held) /\ Follow(m, t, synced, held) = held
  BY DEF Fails, Follow, IsFilter, About
<1>4. \A held \in SUBSET Keys : Leads(<<m>>, t, synced, held, held)
  <2> HIDE DEF m
  <2> QED
    BY <1>3, OneLeads
<1> HIDE DEF P, m
<1>5. cur \in Seq(P) /\ \A i \in 1 .. Len(cur) : cur[i] = m
  <2>1. CASE cur = <<>>
    BY <2>1
  <2>2. CASE cur = <<m>>
    BY <1>1, <2>2
  <2> QED
    BY <2>1, <2>2 DEF m
<1>6. \A held \in SUBSET Keys : Leads(cur, t, synced, held, held)
  <2>1. CASE cur = <<>>
    <3>1. \A i \in 1 .. Len(cur) : ~About(cur[i], t)
      BY <2>1
    <3> QED
      BY <1>5, <3>1, OthersLead
  <2>2. CASE cur = <<m>>
    BY <1>4, <2>2
  <2> QED
    BY <2>1, <2>2 DEF m
<1>7. u \in Seq(P)
  BY DEF P
<1>8. Leads(u, t, synced, old, new) \/ Breaks(u, t, synced, old)
  BY UpdateLeads
<1>9. Leads(s, t, synced, old, new) \/ Breaks(s, t, synced, old)
  <2>1. Leads(cur, t, synced, new, new)
    BY <1>6
  <2> QED
    BY <1>5, <1>7, <1>8, <2>1, LeadsThenLeads, BreaksThenAny
<1>10. \A i \in 1 .. Len(u) :
         /\ u[i].type \in {"Document", "Delete", "Reset", "Filter"} /\ u[i].target = t
         /\ u[i].type = "Filter" =>
              i = Len(u) /\ served[t].version = None /\ ~(v < lastRemote)
  BY UpdateParts
<1>11. s \in Seq(P) /\ Len(s) = Len(u) + Len(cur) /\ Len(u) \in Nat /\ Len(cur) \in Nat
  BY <1>5, <1>7, ConcatProperties
<1>12. \A i \in 1 .. Len(u) : s[i] = u[i]
  BY <1>5, <1>7, ConcatAt
<1>13. \A i \in 1 .. Len(cur) : s[Len(u) + i] = cur[i]
  BY <1>5, <1>7, ConcatAt
<1> HIDE DEF s
<1>14. ASSUME NEW i \in 1 .. Len(s)
       PROVE  i \in 1 .. Len(u) \/ (s[i] = m /\ ~(i \in 1 .. Len(u)))
  <2> SUFFICES ASSUME ~(i \in 1 .. Len(u)) PROVE s[i] = m
    OBVIOUS
  <2>1. i - Len(u) \in 1 .. Len(cur) /\ i = Len(u) + (i - Len(u))
    BY <1>11
  <2> QED
    BY <1>5, <1>13, <2>1
<1>15. FilterLast(s, t)
  <2>1. FilterLast(u, t)
    <3> SUFFICES ASSUME NEW i \in 1 .. Len(u), IsFilter(u[i], t), NEW x \in i + 1 .. Len(u)
                 PROVE  FALSE
      BY DEF FilterLast
    <3>1. i = Len(u)
      BY <1>10 DEF IsFilter
    <3> QED
      BY <1>11, <3>1
  <2>2. OnlyCurrent(cur, t)
    BY <1>1, <1>5 DEF OnlyCurrent
  <2> QED
    BY <1>5, <1>7, <2>1, <2>2, FilterLastJoin DEF s
<1>16. ASSUME NEW i \in 1 .. Len(s)
       PROVE  /\ s[i].target = t /\ s[i].type # "NoChange" /\ ~Answers(s[i])
              /\ IsFilter(s[i], t) => served[t].version = None /\ ~(v < lastRemote)
  <2>1. s[i] \in P
    BY <1>11
  <2>2. CASE i \in 1 .. Len(u)
    BY <1>2, <1>10, <1>12, <2>1, <2>2 DEF IsFilter
  <2>3. CASE s[i] = m
    BY <1>1, <1>2, <2>1, <2>3 DEF IsFilter
  <2> QED
    BY <1>14, <2>2, <2>3
<1>17. BringsUp(s, t, v, synced, old, new)
  BY <1>9, <1>15, <1>16 DEF BringsUp
<1> QED
  BY <1>11, <1>16, <1>17 DEF s, P, AllFor

\* All targets of a call are brought up, one after the other: for each it is as if alone.
LEMMA AllBroughtUp ==
  ASSUME NEW n, NEW D, IsFiniteSet(D), NEW seqs \in [D -> Seq(Passive(n))], NEW t \in D,
         \A u \in D : \A i \in 1 .. Len(seqs[u]) :
           seqs[u][i].target = u /\ seqs[u][i].type # "NoChange",
         NEW old \in SUBSET Keys, NEW new \in SUBSET Keys, NEW synced, NEW v,
         BringsUp(seqs[t], t, v, synced, old, new)
  PROVE  BringsUp(InSomeOrder(seqs), t, v, synced, old, new)
<1> DEFINE P == Passive(n)
           b == seqs[t]
<1>0. PICK a \in Seq(P), c \in Seq(P) :
        StandsBetween(InSomeOrder(seqs), a, b, c, seqs, D \ {t})
  BY InOrderSplit
<1>1. /\ InSomeOrder(seqs) = (a \o b) \o c
      /\ OfThese(a, seqs, D \ {t}) /\ OfThese(c, seqs, D \ {t})
  BY <1>0 DEF StandsBetween
<1>2. \A x \in P : ~Answers(x)
  BY DEF Passive
<1>3. b \in Seq(P)
  OBVIOUS
<1> HIDE DEF P
<1>4. ASSUME NEW s \in Seq(P), OfThese(s, seqs, D \ {t})
      PROVE  /\ Silent(s, t) /\ OnlyCurrent(s, t) /\ FilterLast(s, t)
             /\ Leads(s, t, synced, old, old) /\ Leads(s, t, synced, new, new)
             /\ \A i \in 1 .. Len(s) :
                  s[i].type # "NoChange" /\ ~Answers(s[i]) /\ ~IsFilter(s[i], t)
  <2>1. \A i \in 1 .. Len(s) : s[i].target # t /\ s[i].type # "NoChange"
    <3> TAKE i \in 1 .. Len(s)
    <3>1. PICK u \in D \ {t} : \E j \in 1 .. Len(seqs[u]) : s[i] = seqs[u][j]
      BY <1>4 DEF OfThese
    <3> QED
      BY <3>1
  <2>2. \A i \in 1 .. Len(s) : ~About(s[i], t) /\ ~IsFilter(s[i], t)
    BY <2>1 DEF About, IsFilter
  <2>3. \A i \in 1 .. Len(s) : ~Answers(s[i])
    <3>1. \A i \in 1 .. Len(s) : s[i] \in P
      OBVIOUS
    <3> QED
      BY <1>2, <3>1
  <2>4. Leads(s, t, synced, old, old) /\ Leads(s, t, synced, new, new)
    BY <2>2, OthersLead
  <2>5. Silent(s, t) /\ OnlyCurrent(s, t) /\ FilterLast(s, t)
    BY <2>2 DEF Silent, OnlyCurrent, FilterLast
  <2> QED
    BY <2>1, <2>2, <2>3, <2>4, <2>5
<1>5. /\ Leads(b, t, synced, old, new) \/ Breaks(b, t, synced, old)
      /\ FilterLast(b, t)
      /\ \A i \in 1 .. Len(b) :
           /\ b[i].type # "NoChange" /\ ~Answers(b[i])
           /\ IsFilter(b[i], t) => served[t].version = None /\ ~(v < lastRemote)
  BY DEF BringsUp
<1>6. /\ Silent(a, t) /\ Leads(a, t, synced, old, old)
      /\ \A i \in 1 .. Len(a) :
           a[i].type # "NoChange" /\ ~Answers(a[i]) /\ ~IsFilter(a[i], t)
  BY <1>1, <1>4
<1>7. /\ OnlyCurrent(c, t) /\ Leads(c, t, synced, new, new)
      /\ \A i \in 1 .. Len(c) :
           c[i].type # "NoChange" /\ ~Answers(c[i]) /\ ~IsFilter(c[i], t)
  BY <1>1, <1>4
<1> HIDE DEF b
<1> DEFINE ab == a \o b
           s == ab \o c
           Fine(x) == /\ x.type # "NoChange" /\ ~Answers(x)
                      /\ IsFilter(x, t) => served[t].version = None /\ ~(v < lastRemote)
<1>8. ab \in Seq(P) /\ s \in Seq(P)
  BY <1>1, <1>3, ConcatProperties
<1>9. Leads(ab, t, synced, old, new) \/ Breaks(ab, t, synced, old)
  BY <1>1, <1>3, <1>5, <1>6, LeadsThenLeads
<1>10. FilterLast(ab, t)
  BY <1>1, <1>3, <1>5, <1>6, FilterLastJoin
<1>11. /\ \A i \in 1 .. Len(a) : Fine(a[i])
       /\ \A i \in 1 .. Len(b) : Fine(b[i])
       /\ \A i \in 1 .. Len(c) : Fine(c[i])
  BY <1>5, <1>6, <1>7
<1> HIDE DEF Fine
<1>12. \A i \in DOMAIN ab : Fine(ab[i])
  <2>1. Either(ab, a, b) /\ DOMAIN a = 1 .. Len(a)
    BY <1>1, <1>3, InEitherPart
  <2> HIDE DEF ab
  <2> QED
    BY <1>11, <2>1 DEF Either
<1> HIDE DEF ab
<1>13. Leads(s, t, synced, old, new) \/ Breaks(s, t, synced, old)
  BY <1>1, <1>7, <1>8, <1>9, LeadsThenLeads, BreaksThenAny
<1>14. FilterLast(s, t)
  BY <1>1, <1>7, <1>8, <1>10, FilterLastJoin
<1>15. \A i \in 1 .. Len(s) : Fine(s[i])
  <2>1. Either(s, ab, c)
    BY <1>1, <1>8, InEitherPart
  <2>2. DOMAIN s = 1 .. Len(s)
    BY <1>8
  <2> HIDE DEF s
  <2> QED
    BY <1>11, <1>12, <2>1, <2>2 DEF Either
<1>16. BringsUp(s, t, v, synced, old, new)
  BY <1>13, <1>14, <1>15 DEF BringsUp, Fine
<1> QED
  BY <1>1, <1>16 DEF s, ab

(***************************************************************************)
(* What one response does to the aggregator.                               *)
(***************************************************************************)

\* What a client holds of target t, which has the given keys in the cache.
HeldIn(c, t, keys) == Matching(keys, StateOf(c, t))

\* The states and resets after the state of t alone is set to s.
Sets(c, d, t, s) ==
  /\ StateOf(d, t) = s /\ d.resets = c.resets
  /\ DOMAIN d.states = DOMAIN c.states \cup {t}
  /\ \A u \in DOMAIN c.states \ {t} : d.states[u] = c.states[u]

LEMMA WithStateSets ==
  ASSUME NEW n, NEW c, IsClient(c, n), NEW t, NEW s
  PROVE  Sets(c, WithState(c, t, s), t, s)
<1> DEFINE d == WithState(c, t, s)
<1>1. d = [tokens |-> c.tokens, states |-> Put(c.states, t, s), resets |-> c.resets,
           enabled |-> c.enabled, stream |-> c.stream, idle |-> c.idle,
           requests |-> c.requests, responses |-> c.responses]
  BY ClientIs DEF WithState
<1> HIDE DEF d
<1>2. d.states = Put(c.states, t, s) /\ d.resets = c.resets
  BY <1>1
<1>3. /\ DOMAIN Put(c.states, t, s) = DOMAIN c.states \cup {t} /\ Put(c.states, t, s)[t] = s
      /\ \A u \in DOMAIN c.states \ {t} : Put(c.states, t, s)[u] = c.states[u]
  BY DEF Put
<1>4. Sets(c, d, t, s)
  BY <1>2, <1>3 DEF Sets, StateOf
<1> QED
  BY <1>4 DEF d

\* A document added to the changes of a state is held.
LEMMA AddedMatches ==
  ASSUME NEW keys, NEW s, NEW k, NEW new,
         new.changes = Put(s.changes, k, IF k \in keys THEN "Modified" ELSE "Added")
  PROVE  Matching(keys, new) = Matching(keys, s) \cup {k}
<1> DEFINE change == IF k \in keys THEN "Modified" ELSE "Added"
<1>1. /\ DOMAIN new.changes = DOMAIN s.changes \cup {k}
      /\ new.changes[k] = change
      /\ \A x \in DOMAIN s.changes \ {k} : new.changes[x] = s.changes[x]
  BY DEF Put
<1>2. (change = "Modified" /\ k \in keys) \/ (change = "Added" /\ k \notin keys)
  OBVIOUS
<1> HIDE DEF change
<1> QED
  BY <1>1, <1>2 DEF Matching, KeysWith

\* Removes for all keys leave nothing.
LEMMA ResetMatches ==
  ASSUME NEW keys, NEW new, new.changes = [k \in keys |-> "Removed"]
  PROVE  Matching(keys, new) = {}
<1>1. DOMAIN new.changes = keys /\ \A k \in keys : new.changes[k] = "Removed"
  OBVIOUS
<1> QED
  BY <1>1 DEF Matching, KeysWith

\* States with the same changes hold the same, and no changes hold the keys.
LEMMA SameMatches ==
  ASSUME NEW keys, NEW s, NEW new
  PROVE  /\ new.changes = s.changes => Matching(keys, new) = Matching(keys, s)
         /\ DOMAIN new.changes = {} => Matching(keys, new) = keys
  BY DEF Matching, KeysWith

\* GetCurrentDocumentCountForTarget counts what is held.
LEMMA CountIsHeld ==
  ASSUME NEW n \in Nat, NEW c, NEW t, NEW keys \in SUBSET Keys, NEW synced, synced[t] = keys,
         StateOf(c, t) \in States(n), Fits(StateOf(c, t), keys)
  PROVE  DocumentCount(c, synced, t) = Cardinality(HeldIn(c, t, keys))
<1> DEFINE s == StateOf(c, t)  A == KeysWith(s, "Added")  R == KeysWith(s, "Removed")
<1>1. A \in SUBSET Keys /\ R \in SUBSET Keys
  <2>1. s.changes \in Changes
    BY DEF States
  <2> HIDE DEF s
  <2>2. DOMAIN s.changes \subseteq Keys
    BY <2>1, ChangesAre
  <2> QED
    BY <2>2 DEF KeysWith
<1>2. A \cap keys = {} /\ R \subseteq keys /\ A \cap R = {}
  BY DEF Fits, KeysWith
<1>3. /\ IsFiniteSet(A) /\ IsFiniteSet(R) /\ IsFiniteSet(keys)
      /\ Cardinality(A) \in Nat /\ Cardinality(R) \in Nat /\ Cardinality(keys) \in Nat
  BY <1>1, KeysAreFinite
<1> HIDE DEF A, R, s
<1>4. IsFiniteSet(keys \cup A) /\ Cardinality(keys \cup A) = Cardinality(keys) + Cardinality(A)
  <2>1. Cardinality(keys \cap A) = 0
    <3>1. keys \cap A = {}
      BY <1>2
    <3> QED
      BY <3>1, FS_EmptySet
  <2>2. /\ IsFiniteSet(keys \cup A)
        /\ Cardinality(keys \cup A) = Cardinality(keys) + Cardinality(A) - Cardinality(keys \cap A)
    BY <1>3, FS_Union
  <2> QED
    BY <1>3, <2>1, <2>2
<1>5. Cardinality((keys \cup A) \ R) = Cardinality(keys \cup A) - Cardinality((keys \cup A) \cap R)
  BY <1>3, <1>4, FS_Difference
<1>6. (keys \cup A) \cap R = R
  BY <1>2
<1>7. HeldIn(c, t, keys) = (keys \cup A) \ R
  BY DEF HeldIn, Matching, A, R, s
<1>8. DocumentCount(c, synced, t) = Cardinality(keys) + Cardinality(A) - Cardinality(R)
  BY DEF DocumentCount, A, R, s
<1>9. Cardinality((keys \cup A) \cap R) = Cardinality(R)
  BY <1>6
<1>10. Cardinality(HeldIn(c, t, keys)) = Cardinality((keys \cup A) \ R)
  BY <1>7
<1> QED
  BY <1>3, <1>4, <1>5, <1>8, <1>9, <1>10

\* What a response about active target t makes of what is held of it: it is reset and to be
\* asked for again, or what is held follows the response.
Moved(c, d, m, t, keys) ==
  LET held == HeldIn(c, t, keys)
  IN  IF Fails(m, t, keys, held)
      THEN HeldIn(d, t, keys) = {} /\ d.resets = c.resets \cup {t}
      ELSE HeldIn(d, t, keys) = Follow(m, t, keys, held) /\ d.resets = c.resets

\* A target state set that holds what follows from the response.
LEMMA SetsMoved ==
  ASSUME NEW c, NEW d, NEW m, NEW t, NEW keys, NEW s, Sets(c, d, t, s),
         ~Fails(m, t, keys, HeldIn(c, t, keys)),
         Matching(keys, s) = Follow(m, t, keys, HeldIn(c, t, keys))
  PROVE  Moved(c, d, m, t, keys)
  BY DEF Sets, Moved, HeldIn

\* A document for an active target is held.
LEMMA DocumentMoves ==
  ASSUME NEW n, NEW c, IsClient(c, n), NEW t, NEW keys, NEW synced, synced[t] = keys, NEW m,
         m.type = "Document", m.target = t, IsActive(c, t), StateOf(c, t) \in States(n)
  PROVE  Moved(c, AddDocument(c, synced, t, m.key), m, t, keys)
<1> DEFINE k == m.key
           s == StateOf(c, t)
           new == [s EXCEPT !.changes = Put(s.changes, k, IF k \in synced[t] THEN "Modified" ELSE "Added"),
                            !.dirty = TRUE]
<1>1. AddDocument(c, synced, t, k) = WithState(c, t, new)
  BY DEF AddDocument
<1>2. new.changes = Put(s.changes, k, IF k \in keys THEN "Modified" ELSE "Added")
  <2> DEFINE ch == Put(s.changes, k, IF k \in keys THEN "Modified" ELSE "Added")
  <2>1. new = [s EXCEPT !.changes = ch, !.dirty = TRUE]
    OBVIOUS
  <2> HIDE DEF ch
  <2>2. new.changes = ch
    BY <2>1 DEF States
  <2> QED
    BY <2>2 DEF ch
<1> HIDE DEF new
<1>3. Matching(keys, new) = HeldIn(c, t, keys) \cup {k}
  <2> HIDE DEF s, k
  <2>1. Matching(keys, new) = Matching(keys, s) \cup {k}
    BY ONLY <1>2, AddedMatches
  <2> QED
    BY <2>1 DEF HeldIn, s
<1>4. Sets(c, WithState(c, t, new), t, new)
  BY WithStateSets
<1>5. /\ ~Fails(m, t, keys, HeldIn(c, t, keys))
      /\ Follow(m, t, keys, HeldIn(c, t, keys)) = HeldIn(c, t, keys) \cup {k}
  BY DEF Fails, Follow, IsFilter, About
<1> QED
  BY <1>1, <1>3, <1>4, <1>5, SetsMoved

\* Removing documents sets a state that does not hold them.
LEMMA RemovesDocuments ==
  ASSUME NEW n, NEW c, IsClient(c, n), NEW t, NEW keys, NEW synced, synced[t] = keys, NEW ks,
         IsActive(c, t), StateOf(c, t) \in States(n)
  PROVE  \E s : /\ Sets(c, RemoveDocuments(c, synced, t, ks), t, s)
                /\ Matching(keys, s) = HeldIn(c, t, keys) \ ks
<1> DEFINE s == StateOf(c, t)
           changes == [k \in (DOMAIN s.changes \ ks) \cup (ks \cap synced[t]) |->
                         IF k \in ks THEN "Removed" ELSE s.changes[k]]
           new == [s EXCEPT !.changes = changes, !.dirty = TRUE]
<1>1. RemoveDocuments(c, synced, t, ks) = WithState(c, t, new)
  BY DEF RemoveDocuments
<1>2. changes = [k \in (DOMAIN s.changes \ ks) \cup (ks \cap keys) |->
                   IF k \in ks THEN "Removed" ELSE s.changes[k]]
  OBVIOUS
<1>3. new.changes = changes
  <2>1. s \in States(n)
    OBVIOUS
  <2> HIDE DEF changes, s
  <2> QED
    BY <2>1 DEF States
<1> HIDE DEF new
<1>4. Matching(keys, new) = Matching(keys, s) \ ks
  <2>1. /\ DOMAIN new.changes = (DOMAIN s.changes \ ks) \cup (ks \cap keys)
        /\ \A k \in DOMAIN new.changes : new.changes[k] = IF k \in ks THEN "Removed" ELSE s.changes[k]
    BY <1>2, <1>3
  <2> HIDE DEF s, changes
  <2> QED
    BY ONLY <2>1 DEF Matching, KeysWith
<1>5. Sets(c, WithState(c, t, new), t, new)
  BY WithStateSets
<1> QED
  BY <1>1, <1>4, <1>5 DEF HeldIn

\* A delete for an active target is not held.
LEMMA DeleteMoves ==
  ASSUME NEW n, NEW c, IsClient(c, n), NEW t, NEW keys, NEW synced, synced[t] = keys, NEW m,
         m.type = "Delete", m.target = t, IsActive(c, t), StateOf(c, t) \in States(n)
  PROVE  Moved(c, RemoveDocuments(c, synced, t, {m.key}), m, t, keys)
<1>1. PICK s : /\ Sets(c, RemoveDocuments(c, synced, t, {m.key}), t, s)
               /\ Matching(keys, s) = HeldIn(c, t, keys) \ {m.key}
  <2> DEFINE ks == {m.key}
  <2> HIDE DEF ks
  <2>1. \E s : /\ Sets(c, RemoveDocuments(c, synced, t, ks), t, s)
               /\ Matching(keys, s) = HeldIn(c, t, keys) \ ks
    BY RemovesDocuments
  <2> QED
    BY <2>1 DEF ks
<1>2. /\ ~Fails(m, t, keys, HeldIn(c, t, keys))
      /\ Follow(m, t, keys, HeldIn(c, t, keys)) = HeldIn(c, t, keys) \ {m.key}
  BY DEF Fails, Follow, IsFilter, About
<1> QED
  BY <1>1, <1>2, SetsMoved

\* A reset of a target leaves nothing held.
LEMMA ResetSets ==
  ASSUME NEW n, NEW c, IsClient(c, n), NEW t, NEW keys, NEW synced, synced[t] = keys
  PROVE  \E s : Sets(c, ResetTarget(c, synced, t), t, s) /\ Matching(keys, s) = {}
<1> DEFINE new == [NewTargetState EXCEPT !.changes = [k \in synced[t] |-> "Removed"]]
<1>1. ResetTarget(c, synced, t) = WithState(c, t, new)
  BY DEF ResetTarget
<1>2. new.changes = [k \in keys |-> "Removed"]
  BY DEF NewTargetState
<1> HIDE DEF new
<1>3. Sets(c, WithState(c, t, new), t, new)
  BY WithStateSets
<1>4. Matching(keys, new) = {}
  BY <1>2, ResetMatches
<1> QED
  BY <1>1, <1>3, <1>4

LEMMA ResetMoves ==
  ASSUME NEW n, NEW c, IsClient(c, n), NEW t, NEW keys, NEW synced, synced[t] = keys, NEW m,
         m.type = "Reset", m.target = t
  PROVE  Moved(c, ResetTarget(c, synced, t), m, t, keys)
<1>1. PICK s : Sets(c, ResetTarget(c, synced, t), t, s) /\ Matching(keys, s) = {}
  BY ONLY IsClient(c, n), synced[t] = keys, ResetSets
<1>2. /\ ~Fails(m, t, keys, HeldIn(c, t, keys))
      /\ Follow(m, t, keys, HeldIn(c, t, keys)) = {}
  BY DEF Fails, Follow, IsFilter, About
<1> QED
  BY <1>1, <1>2, SetsMoved

\* HandleExistenceFilter resets an active target exactly when the filter fails.
LEMMA FilterMoves ==
  ASSUME NEW n \in Nat, NEW c, IsClient(c, n), NEW t \in Targets, NEW keys \in SUBSET Keys,
         NEW synced, synced[t] = keys, NEW m, m.type = "Filter", m.target = t,
         IsActive(c, t), StateOf(c, t) \in States(n), Fits(StateOf(c, t), keys)
  PROVE  Moved(c, HandleExistenceFilter(c, synced, m), m, t, keys)
<1> DEFINE held == HeldIn(c, t, keys)
           absent == IF m.bloom = NoBloom THEN {} ELSE synced[t] \ m.bloom
           filtered == RemoveDocuments(c, synced, t, absent)
           reset == ResetTarget(filtered, synced, t)
           marked == [reset EXCEPT !.resets = c.resets \cup {t}]
           d == HandleExistenceFilter(c, synced, m)
<1>1. absent = Absent(m, keys)
  BY DEF Absent
<1>2. DocumentCount(c, synced, t) = Cardinality(held)
  BY CountIsHeld
<1>3. d = IF Cardinality(held) = m.count THEN c
          ELSE IF m.bloom # NoBloom /\ m.count = Cardinality(held) - Cardinality(absent)
               THEN filtered ELSE marked
  BY <1>2 DEF HandleExistenceFilter
<1>4. Fails(m, t, keys, held) <=>
        /\ Cardinality(held) # m.count
        /\ m.bloom = NoBloom \/ m.count # Cardinality(held) - Cardinality(absent)
  BY <1>1 DEF Fails, IsFilter, About
<1>5. Follow(m, t, keys, held) = IF Cardinality(held) # m.count THEN held \ absent ELSE held
  BY <1>1 DEF Follow, IsFilter, About
<1>6. PICK s : Sets(c, filtered, t, s) /\ Matching(keys, s) = held \ absent
  BY RemovesDocuments
<1>7. HeldIn(filtered, t, keys) = held \ absent /\ filtered.resets = c.resets
  BY <1>6 DEF Sets, HeldIn
<1>8. HeldIn(marked, t, keys) = {} /\ marked.resets = c.resets \cup {t}
  <2>1. Touches(c, filtered, t, n, keys, 0)
    <3>1. absent \in SUBSET Keys
      OBVIOUS
    <3>2. t \in DOMAIN c.states => Fits(c.states[t], keys)
      BY DEF StateOf
    <3> HIDE DEF absent
    <3> QED
      BY <3>1, <3>2, RemoveDocumentsTouches
  <2> HIDE DEF filtered
  <2>2. IsClient(filtered, n)
    BY <2>1 DEF Touches
  <2>3. PICK r : Sets(filtered, reset, t, r) /\ Matching(keys, r) = {}
    BY <2>2, ResetSets
  <2>4. StateOf(filtered, t).outstanding = 0
    BY <2>1 DEF Touches, IsActive
  <2>5. Touches(filtered, reset, t, n, keys, 0)
    BY <2>2, <2>4, ResetTargetTouches
  <2> HIDE DEF reset
  <2>6. IsClient(reset, n)
    BY <2>5 DEF Touches
  <2>7. reset = [tokens |-> reset.tokens, states |-> reset.states, resets |-> reset.resets,
                 enabled |-> reset.enabled, stream |-> reset.stream, idle |-> reset.idle,
                 requests |-> reset.requests, responses |-> reset.responses]
    BY <2>6, ClientIs
  <2>8. marked.states = reset.states /\ marked.resets = c.resets \cup {t}
    BY <2>7
  <2> QED
    BY <2>3, <2>8 DEF HeldIn, StateOf, Sets
<1> HIDE DEF held, absent, filtered, marked, d
<1>9. IF Fails(m, t, keys, held)
      THEN HeldIn(d, t, keys) = {} /\ d.resets = c.resets \cup {t}
      ELSE HeldIn(d, t, keys) = Follow(m, t, keys, held) /\ d.resets = c.resets
  <2>1. CASE Cardinality(held) = m.count
    BY <1>3, <1>4, <1>5, <2>1 DEF held
  <2>2. CASE Cardinality(held) # m.count /\ m.bloom # NoBloom /\ m.count = Cardinality(held) - Cardinality(absent)
    BY <1>3, <1>4, <1>5, <1>7, <2>2
  <2>3. CASE Fails(m, t, keys, held)
    BY <1>3, <1>4, <1>8, <2>3
  <2> QED
    BY <1>4, <2>1, <2>2, <2>3
<1> QED
  BY <1>9 DEF Moved, d, held

\* Of the targets to be reset, a response changes at most whether its own is one, and that
\* only if it is a filter for an active target.
ResetsFrom(c, d, m) ==
  \/ d.resets = c.resets
  \/ m.type = "Filter" /\ IsActive(c, m.target) /\ d.resets = c.resets \cup {m.target}

LEMMA WithStateResets ==
  ASSUME NEW n, NEW c, IsClient(c, n), NEW t, NEW s
  PROVE  WithState(c, t, s).resets = c.resets
  BY WithStateSets DEF Sets

LEMMA RemoveDocumentsResets ==
  ASSUME NEW n, NEW c, IsClient(c, n), NEW t, NEW ks, NEW synced
  PROVE  RemoveDocuments(c, synced, t, ks).resets = c.resets
<1> DEFINE new == [StateOf(c, t) EXCEPT
             !.changes = [k \in (DOMAIN StateOf(c, t).changes \ ks) \cup (ks \cap synced[t]) |->
                            IF k \in ks THEN "Removed" ELSE StateOf(c, t).changes[k]], !.dirty = TRUE]
<1>1. RemoveDocuments(c, synced, t, ks) \in {c, WithState(c, t, new)}
  BY DEF RemoveDocuments
<1> HIDE DEF new
<1> QED
  BY <1>1, WithStateResets

LEMMA AggregateResets ==
  ASSUME NEW n \in Nat, NEW c, IsClient(c, n), NEW m \in Responses(n), m.type # "Error",
         NEW synced, NEW K \in [Targets -> SUBSET Keys],
         \A t \in DOMAIN c.states : Fits(c.states[t], K[t]),
         \A t \in DOMAIN c.tokens : synced[t] = K[t]
  PROVE  ResetsFrom(c, Aggregate(c, synced, m), m)
<1> DEFINE t == m.target
           d == Aggregate(c, synced, m)
<1>0. /\ c = [tokens |-> c.tokens, states |-> c.states, resets |-> c.resets,
               enabled |-> c.enabled, stream |-> c.stream, idle |-> c.idle,
               requests |-> c.requests, responses |-> c.responses]
  BY ClientIs
<1>1. CASE m.type = "NoChange"
  <2>1. d = NoChange(c, m.token)
    BY <1>1 DEF Aggregate
  <2>2. NoChange(c, m.token).resets = c.resets
    BY <1>0 DEF NoChange
  <2> QED
    BY <2>1, <2>2 DEF ResetsFrom
<1>2. CASE m.type = "Document"
  <2> DEFINE s == [StateOf(c, t) EXCEPT !.changes = Put(StateOf(c, t).changes, m.key,
                     IF m.key \in synced[t] THEN "Modified" ELSE "Added"), !.dirty = TRUE]
  <2>1. d \in {c, WithState(c, t, s)}
    BY <1>2 DEF Aggregate, AddDocument
  <2> HIDE DEF s
  <2> QED
    BY <2>1, WithStateResets DEF ResetsFrom
<1>3. CASE m.type = "Delete"
  <2>1. d = RemoveDocuments(c, synced, t, {m.key})
    BY <1>3 DEF Aggregate
  <2> QED
    BY <2>1, RemoveDocumentsResets DEF ResetsFrom
<1>4. CASE m.type = "Filter"
  <2> DEFINE absent == IF m.bloom = NoBloom THEN {} ELSE synced[t] \ m.bloom
             filtered == RemoveDocuments(c, synced, t, absent)
  <2>1. CASE ~IsActive(c, t)
    BY <1>4, <2>1 DEF Aggregate, HandleExistenceFilter, ResetsFrom
  <2>2. CASE IsActive(c, t)
    <3>1. d \in {c, filtered} \/ d = [ResetTarget(filtered, synced, t) EXCEPT !.resets = c.resets \cup {t}]
      BY <1>4 DEF Aggregate, HandleExistenceFilter
    <3>2. filtered.resets = c.resets
      BY RemoveDocumentsResets
    <3>3. [ResetTarget(filtered, synced, t) EXCEPT !.resets = c.resets \cup {t}].resets
            = c.resets \cup {t}
      <4>1. t \in Targets
        BY <1>4, ResponseFields
      <4>2. absent \in SUBSET Keys
        <5>1. synced[t] \in SUBSET Keys
          BY <2>2, <4>1 DEF IsActive
        <5> QED
          BY <5>1
      <4>3. /\ t \in DOMAIN c.states => Fits(c.states[t], K[t])
            /\ t \in DOMAIN c.tokens => synced[t] = K[t]
        OBVIOUS
      <4> HIDE DEF absent
      <4>4. Touches(c, filtered, t, n, K[t], 0)
        BY <4>1, <4>2, <4>3, RemoveDocumentsTouches
      <4> HIDE DEF filtered, t
      <4>5. IsClient(filtered, n)
        BY <4>4 DEF Touches
      <4>6. filtered = [tokens |-> filtered.tokens, states |-> filtered.states,
               resets |-> filtered.resets, enabled |-> filtered.enabled, stream |-> filtered.stream,
               idle |-> filtered.idle, requests |-> filtered.requests, responses |-> filtered.responses]
        BY <4>5, ClientIs
      <4> QED
        BY <4>6 DEF ResetTarget, WithState
    <3> QED
      BY <1>4, <2>2, <3>1, <3>2, <3>3 DEF ResetsFrom
  <2> QED
    BY <2>1, <2>2
<1>5. CASE m.type = "Added"
  <2>1. \E s : d = WithState(c, t, s)
    BY <1>5 DEF Aggregate, Added
  <2> QED
    BY <2>1, WithStateResets DEF ResetsFrom
<1>6. CASE m.type = "Removed"
  <2>1. (\E s : d = WithState(c, t, s)) \/ d = [c EXCEPT !.states = Without(c.states, t)]
    BY <1>6 DEF Aggregate, Removed
  <2>2. [c EXCEPT !.states = Without(c.states, t)].resets = c.resets
    BY <1>0
  <2>3. (\E s : d = WithState(c, t, s)) => d.resets = c.resets
    BY WithStateResets
  <2>4. d.resets = c.resets
    BY <2>1, <2>2, <2>3
  <2> QED
    BY <2>4 DEF ResetsFrom
<1>7. CASE m.type = "Current"
  <2>1. \E s : d = WithState(c, t, s)
    BY <1>7 DEF Aggregate
  <2> QED
    BY <2>1, WithStateResets DEF ResetsFrom
<1>8. CASE m.type = "Reset"
  <2>1. \E s : d = WithState(c, t, s)
    BY <1>8 DEF Aggregate, ResetTarget
  <2> QED
    BY <2>1, WithStateResets DEF ResetsFrom
<1> QED
  BY <1>1, <1>2, <1>3, <1>4, <1>5, <1>6, <1>7, <1>8, ResponseFields

\* What a response makes of listened target t, which has the given keys in the cache: what it
\* holds follows the responses about it while it is active, and once nothing is outstanding
\* it holds the keys.
Progresses(c, d, m, t, keys) ==
  LET held == HeldIn(c, t, keys)
  IN  /\ IsActive(c, t) /\ ~IsAnswer(m, t) =>
           IF Fails(m, t, keys, held) THEN HeldIn(d, t, keys) = {} /\ t \in d.resets
           ELSE /\ HeldIn(d, t, keys) = Follow(m, t, keys, held)
                /\ t \in d.resets <=> t \in c.resets
      /\ ~IsActive(c, t) => (t \in d.resets <=> t \in c.resets)
      /\ m.type = "Added" /\ m.target = t /\ StateOf(d, t).outstanding = 0 => HeldIn(d, t, keys) = keys
      /\ t \in DOMAIN c.states /\ ~(m.type = "Removed" /\ m.target = t) => t \in DOMAIN d.states

\* A change of no kind leaves every target with what it holds.
LEMMA NoChangeProgresses ==
  ASSUME NEW n \in Nat, NEW c, IsClient(c, n), NEW m \in Responses(n), m.type = "NoChange",
         NEW t, NEW keys
  PROVE  Progresses(c, NoChange(c, m.token), m, t, keys)
<1> DEFINE d == NoChange(c, m.token)
<1>1. m.token \in Tokens(n)
  BY ResponseFields
<1>2. d = [c EXCEPT !.states = [u \in DOMAIN c.states |->
             IF IsActive(c, u) THEN WithToken(c.states[u], m.token) ELSE c.states[u]]]
  BY DEF NoChange
<1>3. c = [tokens |-> c.tokens, states |-> c.states, resets |-> c.resets,
           enabled |-> c.enabled, stream |-> c.stream, idle |-> c.idle,
           requests |-> c.requests, responses |-> c.responses]
  BY ClientIs
<1>4. /\ d.resets = c.resets /\ DOMAIN d.states = DOMAIN c.states
      /\ \A u \in DOMAIN c.states :
           d.states[u] = IF IsActive(c, u) THEN WithToken(c.states[u], m.token) ELSE c.states[u]
  BY <1>2, <1>3
<1> HIDE DEF d
<1>5. StateOf(d, t).changes = StateOf(c, t).changes
  <2>1. CASE t \in DOMAIN c.states
    <3>1. c.states[t] \in States(n)
      BY <2>1, ClientIs DEF IsTable
    <3>2. WithToken(c.states[t], m.token).changes = c.states[t].changes
      BY <1>1, <3>1, WithTokenIs
    <3> QED
      BY <1>4, <2>1, <3>2 DEF StateOf
  <2>2. CASE t \notin DOMAIN c.states
    BY <1>4, <2>2 DEF StateOf
  <2> QED
    BY <2>1, <2>2
<1>6. HeldIn(d, t, keys) = HeldIn(c, t, keys)
  BY <1>5, SameMatches DEF HeldIn
<1>7. /\ ~Fails(m, t, keys, HeldIn(c, t, keys))
      /\ Follow(m, t, keys, HeldIn(c, t, keys)) = HeldIn(c, t, keys)
  BY DEF Fails, Follow, IsFilter, About
<1>8. Progresses(c, d, m, t, keys)
  BY <1>4, <1>6, <1>7 DEF Progresses
<1> QED
  BY <1>8 DEF d

\* A response about another target leaves t as it was.
LEMMA OtherProgresses ==
  ASSUME NEW c, NEW d, NEW m, NEW t, NEW n, NEW u, NEW k, NEW keys, NEW others,
         Touches(c, d, m.target, n, others, k), m.target # t, ResetsFrom(c, d, m)
  PROVE  Progresses(c, d, m, t, keys)
<1>1. /\ t \in DOMAIN d.states <=> t \in DOMAIN c.states
      /\ t \in DOMAIN c.states => d.states[t] = c.states[t]
  BY DEF Touches
<1>2. StateOf(d, t) = StateOf(c, t)
  BY <1>1 DEF StateOf
<1>3. HeldIn(d, t, keys) = HeldIn(c, t, keys)
  BY <1>2 DEF HeldIn
<1>4. t \in d.resets <=> t \in c.resets
  BY DEF ResetsFrom
<1>5. /\ ~Fails(m, t, keys, HeldIn(c, t, keys))
      /\ Follow(m, t, keys, HeldIn(c, t, keys)) = HeldIn(c, t, keys)
  BY DEF Fails, Follow, IsFilter, About
<1> QED
  BY <1>1, <1>3, <1>4, <1>5 DEF Progresses

\* What moves an active target is progress.
LEMMA MovedProgresses ==
  ASSUME NEW c, NEW d, NEW m, NEW t, NEW keys, Moved(c, d, m, t, keys), IsActive(c, t),
         m.type \notin {"Added", "Removed"}, t \in DOMAIN c.states => t \in DOMAIN d.states
  PROVE  Progresses(c, d, m, t, keys)
<1> DEFINE held == HeldIn(c, t, keys)
<1>1. IF Fails(m, t, keys, held) THEN HeldIn(d, t, keys) = {} /\ t \in d.resets
      ELSE HeldIn(d, t, keys) = Follow(m, t, keys, held) /\ (t \in d.resets <=> t \in c.resets)
  BY DEF Moved
<1> HIDE DEF held
<1>2. IF Fails(m, t, keys, held) THEN HeldIn(d, t, keys) = {} /\ t \in d.resets
      ELSE /\ HeldIn(d, t, keys) = Follow(m, t, keys, held)
           /\ t \in d.resets <=> t \in c.resets
  BY <1>1
<1> QED
  BY <1>2 DEF Progresses, held

\* An acknowledged listen that was the last outstanding response drops the old changes.
LEMMA AddedHolds ==
  ASSUME NEW n \in Nat, NEW c, IsClient(c, n), NEW t, NEW keys, StateOf(Added(c, t), t).outstanding = 0
  PROVE  HeldIn(Added(c, t), t, keys) = keys
<1> DEFINE s == [StateOf(c, t) EXCEPT !.outstanding = @ - 1]
           new == IF s.outstanding = 0 THEN [s EXCEPT !.changes = <<>>, !.dirty = FALSE] ELSE s
<1>1. Added(c, t) = WithState(c, t, new)
  BY DEF Added
<1>2. s \in [outstanding : {s.outstanding}, changes : {s.changes}, token : {s.token},
             current : {s.current}, dirty : {s.dirty}]
  <2>1. StateOf(c, t) \in States(n)
    <3>1. IsTable(c.states, States(n))
      BY ClientIs
    <3> QED
      BY <3>1, StateOfType
  <2> QED
    BY <2>1 DEF States
<1> HIDE DEF s
<1>3. s.outstanding = 0 => new.changes = <<>>
  BY <1>2
<1>4. s.outstanding # 0 => new.outstanding # 0
  OBVIOUS
<1> HIDE DEF new
<1>5. Sets(c, Added(c, t), t, new)
  BY <1>1, WithStateSets
<1>6. StateOf(Added(c, t), t) = new
  BY <1>5 DEF Sets
<1>7. DOMAIN new.changes = {}
  BY <1>3, <1>4, <1>6
<1> QED
  BY <1>6, <1>7, SameMatches DEF HeldIn

\* An existence filter keeps the states there are.
LEMMA FilterKeepsState ==
  ASSUME NEW n \in Nat, NEW c, IsClient(c, n), NEW synced, NEW m, m.target \in DOMAIN c.states
  PROVE  m.target \in DOMAIN HandleExistenceFilter(c, synced, m).states
<1> DEFINE t == m.target
           absent == IF m.bloom = NoBloom THEN {} ELSE synced[t] \ m.bloom
           filtered == RemoveDocuments(c, synced, t, absent)
           reset == ResetTarget(filtered, synced, t)
           d == HandleExistenceFilter(c, synced, m)
<1>1. d \in {c, filtered} \/ d = [reset EXCEPT !.resets = c.resets \cup {t}]
  BY DEF HandleExistenceFilter
<1>2. t \in DOMAIN filtered.states
  <2>1. filtered = c \/ \E s : filtered = WithState(c, t, s)
    BY DEF RemoveDocuments
  <2>2. ASSUME NEW s PROVE t \in DOMAIN WithState(c, t, s).states
    <3>1. Sets(c, WithState(c, t, s), t, s)
      BY WithStateSets
    <3> QED
      BY <3>1 DEF Sets
  <2> HIDE DEF filtered
  <2> QED
    BY ONLY <2>1, <2>2, m.target \in DOMAIN c.states DEF t
<1>3. t \in DOMAIN [reset EXCEPT !.resets = c.resets \cup {t}].states
  <2> DEFINE new == [NewTargetState EXCEPT !.changes = [k \in synced[t] |-> "Removed"]]
  <2>1. reset = [filtered EXCEPT !.states = Put(filtered.states, t, new)]
    BY DEF ResetTarget, WithState
  <2>2. [reset EXCEPT !.resets = c.resets \cup {t}].states = reset.states
    OBVIOUS
  <2>3. filtered = c \/ \E s : filtered = [c EXCEPT !.states = Put(c.states, t, s)]
    BY DEF RemoveDocuments, WithState
  <2> HIDE DEF filtered, new
  <2>4. c = [tokens |-> c.tokens, states |-> c.states, resets |-> c.resets,
             enabled |-> c.enabled, stream |-> c.stream, idle |-> c.idle,
             requests |-> c.requests, responses |-> c.responses]
    BY ClientIs
  <2>5. reset.states = Put(filtered.states, t, new)
    BY <2>1, <2>3, <2>4
  <2>6. DOMAIN Put(filtered.states, t, new) = DOMAIN filtered.states \cup {t}
    BY DEF Put
  <2> QED
    BY <2>2, <2>5, <2>6
<1> QED
  BY <1>1, <1>2, <1>3

\* What the aggregator does with a response about target t itself.
LEMMA AboutProgresses ==
  ASSUME NEW n \in Nat, NEW c, IsClient(c, n), NEW m \in Responses(n),
         m.type \notin {"Error", "NoChange"},
         NEW synced, NEW K \in [Targets -> SUBSET Keys],
         \A t \in DOMAIN c.states : Fits(c.states[t], K[t]),
         \A t \in DOMAIN c.tokens : synced[t] = K[t],
         m.target \in DOMAIN c.tokens
  PROVE  Progresses(c, Aggregate(c, synced, m), m, m.target, K[m.target])
<1> DEFINE t == m.target
           keys == K[m.target]
           d == Aggregate(c, synced, m)
<1>0. m.target = t
  OBVIOUS
<1>1. t \in Targets /\ keys \in SUBSET Keys /\ synced[t] = keys
  BY ResponseFields
<1>2. ResetsFrom(c, d, m)
  BY AggregateResets
<1>3. IsTable(c.states, States(n)) /\ StateOf(c, t) \in States(n)
  BY ClientIs, StateOfType
<1>4. Fits(StateOf(c, t), keys)
  BY StateOfFits
<1>5. m.type # "Removed" /\ t \in DOMAIN c.states => t \in DOMAIN d.states
  <2>1. ASSUME NEW s PROVE t \in DOMAIN WithState(c, t, s).states
    BY WithStateSets DEF Sets
  <2>2. CASE m.type = "Document"
    <3>1. d = c \/ \E s : d = WithState(c, t, s)
      BY <2>2 DEF Aggregate, AddDocument
    <3> QED
      BY <2>1, <3>1
  <2>3. CASE m.type = "Delete"
    <3>1. d = c \/ \E s : d = WithState(c, t, s)
      BY <2>3 DEF Aggregate, RemoveDocuments
    <3> QED
      BY <2>1, <3>1
  <2>4. CASE m.type = "Added"
    <3>1. \E s : d = WithState(c, t, s)
      BY <2>4 DEF Aggregate, Added
    <3> QED
      BY <2>1, <3>1
  <2>5. CASE m.type = "Current"
    <3>1. \E s : d = WithState(c, t, s)
      BY <2>5 DEF Aggregate
    <3> QED
      BY <2>1, <3>1
  <2>6. CASE m.type = "Reset"
    <3>1. \E s : d = WithState(c, t, s)
      BY <2>6 DEF Aggregate, ResetTarget
    <3> QED
      BY <2>1, <3>1
  <2>7. CASE m.type = "Filter"
    <3>1. d = HandleExistenceFilter(c, synced, m)
      BY <2>7 DEF Aggregate
    <3> QED
      BY <1>1, <1>3, <3>1, FilterKeepsState
  <2> QED
    BY <2>2, <2>3, <2>4, <2>5, <2>6, <2>7, ResponseFields
<1>6. m.type = "Added" /\ StateOf(d, t).outstanding = 0 => HeldIn(d, t, keys) = keys
  <2>1. m.type = "Added" => d = Added(c, t)
    BY DEF Aggregate
  <2> QED
    BY <2>1, AddedHolds
<1> HIDE DEF keys, t
<1>7. CASE ~IsActive(c, t)
  <2>1. d.resets = c.resets
    BY <1>2, <1>7 DEF ResetsFrom, t
  <2> HIDE DEF d
  <2>2. Progresses(c, d, m, t, keys)
    BY <1>0, <1>5, <1>6, <1>7, <2>1 DEF Progresses
  <2> QED
    BY <2>2 DEF d, t, keys
<1>8. CASE IsActive(c, t) /\ m.type \in {"Added", "Removed"}
  <2>1. IsAnswer(m, t)
    BY <1>8 DEF IsAnswer, Answers, t
  <2> HIDE DEF d
  <2>2. Progresses(c, d, m, t, keys)
    BY <1>0, <1>5, <1>6, <1>8, <2>1 DEF Progresses
  <2> QED
    BY <2>2 DEF d, t, keys
<1>9. CASE IsActive(c, t) /\ m.type \notin {"Added", "Removed"}
  <2>1. Moved(c, d, m, t, keys)
    <3>1. CASE m.type = "Document"
      <4>1. d = AddDocument(c, synced, t, m.key)
        BY <3>1 DEF Aggregate, t
      <4> QED
        BY <1>1, <1>3, <1>9, <3>1, <4>1, DocumentMoves DEF t
    <3>2. CASE m.type = "Delete"
      <4>1. d = RemoveDocuments(c, synced, t, {m.key})
        BY <3>2 DEF Aggregate, t
      <4> QED
        BY <1>1, <1>3, <1>9, <3>2, <4>1, DeleteMoves DEF t
    <3>3. CASE m.type = "Filter"
      <4>1. d = HandleExistenceFilter(c, synced, m)
        BY <3>3 DEF Aggregate
      <4> QED
        BY <1>1, <1>3, <1>4, <1>9, <3>3, <4>1, FilterMoves DEF t
    <3>4. CASE m.type = "Reset"
      <4>1. d = ResetTarget(c, synced, t)
        BY <1>9, <3>4 DEF Aggregate, t
      <4> QED
        BY <1>1, <1>3, <1>9, <3>4, <4>1, ResetMoves DEF t
    <3>5. CASE m.type = "Current"
      <4> DEFINE cur == [StateOf(c, t) EXCEPT !.current = TRUE, !.dirty = TRUE]
                 s == WithToken(cur, m.token)
      <4>1. d = WithState(c, t, s)
        BY <1>9, <3>5 DEF Aggregate, t
      <4>2. cur \in States(n) /\ cur.changes = StateOf(c, t).changes
        BY <1>3 DEF States
      <4>3. m.token \in Tokens(n)
        BY <3>5, ResponseFields
      <4> HIDE DEF cur
      <4>4. s.changes = StateOf(c, t).changes
        BY <4>2, <4>3, WithTokenIs
      <4> HIDE DEF s
      <4>5. Sets(c, WithState(c, t, s), t, s)
        BY WithStateSets
      <4>6. Matching(keys, s) = HeldIn(c, t, keys)
        BY <4>4, SameMatches DEF HeldIn
      <4>7. /\ ~Fails(m, t, keys, HeldIn(c, t, keys))
            /\ Follow(m, t, keys, HeldIn(c, t, keys)) = HeldIn(c, t, keys)
        BY <3>5 DEF Fails, Follow, IsFilter, About
      <4> QED
        BY <4>1, <4>5, <4>6, <4>7, SetsMoved
    <3> QED
      BY <1>9, <3>1, <3>2, <3>3, <3>4, <3>5, ResponseFields
  <2> HIDE DEF d
  <2>2. Progresses(c, d, m, t, keys)
    BY <1>5, <1>9, <2>1, MovedProgresses
  <2> QED
    BY <2>2 DEF d, t, keys
<1> QED
  BY <1>7, <1>8, <1>9 DEF t, keys

LEMMA AggregateProgresses ==
  ASSUME NEW n \in Nat, NEW c, IsClient(c, n), NEW m \in Responses(n), m.type # "Error",
         NEW synced, NEW K \in [Targets -> SUBSET Keys],
         \A t \in DOMAIN c.states : Fits(c.states[t], K[t]),
         \A t \in DOMAIN c.tokens : synced[t] = K[t],
         NEW t \in DOMAIN c.tokens
  PROVE  Progresses(c, Aggregate(c, synced, m), m, t, K[t])
<1>1. CASE m.type = "NoChange"
  <2>1. Aggregate(c, synced, m) = NoChange(c, m.token)
    BY <1>1 DEF Aggregate
  <2> QED
    BY <1>1, <2>1, NoChangeProgresses
<1>2. CASE m.type # "NoChange" /\ m.target = t
  BY <1>2, AboutProgresses
<1>3. CASE m.type # "NoChange" /\ m.target # t
  <2> DEFINE k == IF Answers(m) THEN 1 ELSE 0
             d == Aggregate(c, synced, m)
  <2>1. Touches(c, d, m.target, n, K[m.target], k)
    BY <1>3, AggregateTouches
  <2>2. ResetsFrom(c, d, m)
    BY AggregateResets
  <2> HIDE DEF k, d
  <2>3. Progresses(c, d, m, t, K[t])
    BY <1>3, <2>1, <2>2, OtherProgresses
  <2> QED
    BY <2>3 DEF d
<1> QED
  BY <1>1, <1>2, <1>3

(***************************************************************************)
(* What is followed when a response is taken.                              *)
(***************************************************************************)

\* A place when the first response is taken, and what is held of a target after each of the
\* others when it is now held.
Down(x) == IF x = 0 THEN 0 ELSE x - 1
Shifted(held, n, now) == [i \in 0 .. n - 1 |-> IF i = 0 THEN now ELSE held[i + 1]]

LEMMA TailIs ==
  ASSUME NEW M, NEW s \in Seq(M), s # <<>>
  PROVE  /\ Tail(s) \in Seq(M) /\ Len(s) \in Nat \ {0} /\ Len(Tail(s)) = Len(s) - 1
         /\ \A i \in 1 .. Len(s) - 1 : Tail(s)[i] = s[i + 1]
<1>1. Len(s) \in Nat /\ (Len(s) = 0 => s = <<>>)
  OBVIOUS
<1> QED
  BY <1>1, HeadTailProperties

\* A trace without its first response.
LEMMA TracesTail ==
  ASSUME NEW M, NEW s \in Seq(M), s # <<>>, NEW t, NEW synced, NEW after,
         NEW p \in 0 .. Len(s), NEW b \in 0 .. Len(s) + 1, NEW held, NEW now \in SUBSET Keys,
         Traces(s, t, synced, p, b, held), p <= 1 /\ b > 1 => now = held[1],
         after = synced \/ \A i \in p + 1 .. Len(s) : ~IsFilter(s[i], t)
  PROVE  Traces(Tail(s), t, after, Down(p), Down(b), Shifted(held, Len(s), now))
<1> DEFINE L == Len(s)  r == Tail(s)  q == Down(p)  a == Down(b)  h == Shifted(held, L, now)
<1>1. r \in Seq(M) /\ L \in Nat \ {0} /\ Len(r) = L - 1 /\ \A i \in 1 .. L - 1 : r[i] = s[i + 1]
  BY TailIs
<1>2. h = [i \in 0 .. L - 1 |-> IF i = 0 THEN now ELSE held[i + 1]]
  BY DEF Shifted
<1>3. held \in [0 .. L -> SUBSET Keys]
  BY DEF Traces
<1> HIDE DEF h, r, L
<1>4. h \in [0 .. L - 1 -> SUBSET Keys]
  <2>1. \A i \in 0 .. L - 1 : (IF i = 0 THEN now ELSE held[i + 1]) \in SUBSET Keys
    BY <1>1, <1>3
  <2> QED
    BY <1>2, <2>1
<1>5. ASSUME NEW i \in q + 1 .. L - 1
      PROVE  /\ i < a => /\ ~Fails(r[i], t, after, h[i - 1])
                         /\ h[i] = Follow(r[i], t, after, h[i - 1])
             /\ i = a => Fails(r[i], t, after, h[i - 1])
  <2>1. /\ p \in 0 .. L /\ b \in 0 .. L + 1
    BY DEF L
  <2>2. /\ i + 1 \in p + 1 .. L /\ i \in 1 .. L - 1 /\ (i + 1) - 1 = i
        /\ i < a => i + 1 < b
        /\ i = a => i + 1 = b
        /\ i = 1 => p <= 1
        /\ i <= a => b > 1
    BY <1>1, <2>1 DEF Down
  <2>3. r[i] = s[i + 1]
    BY <1>1, <2>2
  <2>4. h[i] = held[i + 1]
    BY <1>1, <1>2, <2>2
  <2>5. i <= a => h[i - 1] = held[i]
    <3>1. CASE i = 1
      BY <1>1, <1>2, <2>2, <3>1
    <3>2. CASE i # 1
      <4>1. i - 1 \in 0 .. L - 1 /\ i - 1 # 0 /\ (i - 1) + 1 = i
        BY <1>1, <2>2, <3>2
      <4> QED
        BY <1>2, <4>1
    <3> QED
      BY <3>1, <3>2
  <2>6. /\ i + 1 < b => /\ ~Fails(s[i + 1], t, synced, held[i])
                        /\ held[i + 1] = Follow(s[i + 1], t, synced, held[i])
        /\ i + 1 = b => Fails(s[i + 1], t, synced, held[i])
    <3>1. \A j \in p + 1 .. L :
       /\ j < b => /\ ~Fails(s[j], t, synced, held[j - 1])
                   /\ held[j] = Follow(s[j], t, synced, held[j - 1])
       /\ j = b => Fails(s[j], t, synced, held[j - 1])
      BY DEF Traces, L
    <3> QED
      BY <2>2, <3>1
  <2>7. /\ Fails(s[i + 1], t, after, held[i]) <=> Fails(s[i + 1], t, synced, held[i])
        /\ Follow(s[i + 1], t, after, held[i]) = Follow(s[i + 1], t, synced, held[i])
    <3>1. CASE after = synced
      BY <3>1
    <3>2. CASE ~IsFilter(s[i + 1], t)
      BY <3>2 DEF Fails, Follow
    <3> QED
      BY <2>2, <3>1, <3>2 DEF L
  <2>8. a \in Nat /\ q \in Nat
    BY <2>1 DEF Down
  <2> HIDE DEF a, q
  <2>9. i < a => i <= a
    BY <2>2, <2>8
  <2>10. i < a => /\ ~Fails(r[i], t, after, h[i - 1]) /\ h[i] = Follow(r[i], t, after, h[i - 1])
    BY <2>2, <2>3, <2>4, <2>5, <2>6, <2>7, <2>9
  <2>11. i = a => Fails(r[i], t, after, h[i - 1])
    <3>1. i = a => i <= a
      BY <2>8
    <3> QED
      BY <2>2, <2>3, <2>5, <2>6, <2>7, <3>1
  <2> QED
    BY <2>10, <2>11
<1> QED
  BY <1>1, <1>4, <1>5 DEF Traces, h, r, L

\* What is to be raised is, without the first response, one place sooner.
LEMMA ClosingShifts ==
  ASSUME NEW M, NEW s \in Seq(M), s # <<>>, NEW t, NEW i \in 0 .. Len(s), NEW last, NEW next,
         Closing(s, t, i, last), i = 0 => ~IsRaised(s[1], last),
         \A j \in 2 .. Len(s) : IsRaised(s[j], last) => IsRaised(s[j], next)
  PROVE  Closing(Tail(s), t, Down(i), next)
<1>1. /\ Len(s) \in Nat \ {0} /\ Len(Tail(s)) = Len(s) - 1
      /\ \A x \in 1 .. Len(s) - 1 : Tail(s)[x] = s[x + 1]
  BY TailIs
<1>2. PICK j \in i + 1 .. Len(s) :
        /\ IsRaised(s[j], last)
        /\ \A x \in i + 1 .. j - 1 :
             /\ s[x].type # "NoChange"
             /\ About(s[x], t) => s[x].type = "Current"
  BY DEF Closing
<1>3. j \in 2 .. Len(s) /\ j - 1 \in Down(i) + 1 .. Len(s) - 1 /\ j - 1 \in 1 .. Len(s) - 1
  <2>1. j # 1
    BY <1>2
  <2> QED
    BY <1>1, <1>2, <2>1 DEF Down
<1>4. Tail(s)[j - 1] = s[j]
  <2>1. (j - 1) + 1 = j
    BY <1>3
  <2> QED
    BY <1>1, <1>3, <2>1
<1>5. IsRaised(Tail(s)[j - 1], next)
  BY <1>2, <1>3, <1>4
<1>6. ASSUME NEW x \in Down(i) + 1 .. (j - 1) - 1
      PROVE  /\ Tail(s)[x].type # "NoChange"
             /\ About(Tail(s)[x], t) => Tail(s)[x].type = "Current"
  <2>1. x + 1 \in i + 1 .. j - 1 /\ x \in 1 .. Len(s) - 1
    BY <1>1, <1>3 DEF Down
  <2>2. Tail(s)[x] = s[x + 1]
    BY <1>1, <2>1
  <2> QED
    BY <1>2, <2>1, <2>2
<1> QED
  BY <1>1, <1>3, <1>5, <1>6 DEF Closing

\* What is followed is followed after one more response is taken: what is held now is what
\* the response left, and whether the target is waiting for its reset.
LEMMA FollowedShifts ==
  ASSUME NEW M, cs.responses \in Seq(M), cs.responses # <<>>,
         cs'.responses = Tail(cs.responses),
         NEW t, NEW n, n = Len(cs.responses), NEW p \in 0 .. n, NEW b \in 0 .. n + 1, NEW held,
         NEW now \in SUBSET Keys, Held(t)' = now,
         p <= b, FollowedBy(t, p, b, held),
         t \in DOMAIN served, \A i \in 1 .. Len(cs'.requests) : cs'.requests[i].target # t,
         p <= 1 /\ b > 1 => now = held[1],
         p <= 1 => (b <= 1 <=> t \in cs'.resets),
         cache'[t].keys = cache[t].keys \/ (p = 0 /\ cs.responses[1].type = "NoChange"),
         \A j \in 2 .. Len(cs.responses) :
           IsRaised(cs.responses[j], lastRemote) => IsRaised(cs.responses[j], lastRemote'),
         UNCHANGED <<truth, served>>
  PROVE  Followed(t)'
<1> DEFINE s == cs.responses  r == Tail(s)
           q == Down(p)  a == Down(b)  h == Shifted(held, n, now)
<1>1. r \in Seq(M) /\ n \in Nat \ {0} /\ Len(r) = n - 1 /\ \A i \in 1 .. n - 1 : r[i] = s[i + 1]
  BY TailIs
<1>2. /\ IsStart(t, p) /\ Starts(t, p, b, held) /\ Traces(s, t, cache[t].keys, p, b, held)
      /\ Announced(t, p, b, held) /\ FiltersFirst(t, p)
  BY DEF FollowedBy
<1>3. p \in 0 .. n /\ b \in 0 .. n + 1 /\ p <= b
  OBVIOUS
<1>4. /\ q \in 0 .. n - 1 /\ a \in 0 .. (n - 1) + 1 /\ q <= a
      /\ \A i \in q + 1 .. n - 1 : i + 1 \in p + 1 .. n /\ i \in 1 .. n - 1 /\ i # 0
      /\ \A i \in q + 1 .. n - 1 : i < a => i + 1 < b
      /\ a = n => b = n + 1
      /\ (p >= 1 => q = p - 1) /\ (p = 0 => q = 0)
      /\ b >= 1 => a = b - 1
      /\ a = 0 <=> b <= 1
      /\ q = 0 <=> p <= 1
  BY <1>1, <1>3 DEF Down
<1>5. h = [i \in 0 .. n - 1 |-> IF i = 0 THEN now ELSE held[i + 1]]
  BY DEF Shifted
<1>6. h[0] = now /\ \A i \in 1 .. n - 1 : h[i] = held[i + 1]
  BY <1>1, <1>5
<1>7. cs'.responses = r /\ truth' = truth /\ served' = served
  OBVIOUS
<1>8. p = 0 /\ s[1].type = "NoChange" =>
        /\ \A i \in p + 1 .. n : ~IsFilter(s[i], t)
        /\ served[t].version # None
  <2>1. SUFFICES ASSUME p = 0, s[1].type = "NoChange"
                 PROVE  /\ \A i \in p + 1 .. n : ~IsFilter(s[i], t)
                        /\ served[t].version # None
    OBVIOUS
  <2>2. 1 \in p + 1 .. n /\ \A i \in p + 1 .. n : 1 \in p + 1 .. i
    BY <1>1, <2>1
  <2> QED
    BY <1>2, <2>1, <2>2 DEF FiltersFirst
<1> HIDE DEF q, a, h, r
<1>9. IsStart(t, q)'
  <2>1. q # 0 => r[q] = [type |-> "Added", target |-> t]
    <3>1. q # 0 => p # 0 /\ q \in 1 .. n - 1 /\ q + 1 = p
      BY <1>1, <1>3, <1>4
    <3> QED
      BY <1>1, <1>2, <3>1 DEF IsStart
  <2>2. \A i \in q + 1 .. n - 1 : ~IsAnswer(r[i], t)
    BY <1>1, <1>2, <1>4 DEF IsStart
  <2> QED
    BY <1>1, <1>7, <2>1, <2>2 DEF IsStart
<1>10. Starts(t, q, a, h)'
  <2>1. CASE q = 0
    <3>1. h[0] = Held(t)'
      BY <1>6
    <3>2. a = 0 <=> t \in cs'.resets
      BY <1>4, <2>1
    <3> QED
      BY <2>1, <3>1, <3>2 DEF Starts
  <2>2. CASE q # 0
    <3>1. p # 0 /\ q \in 1 .. n - 1 /\ q + 1 = p
      BY <1>1, <1>3, <1>4, <2>2
    <3>2. b > p /\ held[p] = cache[t].keys
      BY <1>2, <3>1 DEF Starts
    <3>3. a > q
      BY <1>3, <1>4, <3>1, <3>2
    <3>4. h[q] = cache'[t].keys
      BY <1>6, <3>1, <3>2
    <3> QED
      BY <2>2, <3>3, <3>4 DEF Starts
  <2> QED
    BY <2>1, <2>2
<1>11. Traces(cs.responses, t, cache[t].keys, q, a, h)'
  <2>3. cache'[t].keys = cache[t].keys \/ \A i \in p + 1 .. n : ~IsFilter(s[i], t)
    BY <1>8
  <2> DEFINE synced == cache[t].keys  after == cache'[t].keys
  <2> HIDE DEF synced, after
  <2>4. Traces(r, t, after, q, a, h)
    <3>1. Traces(s, t, synced, p, b, held)
      BY <1>2 DEF synced
    <3>2. after = synced \/ \A i \in p + 1 .. n : ~IsFilter(s[i], t)
      BY <2>3 DEF synced, after
    <3> QED
      BY <3>1, <3>2, TracesTail DEF q, a, h, r
  <2> QED
    BY <1>7, <2>4 DEF after
<1>12. Announced(t, q, a, h)'
  <2>1. ASSUME NEW i \in q + 1 .. n - 1, r[i].type = "NoChange", i < a
        PROVE  h[i] = truth[r[i].token][t]
    <3>1. i + 1 \in p + 1 .. n /\ i \in 1 .. n - 1 /\ i + 1 < b
      BY <1>4, <2>1
    <3>2. r[i] = s[i + 1] /\ h[i] = held[i + 1]
      BY <1>1, <1>6, <3>1
    <3> QED
      BY <1>2, <2>1, <3>1, <3>2 DEF Announced
  <2>2. ASSUME a = (n - 1) + 1 PROVE h[n - 1] = served[t].keys
    <3>1. b = n + 1
      BY <1>1, <1>4, <2>2
    <3>2. held[n] = served[t].keys
      BY <1>2, <3>1 DEF Announced
    <3>3. CASE n - 1 = 0
      <4>1. p <= 1 /\ b > 1 /\ n = 1
        BY <1>1, <1>3, <3>1, <3>3
      <4>2. now = held[1]
        BY <4>1
      <4> QED
        BY <1>6, <3>2, <3>3, <4>1, <4>2
    <3>4. CASE n - 1 # 0
      <4>0. n \in Nat \ {0}
        BY <1>1
      <4>1. n - 1 \in 1 .. n - 1 /\ (n - 1) + 1 = n
        BY ONLY <3>4, <4>0
      <4> QED
        BY <1>6, <3>2, <4>1
    <3> QED
      BY <3>3, <3>4
  <2> QED
    BY <1>1, <1>7, <2>1, <2>2 DEF Announced
<1>13. FiltersFirst(t, q)'
  <2>1. ASSUME NEW i \in q + 1 .. n - 1, IsFilter(r[i], t)
        PROVE  /\ \A j \in q + 1 .. i : r[j].type # "NoChange"
               /\ Closing(r, t, i, lastRemote')
    <3>1. i + 1 \in p + 1 .. n /\ i \in 1 .. n - 1
      BY <1>4
    <3>2. IsFilter(s[i + 1], t)
      BY <1>1, <2>1, <3>1
    <3>3. /\ \A j \in p + 1 .. i + 1 : s[j].type # "NoChange"
          /\ Closing(s, t, i + 1, lastRemote)
      BY <1>2, <3>1, <3>2 DEF FiltersFirst
    <3>4. Closing(r, t, i, lastRemote')
      <4>1. i + 1 \in 0 .. n /\ i + 1 # 0 /\ Down(i + 1) = i
        BY <1>1, <3>1 DEF Down
      <4> DEFINE k == i + 1  next == lastRemote'
      <4> HIDE DEF k, next
      <4>2. k \in 0 .. Len(s) /\ k # 0 /\ Down(k) = i /\ Closing(s, t, k, lastRemote)
        BY <3>3, <4>1 DEF k
      <4>3. \A j \in 2 .. Len(s) : IsRaised(s[j], lastRemote) => IsRaised(s[j], next)
        BY DEF next
      <4>4. Closing(Tail(s), t, Down(k), next)
        BY <4>2, <4>3, ClosingShifts
      <4> QED
        BY <4>2, <4>4 DEF next, r
    <3>5. ASSUME NEW j \in q + 1 .. i PROVE r[j].type # "NoChange"
      <4>1. j \in q + 1 .. n - 1
        BY <1>1, <1>4, <3>1
      <4>2. j + 1 \in p + 1 .. i + 1 /\ j \in 1 .. n - 1
        BY <1>4, <3>1, <4>1
      <4> QED
        BY <1>1, <3>3, <4>2
    <3> QED
      BY <3>4, <3>5
  <2>2. ASSUME served[t].version = None
        PROVE  /\ served[t].keys = cache'[t].keys
               /\ \A i \in q + 1 .. n - 1 : r[i].type # "NoChange" /\ ~About(r[i], t)
    <3>1. cache'[t].keys = cache[t].keys
      BY <1>8, <2>2
    <3>2. /\ served[t].keys = cache[t].keys
          /\ \A i \in p + 1 .. n : s[i].type # "NoChange" /\ ~About(s[i], t)
      BY <1>2, <2>2 DEF FiltersFirst
    <3> QED
      BY <1>1, <1>4, <3>1, <3>2
  <2> QED
    BY <1>1, <1>7, <2>1, <2>2 DEF FiltersFirst
<1>14. FollowedBy(t, q, a, h)'
  BY <1>9, <1>10, <1>11, <1>12, <1>13 DEF FollowedBy
<1>15. h \in [0 .. n - 1 -> SUBSET Keys]
  <2>1. Len(cs'.responses) = n - 1
    BY <1>1, <1>7
  <2> QED
    BY <1>11, <2>1 DEF Traces
<1> QED
  BY <1>1, <1>4, <1>7, <1>14, <1>15 DEF Followed

\* What is followed stays so while nothing about the target changes.
LEMMA FollowedStays ==
  ASSUME NEW t, Followed(t), cs'.responses = cs.responses,
         \A i \in 1 .. Len(cs'.requests) : cs'.requests[i].target # t,
         UNCHANGED <<lastRemote, served>>,
         cache'[t].keys = cache[t].keys, Held(t)' = Held(t), t \in cs'.resets <=> t \in cs.resets,
         \A i \in 1 .. Len(cs.responses) : cs.responses[i].type = "NoChange" =>
           truth'[cs.responses[i].token][t] = truth[cs.responses[i].token][t]
  PROVE  Followed(t)'
<1>1. PICK p \in 0 .. Len(cs.responses), b \in 0 .. Len(cs.responses) + 1 :
        \E held \in [0 .. Len(cs.responses) -> SUBSET Keys] : p <= b /\ FollowedBy(t, p, b, held)
  BY DEF Followed
<1>2. PICK held \in [0 .. Len(cs.responses) -> SUBSET Keys] : p <= b /\ FollowedBy(t, p, b, held)
  BY <1>1
<1>3. /\ IsStart(t, p) /\ Starts(t, p, b, held)
      /\ Traces(cs.responses, t, cache[t].keys, p, b, held)
      /\ Announced(t, p, b, held) /\ FiltersFirst(t, p)
  BY <1>2 DEF FollowedBy
<1>4. IsStart(t, p)'
  BY <1>3 DEF IsStart
<1>5. Starts(t, p, b, held)'
  BY <1>3 DEF Starts
<1>6. Traces(cs.responses, t, cache[t].keys, p, b, held)'
  BY <1>3
<1>7. Announced(t, p, b, held)'
  <2>1. ASSUME NEW i \in p + 1 .. Len(cs.responses),
               cs.responses[i].type = "NoChange" /\ i < b
        PROVE  held[i] = truth'[cs.responses[i].token][t]
    <3>1. held[i] = truth[cs.responses[i].token][t]
      BY <1>3, <2>1 DEF Announced
    <3>2. i \in 1 .. Len(cs.responses)
      BY <1>1
    <3> QED
      BY <2>1, <3>1, <3>2
  <2>2. b = Len(cs.responses) + 1 => held[Len(cs.responses)] = served[t].keys
    BY <1>3 DEF Announced
  <2> QED
    BY <2>1, <2>2 DEF Announced
<1>8. FiltersFirst(t, p)'
  BY <1>3 DEF FiltersFirst
<1>9. FollowedBy(t, p, b, held)'
  BY <1>4, <1>5, <1>6, <1>7, <1>8 DEF FollowedBy
<1>10. t \in DOMAIN served'
  BY DEF Followed
<1> QED
  BY <1>1, <1>2, <1>9, <1>10 DEF Followed

\* More responses leave what is to be raised where it is.
LEMMA ClosingExtends ==
  ASSUME NEW M, NEW s \in Seq(M), NEW more \in Seq(M), NEW t, NEW i \in 0 .. Len(s), NEW last,
         Closing(s, t, i, last)
  PROVE  Closing(s \o more, t, i, last)
<1>1. /\ Len(s \o more) = Len(s) + Len(more) /\ Len(s) \in Nat /\ Len(more) \in Nat
      /\ \A x \in 1 .. Len(s) : (s \o more)[x] = s[x]
  BY ConcatProperties, ConcatAt
<1>2. PICK j \in i + 1 .. Len(s) :
        /\ IsRaised(s[j], last)
        /\ \A x \in i + 1 .. j - 1 :
             /\ s[x].type # "NoChange"
             /\ About(s[x], t) => s[x].type = "Current"
  BY DEF Closing
<1> DEFINE r == s \o more
<1> HIDE DEF r
<1>3. j \in i + 1 .. Len(r) /\ j \in 1 .. Len(s) /\ \A x \in i + 1 .. j - 1 : x \in 1 .. Len(s)
  BY <1>1 DEF r
<1>4. r[j] = s[j] /\ \A x \in i + 1 .. j - 1 : r[x] = s[x]
  BY <1>1, <1>3 DEF r
<1>5. Closing(r, t, i, last)
  BY <1>2, <1>3, <1>4 DEF Closing
<1> QED
  BY <1>5 DEF r

\* After a filter at place i of s, and once a snapshot m follows s, it is to be raised.
LEMMA FilterIsClosing ==
  ASSUME NEW M, NEW a \in Seq(M), NEW s \in Seq(M), NEW m \in M, NEW t, NEW last,
         IsRaised(m, last), FilterLast(s, t), NEW i \in 1 .. Len(s), IsFilter(s[i], t),
         \A x \in 1 .. Len(s) : s[x].type # "NoChange"
  PROVE  Closing(a \o Append(s, m), t, Len(a) + i, last)
<1> DEFINE more == Append(s, m)  r == a \o more  N == Len(a)  L == Len(s)
<1>1. /\ more \in Seq(M) /\ Len(more) = L + 1 /\ more[L + 1] = m /\ L \in Nat /\ N \in Nat
      /\ \A x \in 1 .. L : more[x] = s[x]
  OBVIOUS
<1> HIDE DEF more
<1>2. Len(r) = N + Len(more) /\ \A x \in 1 .. Len(more) : r[N + x] = more[x]
  <2>1. Len(r) = N + Len(more)
    BY <1>1, ConcatProperties
  <2>2. \A x \in 1 .. Len(more) : r[N + x] = more[x]
    BY <1>1, ConcatAt
  <2> QED
    BY <2>1, <2>2
<1> HIDE DEF r
<1>3. IsRaised(r[N + (L + 1)], last)
  <2>1. L + 1 \in 1 .. Len(more)
    BY <1>1
  <2>2. r[N + (L + 1)] = more[L + 1]
    BY <1>2, <2>1
  <2> QED
    BY <1>1, <2>2
<1>4. ASSUME NEW x \in N + i + 1 .. (N + (L + 1)) - 1
      PROVE  r[x].type # "NoChange" /\ (About(r[x], t) => r[x].type = "Current")
  <2>1. x - N \in i + 1 .. L /\ x - N \in 1 .. L /\ x - N \in 1 .. Len(more) /\ x = N + (x - N)
    BY <1>1
  <2>2. r[x] = s[x - N]
    BY <1>1, <1>2, <2>1
  <2> QED
    BY <2>1, <2>2 DEF FilterLast
<1>5. N + (L + 1) \in N + i + 1 .. Len(r)
  BY <1>1, <1>2
<1> HIDE DEF N, L
<1>6. Closing(r, t, N + i, last)
  BY <1>3, <1>4, <1>5 DEF Closing
<1> QED
  BY <1>6 DEF r, more, N

\* A trace of the responses s goes on to a trace when l responses that lead to the given keys,
\* or make the client reset the target, and one more are under way.
GrowsTo(r, n, l, t, synced, p, b, held, c, h, to) ==
  /\ Traces(r, t, synced, p, c, h)
  /\ \A i \in 0 .. n : h[i] = held[i]
  /\ \/ b <= n /\ c = b
     \/ b = n + 1 /\ c = n + l + 2 /\ h[n + l + 1] = to
     \/ b = n + 1 /\ c \in n + 1 .. n + l

LEMMA TraceGrows ==
  ASSUME NEW M, NEW r \in Seq(M), NEW s \in Seq(M), NEW m \in M, NEW t, ~About(m, t), NEW synced,
         NEW n, n = Len(r), NEW p \in 0 .. n, NEW b \in 0 .. n + 1, NEW held,
         Traces(r, t, synced, p, b, held), NEW from, NEW to \in SUBSET Keys,
         b = n + 1 => held[n] = from,
         Leads(s, t, synced, from, to) \/ Breaks(s, t, synced, from)
  PROVE  \E c \in 0 .. n + Len(s) + 2 : \E h :
           GrowsTo(r \o Append(s, m), n, Len(s), t, synced, p, b, held, c, h, to)
<1> DEFINE more == Append(s, m)  l == Len(s)  one == <<m>>
<1>1. /\ more \in Seq(M) /\ Len(more) = l + 1 /\ l \in Nat /\ n \in Nat
      /\ one \in Seq(M) /\ Len(one) = 1 /\ one[1] = m /\ more = s \o one
  OBVIOUS
<1> HIDE DEF more, one
<1>0. r \in Seq(M) /\ more \in Seq(M)
  BY <1>1
<1>2. CASE b <= n
  <2>1. Traces(r \o more, t, synced, p, b, Stopped(r, held, more))
    <3>1. b \in 0 .. Len(r) /\ p \in 0 .. Len(r)
      BY <1>1, <1>2
    <3> QED
      BY <1>1, <3>1, TracesExtend
  <2>2. \A i \in 0 .. Len(r) : Stopped(r, held, more)[i] = held[i]
    BY ONLY <1>0, StoppedIs
  <2>3. GrowsTo(r \o more, n, l, t, synced, p, b, held, b, Stopped(r, held, more), to)
    BY <1>2, <2>1, <2>2 DEF GrowsTo
  <2>4. b \in 0 .. n + l + 2
    BY <1>1
  <2> QED
    BY <2>3, <2>4 DEF more
<1>3. CASE b = n + 1 /\ Leads(s, t, synced, from, to)
  <2>1. Leads(one, t, synced, to, to)
    BY <1>1, OthersLead
  <2>2. Leads(more, t, synced, from, to)
    BY <1>1, <1>3, <2>1, LeadsThenLeads
  <2>3. PICK g : Traces(more, t, synced, 0, Len(more) + 1, g) /\ g[0] = from /\ g[Len(more)] = to
    BY <2>2 DEF Leads
  <2> DEFINE h == Continued(r, held, g, more)
  <2>4. g[0] = held[Len(r)]
    BY <1>3, <2>3
  <2>5. Traces(r \o more, t, synced, p, Len(r) + (Len(more) + 1), h)
    <3>1. Len(more) + 1 \in 1 .. Len(more) + 1
      BY <1>1
    <3>2. Traces(r, t, synced, p, Len(r) + 1, held)
      BY <1>3
    <3> QED
      BY <1>1, <2>3, <2>4, <3>1, <3>2, TracesJoin
  <2>6. \A i \in 0 .. Len(r) : h[i] = held[i]
    BY ONLY <1>0, <2>4, ContinuedIs
  <2>7. h[Len(r) + Len(more)] = to
    <3>1. Len(more) \in 0 .. Len(more)
      BY <1>1
    <3>2. \A i \in 0 .. Len(more) : h[Len(r) + i] = g[i]
      BY ONLY <1>0, <2>4, ContinuedIs
    <3> QED
      BY <2>3, <3>1, <3>2
  <2> HIDE DEF h
  <2>8. Len(r) + (Len(more) + 1) = n + l + 2 /\ Len(r) + Len(more) = n + l + 1
    BY <1>1
  <2>9. GrowsTo(r \o more, n, l, t, synced, p, b, held, n + l + 2, h, to)
    BY <1>3, <2>5, <2>6, <2>7, <2>8 DEF GrowsTo
  <2>10. n + l + 2 \in 0 .. n + l + 2
    BY <1>1
  <2> QED
    BY <2>9, <2>10 DEF more
<1>4. CASE b = n + 1 /\ Breaks(s, t, synced, from)
  <2>1. PICK x \in 1 .. Len(s) : \E f : Traces(s, t, synced, 0, x, f) /\ f[0] = from
    BY <1>4 DEF Breaks
  <2>2. PICK f : Traces(s, t, synced, 0, x, f) /\ f[0] = from
    BY <2>1
  <2> DEFINE g == Stopped(s, f, one)  h == Continued(r, held, g, more)
  <2>3. Traces(s \o one, t, synced, 0, x, g)
    <3>1. x \in 0 .. Len(s) /\ 0 \in 0 .. Len(s)
      BY <1>1
    <3> QED
      BY <1>1, <2>2, <3>1, TracesExtend
  <2>4. g[0] = from
    <3>1. \A i \in 0 .. Len(s) : g[i] = f[i]
      BY <1>1, StoppedIs
    <3> QED
      BY <1>1, <2>2, <3>1
  <2> HIDE DEF g
  <2>5. Traces(more, t, synced, 0, x, g) /\ g[0] = held[Len(r)]
    BY <1>1, <1>4, <2>3, <2>4
  <2>6. Traces(r \o more, t, synced, p, Len(r) + x, h)
    <3>1. x \in 1 .. Len(more) + 1
      BY <1>1
    <3>2. Traces(r, t, synced, p, Len(r) + 1, held)
      BY <1>4
    <3> QED
      BY <1>1, <2>5, <3>1, <3>2, TracesJoin
  <2>7. \A i \in 0 .. Len(r) : h[i] = held[i]
    BY ONLY <1>0, <2>5, ContinuedIs
  <2> HIDE DEF h
  <2>8. n + x \in n + 1 .. n + l /\ n + x \in 0 .. n + l + 2
    BY <1>1
  <2>9. GrowsTo(r \o more, n, l, t, synced, p, b, held, n + x, h, to)
    BY <1>4, <2>6, <2>7, <2>8 DEF GrowsTo
  <2> QED
    BY <2>8, <2>9 DEF more
<1>5. b <= n \/ b = n + 1
  BY <1>1
<1> QED
  BY <1>2, <1>3, <1>4, <1>5

\* What the backend adds: the responses s that bring t up, and m, a snapshot of what they lead
\* to, or a response about another target and nothing else.
AddsFor(t, s, m, old, new) ==
  \/ /\ m.type = "NoChange" /\ m.token >= 1
     /\ BringsUp(s, t, m.token, cache[t].keys, old.keys, new.keys)
     /\ new.keys = truth[m.token][t] /\ new.version # None
  \/ s = <<>> /\ m.type # "NoChange" /\ ~IsAnswer(m, t) /\ new = old

\* What is followed is followed after the backend has sent more.
LEMMA FollowedGrows ==
  ASSUME NEW M, cs.responses \in Seq(M), NEW s \in Seq(M), NEW m \in M, NEW t, ~About(m, t),
         Followed(t), cs'.responses = cs.responses \o Append(s, m),
         NEW n, n = Len(cs.responses), NEW l, l = Len(s),
         \A i \in 1 .. Len(cs'.requests) : cs'.requests[i].target # t,
         t \in DOMAIN served', NEW old, NEW new, old = served[t], new = served'[t],
         old.keys \in SUBSET Keys, new.keys \in SUBSET Keys, lastRemote \in Nat, m.type = "NoChange" => m.token \in Nat,
         UNCHANGED <<lastRemote, truth, cache>>,
         Held(t)' = Held(t), t \in cs'.resets <=> t \in cs.resets,
         AddsFor(t, s, m, old, new)
  PROVE  Followed(t)'
<1> DEFINE r == cs.responses
<1>1. PICK p \in 0 .. Len(r), b \in 0 .. Len(r) + 1 :
        \E held \in [0 .. Len(r) -> SUBSET Keys] : p <= b /\ FollowedBy(t, p, b, held)
  BY DEF Followed
<1>2. PICK held \in [0 .. Len(r) -> SUBSET Keys] : p <= b /\ FollowedBy(t, p, b, held)
  BY <1>1
<1>3. /\ IsStart(t, p) /\ Starts(t, p, b, held) /\ Traces(r, t, cache[t].keys, p, b, held)
      /\ Announced(t, p, b, held) /\ FiltersFirst(t, p)
  BY <1>2 DEF FollowedBy
<1>4. p \in 0 .. n /\ b \in 0 .. n + 1 /\ p <= b /\ n \in Nat /\ l \in Nat
  BY <1>1, <1>2
<1>5. b = n + 1 => held[n] = old.keys
  BY <1>3 DEF Announced
<1>6. Leads(s, t, cache[t].keys, old.keys, new.keys) \/ Breaks(s, t, cache[t].keys, old.keys)
  <2>1. CASE m.type = "NoChange"
    BY <2>1 DEF AddsFor, BringsUp
  <2>2. CASE m.type # "NoChange"
    <3>1. s = <<>> /\ new = old
      BY <2>2 DEF AddsFor
    <3>2. \A i \in 1 .. Len(s) : ~About(s[i], t)
      BY <3>1
    <3>3. Leads(s, t, cache[t].keys, old.keys, old.keys)
      BY <3>2, OthersLead
    <3> QED
      BY <3>1, <3>3
  <2> QED
    BY <2>1, <2>2
<1>7. \A i \in 1 .. Len(s) :
        /\ s[i].type # "NoChange" /\ ~Answers(s[i])
        /\ IsFilter(s[i], t) => /\ m.type = "NoChange" /\ old.version = None /\ ~(m.token < lastRemote)
                                /\ FilterLast(s, t)
  BY DEF AddsFor, BringsUp
<1>8. PICK c \in 0 .. n + Len(s) + 2 : \E h :
         GrowsTo(r \o Append(s, m), n, Len(s), t, cache[t].keys, p, b, held, c, h, new.keys)
  <2> DEFINE synced == cache[t].keys  from == old.keys  to == new.keys
  <2> HIDE DEF synced, from, to
  <2>1. Leads(s, t, synced, from, to) \/ Breaks(s, t, synced, from)
    BY <1>6 DEF synced, from, to
  <2>2. to \in SUBSET Keys /\ (b = n + 1 => held[n] = from) /\ Traces(r, t, synced, p, b, held)
    BY <1>3, <1>5 DEF synced, from, to
  <2>3. \E c \in 0 .. n + Len(s) + 2 : \E h :
         GrowsTo(r \o Append(s, m), n, Len(s), t, synced, p, b, held, c, h, to)
    BY <1>4, <2>1, <2>2, TraceGrows
  <2> QED
    BY <2>3 DEF synced, from, to
<1>9. PICK h : GrowsTo(r \o Append(s, m), n, Len(s), t, cache[t].keys, p, b, held, c, h, new.keys)
  BY <1>8
<1> DEFINE d == cs'.responses
<1>10. /\ Len(d) = n + l + 1
       /\ \A i \in 1 .. n : d[i] = r[i]
       /\ \A i \in 1 .. l : d[n + i] = s[i]
       /\ d[n + l + 1] = m
  <2> DEFINE more == Append(s, m)
  <2>1. more \in Seq(M) /\ Len(more) = l + 1 /\ more[l + 1] = m /\ \A i \in 1 .. l : more[i] = s[i]
    BY <1>4
  <2>2. d = r \o more
    OBVIOUS
  <2> HIDE DEF more, d, r
  <2>3. r \in Seq(M) /\ Len(r) = n
    BY DEF r
  <2>4. Len(d) = n + (l + 1)
    <3>1. Len(r \o more) = Len(r) + Len(more)
      BY <2>1, <2>3, ConcatProperties
    <3> QED
      BY <2>1, <2>2, <2>3, <3>1
  <2>5. /\ \A i \in 1 .. n : d[i] = r[i]
        /\ \A i \in 1 .. l + 1 : d[n + i] = more[i]
    <3>0. r \in Seq(M) /\ more \in Seq(M)
      BY <2>1, <2>3
    <3>1. \A i \in 1 .. Len(r) : (r \o more)[i] = r[i]
      BY ONLY <3>0, ConcatAt
    <3>2. \A i \in 1 .. Len(more) : (r \o more)[Len(r) + i] = more[i]
      BY ONLY <3>0, ConcatAt
    <3> QED
      BY ONLY <2>1, <2>2, <2>3, <3>1, <3>2
  <2>6. l + 1 \in 1 .. l + 1 /\ n + (l + 1) = n + l + 1 /\ \A i \in 1 .. l : i \in 1 .. l + 1
    BY ONLY <1>4
  <2> QED
    BY <2>1, <2>4, <2>5, <2>6
<1>11. /\ Traces(d, t, cache[t].keys, p, c, h) /\ \A i \in 0 .. n : h[i] = held[i]
       /\ \/ b <= n /\ c = b
          \/ b = n + 1 /\ c = n + l + 2 /\ h[n + l + 1] = new.keys
          \/ b = n + 1 /\ c \in n + 1 .. n + l
  BY <1>9 DEF GrowsTo
<1>12. c \in 0 .. Len(d) + 1 /\ p <= c /\ p \in 0 .. Len(d)
  BY <1>4, <1>8, <1>10, <1>11
<1> HIDE DEF d
\* The places after p.
<1>13. ASSUME NEW i \in p + 1 .. Len(d)
       PROVE  \/ i \in p + 1 .. n /\ i \in 1 .. n
              \/ i - n \in 1 .. l /\ i = n + (i - n)
              \/ i = n + l + 1
  BY ONLY <1>4, <1>10, i \in p + 1 .. Len(d)
<1>14. IsStart(t, p)'
  <2>1. p # 0 => d[p] = [type |-> "Added", target |-> t]
    BY <1>3, <1>4, <1>10 DEF IsStart
  <2>2. ASSUME NEW i \in p + 1 .. Len(d) PROVE ~IsAnswer(d[i], t)
    <3>1. CASE i \in p + 1 .. n
      BY <1>3, <1>4, <1>10, <3>1 DEF IsStart
    <3>2. CASE i - n \in 1 .. l /\ i = n + (i - n)
      BY <1>7, <1>10, <3>2 DEF IsAnswer
    <3>3. CASE i = n + l + 1
      BY <1>10, <3>3 DEF AddsFor, IsAnswer, Answers
    <3> QED
      BY <1>13, <3>1, <3>2, <3>3
  <2> QED
    BY <2>1, <2>2 DEF IsStart, d
<1>15. Starts(t, p, c, h)'
  <2>1. CASE p = 0
    <3>1. held[0] = Held(t) /\ (b = 0 <=> t \in cs.resets) /\ h[0] = held[0]
      BY <1>3, <1>4, <1>11, <2>1 DEF Starts
    <3>2. b = 0 <=> c = 0
      BY <1>4, <1>11
    <3>3. h[0] = Held(t)' /\ (c = 0 <=> t \in cs'.resets)
      BY <3>1, <3>2
    <3> QED
      BY <2>1, <3>3 DEF Starts
  <2>2. CASE p # 0
    <3>1. b > p /\ held[p] = cache[t].keys
      BY <1>3, <2>2 DEF Starts
    <3>2. c > p /\ h[p] = cache[t].keys
      BY <1>4, <1>11, <3>1
    <3> QED
      BY <2>2, <3>2 DEF Starts
  <2> QED
    BY <2>1, <2>2
<1>16. Traces(cs.responses, t, cache[t].keys, p, c, h)'
  BY <1>11 DEF d
<1>17. Announced(t, p, c, h)'
  <2>1. ASSUME NEW i \in p + 1 .. Len(d), d[i].type = "NoChange" /\ i < c
        PROVE  h[i] = truth[d[i].token][t]
    <3>1. CASE i \in p + 1 .. n /\ i \in 1 .. n
      <4>1. i < b /\ d[i] = r[i] /\ h[i] = held[i]
        BY <1>4, <1>10, <1>11, <2>1, <3>1
      <4> QED
        BY <1>3, <2>1, <3>1, <4>1 DEF Announced
    <3>2. CASE i - n \in 1 .. l /\ i = n + (i - n)
      <4>1. d[i] = s[i - n]
        BY <1>10, <3>2
      <4>2. s[i - n].type # "NoChange"
        BY <1>7, <3>2
      <4> QED
        BY <2>1, <4>1, <4>2
    <3>3. CASE i = n + l + 1
      <4>1. h[i] = new.keys /\ d[i] = m
        BY <1>4, <1>10, <1>11, <2>1, <3>3
      <4> QED
        BY <2>1, <4>1 DEF AddsFor
    <3> QED
      BY <1>13, <3>1, <3>2, <3>3
  <2>2. ASSUME c = Len(d) + 1 PROVE h[Len(d)] = new.keys
    BY <1>4, <1>10, <1>11, <2>2
  <2> QED
    BY <2>1, <2>2 DEF Announced, d
<1>18. FiltersFirst(t, p)'
  <2>1. ASSUME NEW i \in p + 1 .. Len(d), IsFilter(d[i], t)
        PROVE  /\ \A j \in p + 1 .. i : d[j].type # "NoChange"
               /\ Closing(d, t, i, lastRemote)
    <3>1. CASE i \in p + 1 .. n /\ i \in 1 .. n
      <4>1. d[i] = r[i]
        BY <1>10, <3>1
      <4>2. /\ \A j \in p + 1 .. i : r[j].type # "NoChange"
            /\ Closing(r, t, i, lastRemote)
        BY <1>3, <2>1, <3>1, <4>1 DEF FiltersFirst
      <4>3. \A j \in p + 1 .. i : j \in 1 .. n
        BY <1>4, <3>1
      <4>4. Closing(d, t, i, lastRemote)
        <5>1. Append(s, m) \in Seq(M) /\ i \in 0 .. Len(r)
          BY <3>1
        <5>2. Closing(r \o Append(s, m), t, i, lastRemote)
          BY <4>2, <5>1, ClosingExtends
        <5> QED
          BY <5>2 DEF d
      <4> QED
        BY <1>10, <4>2, <4>3, <4>4
    <3>2. CASE i - n \in 1 .. l /\ i = n + (i - n)
      <4>1. d[i] = s[i - n]
        BY <1>10, <3>2
      <4>2. /\ m.type = "NoChange" /\ old.version = None /\ ~(m.token < lastRemote)
            /\ FilterLast(s, t)
        BY <1>7, <2>1, <3>2, <4>1
      <4>3. \A j \in p + 1 .. n : r[j].type # "NoChange"
        BY <1>3, <4>2 DEF FiltersFirst
      <4>4. ASSUME NEW j \in p + 1 .. i PROVE d[j].type # "NoChange"
        <5>1. (j \in p + 1 .. n /\ j \in 1 .. n) \/ (j - n \in 1 .. l /\ j = n + (j - n))
          BY <1>4, <3>2
        <5>2. CASE j \in p + 1 .. n /\ j \in 1 .. n
          BY <1>10, <4>3, <5>2
        <5>3. CASE j - n \in 1 .. l /\ j = n + (j - n)
          <6>1. d[j] = s[j - n]
            BY <1>10, <5>3
          <6>2. s[j - n].type # "NoChange"
            BY <1>7, <5>3
          <6> QED
            BY <6>1, <6>2
        <5> QED
          BY <5>1, <5>2, <5>3
      <4>5. IsRaised(m, lastRemote)
        BY <4>2 DEF IsRaised
      <4>6. Closing(d, t, i, lastRemote)
        <5> DEFINE k == i - n
        <5>1. k \in 1 .. Len(s) /\ IsFilter(s[k], t) /\ i = Len(r) + k
          BY <2>1, <3>2, <4>1
        <5>2. \A x \in 1 .. Len(s) : s[x].type # "NoChange"
          BY <1>7
        <5> HIDE DEF k
        <5>3. Closing(r \o Append(s, m), t, Len(r) + k, lastRemote)
          BY <4>2, <4>5, <5>1, <5>2, FilterIsClosing
        <5> QED
          BY <5>1, <5>3 DEF d
      <4> QED
        BY <4>4, <4>6
    <3>3. CASE i = n + l + 1
      BY <1>10, <2>1, <3>3 DEF IsFilter
    <3> QED
      BY <1>13, <3>1, <3>2, <3>3
  <2>2. ASSUME new.version = None
        PROVE  /\ new.keys = cache[t].keys
               /\ \A i \in p + 1 .. Len(d) : d[i].type # "NoChange" /\ ~About(d[i], t)
    <3>1. s = <<>> /\ m.type # "NoChange" /\ new = old
      BY <2>2 DEF AddsFor
    <3>2. /\ old.keys = cache[t].keys
          /\ \A i \in p + 1 .. n : r[i].type # "NoChange" /\ ~About(r[i], t)
      BY <1>3, <2>2, <3>1 DEF FiltersFirst
    <3>3. ASSUME NEW i \in p + 1 .. Len(d) PROVE d[i].type # "NoChange" /\ ~About(d[i], t)
      <4>1. l = 0
        BY <3>1
      <4>2. (i \in p + 1 .. n /\ i \in 1 .. n) \/ i = n + l + 1
        BY <1>13, <4>1
      <4> QED
        BY <1>10, <3>1, <3>2, <4>2
    <3> QED
      BY <3>1, <3>2, <3>3
  <2> QED
    BY <2>1, <2>2 DEF FiltersFirst, d
<1>19. FollowedBy(t, p, c, h)'
  BY <1>14, <1>15, <1>16, <1>17, <1>18 DEF FollowedBy
<1>20. h \in [0 .. Len(d) -> SUBSET Keys]
  BY <1>11 DEF Traces
<1> QED
  BY <1>12, <1>19, <1>20 DEF Followed, d

(***************************************************************************)
(* The steps that leave nothing of a call.                                 *)
(***************************************************************************)

\* With nothing of a call there is nothing to be said of it.
LEMMA NothingIsSaid ==
  ASSUME NothingOfCall(cs'), cs'.stream # "Open"
  PROVE  ResetsClosing' /\ InOrderAnnounced' /\ AskedOrFollowed'
<1>1. ResetsClosing'
  BY DEF ResetsClosing, NothingOfCall
<1>2. 1 .. Len(cs'.responses) = {}
  BY DEF NothingOfCall
<1>3. InOrderAnnounced'
  BY <1>2 DEF InOrderAnnounced
<1> QED
  BY <1>1, <1>3 DEF AskedOrFollowed

LEMMA WithoutCallSnap ==
  ASSUME Snap, NothingOfCall(cs'), cs'.stream # "Open", cs'.tokens = cs.tokens,
         UNCHANGED <<views, memory, cache, truth>>
  PROVE  Snap'
<1>1. RowsDescribed'
  BY DEF Snap, RowsDescribed, Describes
<1>2. TokensDescribed'
  BY DEF Snap, TokensDescribed, Describes
<1> QED
  BY <1>1, <1>2, NothingIsSaid DEF Snap

\* A stream that is not open is not opened by starting it.
LEMMA StartedIsNotOpen ==
  ASSUME NEW n \in Nat, NEW c, IsClient(c, n)
  PROVE  /\ c.stream # "Open" => StartIfNeeded(c).stream # "Open"
         /\ Closed(c).stream # "Open"
<1>1. ASSUME NEW d, IsClient(d, n), d.stream # "Open" PROVE StartIfNeeded(d).stream # "Open"
  <2>1. NoCall(d, "Starting").stream = "Starting"
    BY <1>1, NoCallIs
  <2> QED
    BY <1>1, <2>1 DEF StartIfNeeded
<1>2. IsClient(NoCall(c, "Stopped"), n) /\ NoCall(c, "Stopped").stream = "Stopped"
  BY NoCallIs
<1> QED
  BY <1>1, <1>2 DEF Closed

LEMMA CallEndsSnap ==
  ASSUME IInv, Snap,
         \/ DisableNetwork \/ EnableNetwork \/ RestartNetwork \/ ConnectionLost \/ IdleTimeout
  PROVE  Snap'
<1> DEFINE n == Len(truth)
<1>1. n \in Nat /\ IsClient(cs, n) /\ CallOver(cs) /\ StreamAsNeeded(cs)
  BY Types DEF IInv
<1>2. ASSUME NEW b \in BOOLEAN
      PROVE  LET d == [cs EXCEPT !.enabled = b]
             IN  /\ IsClient(d, n) /\ d.tokens = cs.tokens
                 /\ d.stream = cs.stream
                 /\ NothingOfCall(cs) => NothingOfCall(d)
  <2> DEFINE d == [cs EXCEPT !.enabled = b]
  <2>1. /\ cs = [tokens |-> cs.tokens, states |-> cs.states, resets |-> cs.resets,
                 enabled |-> cs.enabled, stream |-> cs.stream, idle |-> cs.idle,
                 requests |-> cs.requests, responses |-> cs.responses]
        /\ IsTable(cs.tokens, Tokens(n)) /\ IsTable(cs.states, States(n))
        /\ cs.resets \in SUBSET Targets /\ cs.stream \in {"Stopped", "Starting", "Open"}
        /\ cs.idle \in BOOLEAN
        /\ cs.requests \in Seq(Requests(n)) /\ cs.responses \in Seq(Responses(n))
    BY <1>1, ClientIs
  <2>2. d = [tokens |-> cs.tokens, states |-> cs.states, resets |-> cs.resets,
             enabled |-> b, stream |-> cs.stream, idle |-> cs.idle,
             requests |-> cs.requests, responses |-> cs.responses]
    BY <2>1
  <2> HIDE DEF d, n
  <2>3. IsClient(d, n)
    BY <2>1, <2>2, ClientIs
  <2> QED
    BY <2>2, <2>3 DEF d, NothingOfCall
<1>3. CASE DisableNetwork
  <2> DEFINE d == [cs EXCEPT !.enabled = FALSE]
  <2>1. IsClient(d, n) /\ d.tokens = cs.tokens
    BY <1>2
  <2>2. cs' = NoCall(d, "Stopped") /\ UNCHANGED <<views, memory, cache, truth>>
    BY <1>3 DEF DisableNetwork, CallEnds
  <2> HIDE DEF d, n
  <2>3. NothingOfCall(cs') /\ cs'.tokens = cs.tokens /\ cs'.stream = "Stopped"
    BY <1>1, <2>1, <2>2, NoCallIs
  <2> QED
    BY <2>2, <2>3, WithoutCallSnap
<1>4. CASE EnableNetwork
  <2> DEFINE d == [cs EXCEPT !.enabled = TRUE]
  <2>1. ~cs.enabled /\ cs' = StartIfNeeded(d) /\ UNCHANGED <<views, memory, cache, truth>>
    BY <1>4 DEF EnableNetwork, serverVars
  <2>2. NothingOfCall(cs) /\ cs.stream = "Stopped"
    BY <1>1, <2>1 DEF CallOver, StreamAsNeeded
  <2>3. IsClient(d, n) /\ d.tokens = cs.tokens /\ d.stream = "Stopped" /\ NothingOfCall(d)
    BY <1>2, <2>2
  <2> HIDE DEF d, n
  <2>4. cs'.tokens = cs.tokens /\ NothingOfCall(cs') /\ cs'.stream # "Open"
    BY <1>1, <2>1, <2>3, NothingIsCounted, StartIfNeededIs, StartedIsNotOpen
  <2> QED
    BY <2>1, <2>4, WithoutCallSnap
<1>5. CASE RestartNetwork \/ ConnectionLost \/ IdleTimeout
  <2>1. cs' = Closed(cs) /\ UNCHANGED <<views, memory, cache, truth>>
    BY <1>5 DEF RestartNetwork, ConnectionLost, IdleTimeout, CallEnds
  <2>2. NothingOfCall(cs') /\ cs'.tokens = cs.tokens /\ cs'.stream # "Open"
    BY <1>1, <2>1, ClosedIs, StartedIsNotOpen
  <2> QED
    BY <2>1, <2>2, WithoutCallSnap
<1> QED
  BY <1>3, <1>4, <1>5

LEMMA CrashSnap ==
  ASSUME IInv, Snap, Crash
  PROVE  Snap'
<1>1. cs' = NewClient /\ UNCHANGED <<truth, cache>>
  BY DEF Crash, CallEnds
<1>2. NothingOfCall(cs') /\ DOMAIN cs'.tokens = {} /\ cs'.stream # "Open"
  <2>1. NewClient.stream = "Stopped"
    BY DEF NewClient
  <2> QED
    BY <1>1, <2>1, Types, NewClientIs
<1>3. RowsDescribed'
  BY <1>1 DEF Snap, RowsDescribed, Describes
<1>4. TokensDescribed'
  BY <1>2 DEF TokensDescribed
<1> QED
  BY <1>2, <1>3, <1>4, NothingIsSaid DEF Snap

(***************************************************************************)
(* Requests.                                                               *)
(***************************************************************************)

\* The last request about t asks for it with a token; no request is about t.
AskedLast(requests, t, token) ==
  \E i \in 1 .. Len(requests) :
    /\ requests[i] = WatchRequest(t, token)
    /\ \A j \in i + 1 .. Len(requests) : requests[j].target # t
NoneOf(requests, t) == \A i \in 1 .. Len(requests) : requests[i].target # t

LEMMA AskedConcat ==
  ASSUME NEW M, NEW s \in Seq(M), NEW more \in Seq(M), NEW t, NEW token
  PROVE  /\ AskedLast(more, t, token) => AskedLast(s \o more, t, token)
         /\ AskedLast(s, t, token) /\ NoneOf(more, t) => AskedLast(s \o more, t, token)
         /\ NoneOf(s, t) /\ NoneOf(more, t) => NoneOf(s \o more, t)
<1> DEFINE all == s \o more
<1>1. Len(s) \in Nat /\ Len(more) \in Nat /\ Len(all) = Len(s) + Len(more)
  OBVIOUS
<1>2. \A i \in 1 .. Len(s) : all[i] = s[i]
  BY ONLY <1>1, s \in Seq(M) /\ more \in Seq(M), ConcatAt
<1>3. \A i \in 1 .. Len(more) : all[Len(s) + i] = more[i]
  BY ONLY <1>1, s \in Seq(M) /\ more \in Seq(M), ConcatAt
<1> HIDE DEF all
<1>4. ASSUME NEW i \in Len(s) + 1 .. Len(all) PROVE i - Len(s) \in 1 .. Len(more) /\ all[i] = more[i - Len(s)]
  <2>1. i - Len(s) \in 1 .. Len(more) /\ i = Len(s) + (i - Len(s))
    BY <1>1
  <2> QED
    BY <1>3, <2>1
<1>5. ASSUME AskedLast(more, t, token) PROVE AskedLast(all, t, token)
  <2>1. PICK i \in 1 .. Len(more) : /\ more[i] = WatchRequest(t, token)
                                    /\ \A j \in i + 1 .. Len(more) : more[j].target # t
    BY <1>5 DEF AskedLast
  <2>2. Len(s) + i \in 1 .. Len(all) /\ all[Len(s) + i] = WatchRequest(t, token)
    BY <1>1, <1>3, <2>1
  <2>3. ASSUME NEW j \in (Len(s) + i) + 1 .. Len(all) PROVE all[j].target # t
    <3>1. j \in Len(s) + 1 .. Len(all) /\ j - Len(s) \in i + 1 .. Len(more)
      BY <1>1
    <3> QED
      BY <1>4, <2>1, <3>1
  <2> QED
    BY <2>2, <2>3 DEF AskedLast
<1>6. ASSUME AskedLast(s, t, token), NoneOf(more, t) PROVE AskedLast(all, t, token)
  <2>1. PICK i \in 1 .. Len(s) : /\ s[i] = WatchRequest(t, token)
                                 /\ \A j \in i + 1 .. Len(s) : s[j].target # t
    BY <1>6 DEF AskedLast
  <2>2. i \in 1 .. Len(all) /\ all[i] = WatchRequest(t, token)
    BY <1>1, <1>2, <2>1
  <2>3. ASSUME NEW j \in i + 1 .. Len(all) PROVE all[j].target # t
    <3>1. CASE j <= Len(s)
      <4>1. j \in 1 .. Len(s) /\ j \in i + 1 .. Len(s)
        BY <1>1, <3>1
      <4> QED
        BY <1>2, <2>1, <4>1
    <3>2. CASE j > Len(s)
      <4>1. j \in Len(s) + 1 .. Len(all)
        BY <1>1, <3>2
      <4> QED
        BY <1>4, <1>6, <4>1 DEF NoneOf
    <3> QED
      BY <1>1, <3>1, <3>2
  <2> QED
    BY <2>2, <2>3 DEF AskedLast
<1>7. ASSUME NoneOf(s, t), NoneOf(more, t) PROVE NoneOf(all, t)
  <2> SUFFICES ASSUME NEW j \in 1 .. Len(all) PROVE all[j].target # t
    BY DEF NoneOf
  <2>1. CASE j <= Len(s)
    <3>1. j \in 1 .. Len(s)
      BY <1>1, <2>1
    <3> QED
      BY <1>2, <1>7, <3>1 DEF NoneOf
  <2>2. CASE j > Len(s)
    <3>1. j \in Len(s) + 1 .. Len(all)
      BY <1>1, <2>2
    <3> QED
      BY <1>4, <1>7, <3>1 DEF NoneOf
  <2> QED
    BY <1>1, <2>1, <2>2
<1> QED
  BY <1>5, <1>6, <1>7 DEF all

\* What is asked for last stays so until it is asked about again.
AsksFor(r, asked, D, t) ==
  /\ \A token : t \in D /\ Len(asked[t]) > 0 /\ asked[t][Len(asked[t])] = WatchRequest(t, token)
                  => AskedLast(r \o InSomeOrder(asked), t, token)
  /\ \A token : t \notin D /\ AskedLast(r, t, token) => AskedLast(r \o InSomeOrder(asked), t, token)
  /\ t \notin D /\ NoneOf(r, t) => NoneOf(r \o InSomeOrder(asked), t)

LEMMA AskedIs ==
  ASSUME NEW M, NEW r \in Seq(M), NEW D, IsFiniteSet(D), NEW asked \in [D -> Seq(M)],
         \A u \in D : \A j \in 1 .. Len(asked[u]) : asked[u][j].target = u, NEW t
  PROVE  AsksFor(r, asked, D, t)
<1> DEFINE more == InSomeOrder(asked)
<1>1. more \in Seq(M)
  BY InOrder
<1> HIDE DEF more
<1>2. ASSUME t \notin D PROVE NoneOf(more, t)
  <2>1. IsFiniteSet(RequestsOf(more, t)) /\ Cardinality(RequestsOf(more, t)) = 0
    BY <1>2, InOrderCount DEF more
  <2>2. RequestsOf(more, t) = {}
    BY <2>1, FS_EmptySet
  <2>3. DOMAIN more = 1 .. Len(more)
    BY <1>1
  <2> QED
    BY <2>2, <2>3 DEF RequestsOf, NoneOf
<1>3. ASSUME NEW token, t \in D, Len(asked[t]) > 0,
             asked[t][Len(asked[t])] = WatchRequest(t, token)
      PROVE  AskedLast(more, t, token)
  <2>1. PICK before \in Seq(M), after \in Seq(M) :
          StandsBetween(more, before, asked[t], after, asked, D \ {t})
    BY <1>3, InOrderSplit DEF more
  <2>2. more = (before \o asked[t]) \o after /\ OfThese(after, asked, D \ {t})
    BY <2>1 DEF StandsBetween
  <2>3. NoneOf(after, t)
    <3>1. ASSUME NEW i \in 1 .. Len(after) PROVE after[i].target # t
      <4>1. PICK u \in D \ {t} : \E j \in 1 .. Len(asked[u]) : after[i] = asked[u][j]
        BY <2>2 DEF OfThese
      <4>2. PICK j \in 1 .. Len(asked[u]) : after[i] = asked[u][j]
        BY <4>1
      <4> QED
        BY <4>2
    <3> QED
      BY ONLY <3>1 DEF NoneOf
  <2>4. asked[t] \in Seq(M) /\ before \o asked[t] \in Seq(M)
    BY <1>3
  <2>5. AskedLast(asked[t], t, token)
    <3>1. Len(asked[t]) \in 1 .. Len(asked[t]) /\ Len(asked[t]) + 1 .. Len(asked[t]) = {}
      BY <1>3, <2>4
    <3> QED
      BY <1>3, <3>1 DEF AskedLast
  <2>6. AskedLast(before \o asked[t], t, token)
    BY <2>4, <2>5, AskedConcat
  <2> QED
    BY <2>2, <2>3, <2>4, <2>6, AskedConcat
<1>4. \A token : t \in D /\ Len(asked[t]) > 0 /\ asked[t][Len(asked[t])] = WatchRequest(t, token)
                  => AskedLast(r \o more, t, token)
  BY <1>1, <1>3, AskedConcat
<1>5. \A token : t \notin D /\ AskedLast(r, t, token) => AskedLast(r \o more, t, token)
  BY <1>1, <1>2, AskedConcat
<1>6. t \notin D /\ NoneOf(r, t) => NoneOf(r \o more, t)
  BY <1>1, <1>2, AskedConcat
<1> QED
  BY <1>4, <1>5, <1>6 DEF AsksFor, more

\* Pending, by the requests.
LEMMA PendingIs ==
  ASSUME NEW t
  PROVE  (Pending(t) <=> AskedLast(cs.requests, t, cs.tokens[t]))
         /\ (Pending(t)' <=> AskedLast(cs'.requests, t, cs'.tokens[t]))
BY DEF Pending, AskedLast

(***************************************************************************)
(* The stream opens, and a document changes.                               *)
(***************************************************************************)

\* The stream is open, and what the listened targets are asked for with.
LEMMA OpenAsks ==
  ASSUME IInv, StreamOpens, NEW D, D = DOMAIN cs.tokens,
         NEW asked, asked = [t \in D |-> <<WatchRequest(t, cs.tokens[t])>>]
  PROVE  /\ D \in SUBSET Targets /\ asked \in [D -> Seq(Requests(Len(truth)))]
         /\ \A u \in D : \A j \in 1 .. Len(asked[u]) : asked[u][j].target = u
         /\ cs'.tokens = cs.tokens /\ cs'.resets = {} /\ cs'.responses = <<>>
         /\ cs'.requests = <<>> \o InSomeOrder(asked)
         /\ D \subseteq DOMAIN cs'.states
<1> DEFINE n == Len(truth)
           open == [cs EXCEPT !.stream = "Open"]
<1>1. /\ n \in Nat /\ IsClient(cs, n) /\ CallOver(cs)
      /\ D \in SUBSET Targets /\ \A t \in D : cs.tokens[t] \in Tokens(n)
  BY Types, ClientIs DEF IInv, IsTable
<1>2. cs.stream = "Starting" /\ cs' = Ask(open, asked)
  BY DEF StreamOpens
<1>3. IsClient(open, n) /\ open.tokens = cs.tokens /\ NothingOfCall(open)
  <2>1. /\ cs = [tokens |-> cs.tokens, states |-> cs.states, resets |-> cs.resets,
                 enabled |-> cs.enabled, stream |-> cs.stream, idle |-> cs.idle,
                 requests |-> cs.requests, responses |-> cs.responses]
        /\ IsTable(cs.tokens, Tokens(n)) /\ IsTable(cs.states, States(n))
        /\ cs.resets \in SUBSET Targets /\ cs.enabled \in BOOLEAN /\ cs.idle \in BOOLEAN
        /\ cs.requests \in Seq(Requests(n)) /\ cs.responses \in Seq(Responses(n))
    BY <1>1, ClientIs
  <2>2. open = [tokens |-> cs.tokens, states |-> cs.states, resets |-> cs.resets,
                enabled |-> cs.enabled, stream |-> "Open", idle |-> cs.idle,
                requests |-> cs.requests, responses |-> cs.responses]
    BY <2>1
  <2>3. NothingOfCall(cs)
    BY <1>1, <1>2 DEF CallOver
  <2> HIDE DEF open, n
  <2>4. IsClient(open, n)
    BY <2>1, <2>2, ClientIs
  <2> QED
    BY <2>2, <2>3, <2>4 DEF NothingOfCall
<1> HIDE DEF open, n
<1>4. /\ asked \in [D -> Seq(Requests(n))]
      /\ \A u \in D : \A j \in 1 .. Len(asked[u]) : asked[u][j].target = u
  <2>1. \A t \in D : /\ asked[t] = <<WatchRequest(t, cs.tokens[t])>>
                     /\ WatchRequest(t, cs.tokens[t]) \in Requests(n)
                     /\ WatchRequest(t, cs.tokens[t]).target = t
    BY <1>1 DEF WatchRequest, Requests
  <2>2. asked = [t \in D |-> asked[t]]
    OBVIOUS
  <2>3. \A t \in D : asked[t] \in Seq(Requests(n))
    BY <2>1
  <2>4. ASSUME NEW u \in D, NEW j \in 1 .. Len(asked[u]) PROVE asked[u][j].target = u
    <3>1. asked[u] = <<WatchRequest(u, cs.tokens[u])>>
      BY <2>1
    <3>2. j = 1
      BY <3>1
    <3> QED
      BY <2>1, <3>1, <3>2
  <2> QED
    BY ONLY <2>2, <2>3, <2>4
<1>5. Asks(open, cs', D, asked, n)
  BY <1>1, <1>2, <1>3, <1>4, AskIs
<1> QED
  BY <1>1, <1>3, <1>4, <1>5 DEF Asks, NothingOfCall, n

LEMMA StreamOpensSnap ==
  ASSUME IInv, Snap, StreamOpens
  PROVE  Snap'
<1> DEFINE D == DOMAIN cs.tokens
           asked == [t \in D |-> <<WatchRequest(t, cs.tokens[t])>>]
<1>1. /\ D \in SUBSET Targets /\ asked \in [D -> Seq(Requests(Len(truth)))]
      /\ \A u \in D : \A j \in 1 .. Len(asked[u]) : asked[u][j].target = u
      /\ cs'.tokens = cs.tokens /\ cs'.resets = {} /\ cs'.responses = <<>>
      /\ cs'.requests = <<>> \o InSomeOrder(asked)
      /\ D \subseteq DOMAIN cs'.states
  BY OpenAsks
<1>2. \A t \in D : asked[t] = <<WatchRequest(t, cs.tokens[t])>>
  OBVIOUS
<1>3. UNCHANGED <<views, memory, cache, truth>>
  BY DEF StreamOpens
<1>4. IsFiniteSet(D)
  BY <1>1, FS_Subset, WatchConstants
<1> HIDE DEF asked
<1>5. ASSUME NEW t \in DOMAIN cs'.tokens PROVE t \in DOMAIN cs'.states /\ Pending(t)'
  <2>1. t \in D
    BY <1>1
  <2>2. AsksFor(<<>>, asked, D, t)
    <3>1. <<>> \in Seq(Requests(Len(truth)))
      BY EmptyTable
    <3> HIDE DEF D
    <3> QED
      BY <1>1, <1>4, <3>1, AskedIs
  <2>3. asked[t] = <<WatchRequest(t, cs.tokens[t])>> /\ Len(asked[t]) = 1
    BY <1>2, <2>1
  <2>4. AskedLast(cs'.requests, t, cs'.tokens[t])
    BY <1>1, <2>1, <2>2, <2>3 DEF AsksFor
  <2> QED
    BY <1>1, <2>1, <2>4, PendingIs
<1>6. RowsDescribed'
  BY <1>3 DEF Snap, RowsDescribed, Describes
<1>7. TokensDescribed'
  BY <1>1, <1>3 DEF Snap, TokensDescribed, Describes
<1>8. ResetsClosing'
  BY <1>1 DEF ResetsClosing
<1>9. InOrderAnnounced'
  <2>1. 1 .. Len(cs'.responses) = {}
    BY <1>1
  <2> QED
    BY <2>1 DEF InOrderAnnounced
<1>10. AskedOrFollowed'
  BY <1>5 DEF AskedOrFollowed
<1> QED
  BY <1>6, <1>7, <1>8, <1>9, <1>10 DEF Snap

\* What matched at the versions there were still did.
LEMMA DocumentChangesSnap ==
  ASSUME IInv, Snap, DocumentChanges
  PROVE  Snap'
<1> DEFINE n == Len(truth)
<1>1. /\ UNCHANGED <<cs, views, memory, cache, lastRemote, served, at>>
      /\ \E w : truth' = Append(truth, w)
  BY DEF DocumentChanges
<1>2. truth \in Seq([Targets -> SUBSET Keys]) /\ n \in Nat
  BY DEF IInv, Typed, Versions
<1>3. \A v \in 1 .. n : truth'[v] = truth[v]
  BY <1>1, <1>2
<1>4. ASSUME NEW token \in Tokens(n), NEW keys, NEW t, Describes(token, keys, t)
      PROVE  Describes(token, keys, t)'
  BY <1>2, <1>3, <1>4 DEF Describes, Tokens, None
<1>5. /\ \A t \in Targets : cache[t].token \in Tokens(n)
      /\ \A t \in DOMAIN cs.tokens : memory[t] \in Tokens(n)
      /\ cs.responses \in Seq(Responses(n))
  BY Types, ClientIs DEF IsTable
<1> HIDE DEF n
<1>6. RowsDescribed'
  BY <1>1, <1>4, <1>5 DEF Snap, RowsDescribed
<1>7. TokensDescribed'
  BY <1>1, <1>4, <1>5 DEF Snap, TokensDescribed
<1>8. ResetsClosing'
  BY <1>1 DEF Snap, ResetsClosing, IsActive, StateOf, Held, Closing, IsRaised
<1>9. InOrderAnnounced'
  BY <1>1 DEF Snap, InOrderAnnounced
<1>10. ASSUME NEW t, Followed(t) PROVE Followed(t)'
  <2>1. \A i \in 1 .. Len(cs.responses) : cs.responses[i].type = "NoChange" =>
            truth'[cs.responses[i].token][t] = truth[cs.responses[i].token][t]
    <3> SUFFICES ASSUME NEW i \in 1 .. Len(cs.responses), cs.responses[i].type = "NoChange"
                 PROVE  cs.responses[i].token \in 1 .. n
      BY <1>3
    <3>1. cs.responses[i] \in Responses(n)
      BY <1>5
    <3> QED
      BY <1>2, <3>1, ResponseFields DEF n
  <2>2. Held(t)' = Held(t)
    BY <1>1 DEF Held, StateOf
  <2>3. \A i \in 1 .. Len(cs'.requests) : cs'.requests[i].target # t
    BY <1>1, <1>10 DEF Followed
  <2> QED
    BY <1>1, <1>10, <2>1, <2>2, <2>3, FollowedStays
<1>11. \A t : Pending(t)' <=> Pending(t)
  BY <1>1 DEF Pending
<1>12. AskedOrFollowed'
  BY <1>1, <1>10, <1>11 DEF Snap, AskedOrFollowed
<1> QED
  BY <1>6, <1>7, <1>8, <1>9, <1>12 DEF Snap

(***************************************************************************)
(* A target is listened to, and no longer.                                 *)
(***************************************************************************)

\* A request about one target leaves what is said of another.
LEMMA OthersStay ==
  ASSUME NEW M, cs.requests \in Seq(M), NEW q \in M, NEW t, q.target = t,
         cs'.requests = cs.requests \o InSomeOrder([u \in {t} |-> <<q>>]),
         cs'.responses = cs.responses, cs'.resets = cs.resets,
         NEW u, u # t, StateOf(cs', u).changes = StateOf(cs, u).changes,
         cache'[u].keys = cache[u].keys, cs'.tokens[u] = cs.tokens[u],
         UNCHANGED <<lastRemote, truth, served>>
  PROVE  /\ Followed(u) => Followed(u)'
         /\ Pending(u) => Pending(u)'
         /\ Held(u)' = Held(u)
<1> DEFINE asked == [z \in {t} |-> <<q>>]
<1>1. AsksFor(cs.requests, asked, {t}, u)
  <2>1. asked \in [{t} -> Seq(M)] /\ asked[t] = <<q>>
    OBVIOUS
  <2>2. \A z \in {t} : \A j \in 1 .. Len(asked[z]) : asked[z][j].target = z
    BY <2>1
  <2>3. IsFiniteSet({t})
    BY FS_Singleton
  <2> HIDE DEF asked
  <2> QED
    BY <2>1, <2>2, <2>3, AskedIs
<1> HIDE DEF asked
<1>2. Held(u)' = Held(u)
  BY DEF Held, Matching, KeysWith
<1>3. ASSUME Pending(u) PROVE Pending(u)'
  BY <1>1, <1>3, PendingIs DEF AsksFor, asked
<1>4. ASSUME Followed(u) PROVE Followed(u)'
  <2>1. NoneOf(cs.requests, u)
    BY <1>4 DEF Followed, NoneOf
  <2>2. NoneOf(cs'.requests, u)
    BY <1>1, <2>1 DEF AsksFor, asked
  <2>3. \A i \in 1 .. Len(cs'.requests) : cs'.requests[i].target # u
    BY <2>2 DEF NoneOf
  <2> QED
    BY <1>2, <1>4, <2>3, FollowedStays
<1> QED
  BY <1>2, <1>3, <1>4

\* Requests asked for leave what is gathered, and what is active of other targets.
LEMMA AsksLeave ==
  ASSUME NEW n \in Nat, NEW c, IsClient(c, n), NEW d, NEW D, NEW asked, Asks(c, d, D, asked, n),
         D \subseteq Targets
  PROVE  \A u \in Targets :
           /\ StateOf(d, u).changes = StateOf(c, u).changes
           /\ u \notin D => StateOf(d, u).outstanding = StateOf(c, u).outstanding
<1> SUFFICES ASSUME NEW u \in Targets
             PROVE  /\ StateOf(d, u).changes = StateOf(c, u).changes
                    /\ u \notin D => StateOf(d, u).outstanding = StateOf(c, u).outstanding
  OBVIOUS
<1>1. StateOf(c, u) \in States(n)
  BY StateOfType, ClientIs
<1>2. CASE u \in DOMAIN d.states
  <2>1. d.states[u] = [StateOf(c, u) EXCEPT
                         !.outstanding = @ + (IF u \in D THEN Len(asked[u]) ELSE 0)]
    BY <1>2 DEF Asks
  <2>2. StateOf(d, u) = d.states[u]
    BY <1>2 DEF StateOf
  <2>3. StateOf(c, u).outstanding \in Int
    BY <1>1 DEF States
  <2> QED
    BY <1>1, <2>1, <2>2, <2>3 DEF States
<1>3. CASE u \notin DOMAIN d.states
  <2>1. u \notin DOMAIN c.states /\ u \notin D
    BY <1>3 DEF Asks
  <2>2. StateOf(d, u) = NewTargetState /\ StateOf(c, u) = NewTargetState
    BY <1>3, <2>1 DEF StateOf
  <2> QED
    BY <2>2
<1> QED
  BY <1>2, <1>3

\* The wire and the states after one target is listened to on an open stream.
LEMMA ListenAsks ==
  ASSUME IInv, NEW t \in Targets, Listen(t), cs.stream = "Open"
  PROVE  /\ cs'.requests = cs.requests \o InSomeOrder([u \in {t} |-> <<WatchRequest(t, cache[t].token)>>])
         /\ WatchRequest(t, cache[t].token) \in Requests(Len(truth))
         /\ cs'.responses = cs.responses /\ cs'.resets = cs.resets
         /\ DOMAIN cs'.states = DOMAIN cs.states \cup {t}
         /\ \A u \in Targets \ {t} :
              /\ StateOf(cs', u).changes = StateOf(cs, u).changes
              /\ StateOf(cs', u).outstanding = StateOf(cs, u).outstanding
<1> DEFINE n == Len(truth)
           token == cache[t].token
           tokens == Put(cs.tokens, t, token)
           listening == [cs EXCEPT !.tokens = tokens]
           q == WatchRequest(t, token)
           asked == [u \in {t} |-> <<q>>]
<1>1. /\ n \in Nat /\ IsClient(cs, n) /\ token \in Tokens(n) /\ IsTable(cs.tokens, Tokens(n))
  BY Types, ClientIs
<1>2. cs' = SendWatchRequest(listening, t, token)
  BY DEF Listen
<1>3. IsTable(tokens, Tokens(n))
  BY <1>1, PutTable DEF tokens
<1> HIDE DEF n, token, tokens
<1>4. /\ IsClient(listening, n) /\ listening.states = cs.states /\ listening.resets = cs.resets
      /\ listening.requests = cs.requests /\ listening.responses = cs.responses
  BY <1>1, <1>3, TokensReplaced
<1> HIDE DEF listening
<1>5. cs' = Ask(listening, asked)
  BY <1>2 DEF SendWatchRequest
<1>6. q \in Requests(n) /\ q.target = t
  BY <1>1 DEF WatchRequest, Requests
<1> HIDE DEF q
<1>7. Asks(listening, cs', {t}, asked, n)
  BY <1>1, <1>4, <1>5, <1>6, AskOne
<1> HIDE DEF asked
<1>8. \A u \in Targets :
        /\ StateOf(cs', u).changes = StateOf(listening, u).changes
        /\ u \notin {t} => StateOf(cs', u).outstanding = StateOf(listening, u).outstanding
  BY <1>1, <1>4, <1>7, AsksLeave
<1>9. \A u : StateOf(listening, u) = StateOf(cs, u)
  BY <1>4 DEF StateOf
<1> QED
  BY <1>4, <1>6, <1>7, <1>8, <1>9 DEF Asks, asked, q, token, n

\* Without an open stream there is still none.
LEMMA ListenWithoutCall ==
  ASSUME IInv, NEW t \in Targets, Listen(t), cs.stream # "Open"
  PROVE  NothingOfCall(cs') /\ cs'.stream # "Open"
<1> DEFINE n == Len(truth)
           tokens == Put(cs.tokens, t, cache[t].token)
           listening == [cs EXCEPT !.tokens = tokens]
<1>1. /\ n \in Nat /\ IsClient(cs, n) /\ cache[t].token \in Tokens(n)
      /\ IsTable(cs.tokens, Tokens(n)) /\ CallOver(cs) /\ StreamAsNeeded(cs)
  BY Types, ClientIs DEF IInv
<1>2. cs' = StartIfNeeded(listening)
  BY DEF Listen
<1>3. IsTable(tokens, Tokens(n))
  BY <1>1, PutTable
<1> HIDE DEF n, tokens
<1>4. /\ IsClient(listening, n) /\ listening.states = cs.states /\ listening.resets = cs.resets
      /\ listening.requests = cs.requests /\ listening.responses = cs.responses
      /\ listening.stream = cs.stream /\ listening.idle = cs.idle /\ listening.enabled = cs.enabled
  BY <1>1, <1>3, TokensReplaced
<1> HIDE DEF listening
<1>5. NothingOfCall(listening) /\ CallOver(listening)
  BY <1>1, <1>4 DEF CallOver, NothingOfCall
<1>6. \/ listening.stream = "Stopped"
      \/ /\ listening.stream # "Stopped" /\ listening.enabled
         /\ listening.idle => DOMAIN listening.tokens = {}
  BY <1>1, <1>4, <1>5 DEF StreamAsNeeded, NothingOfCall
<1>7. cs' = listening \/ NothingOfCall(cs')
  BY <1>1, <1>2, <1>4, <1>5, <1>6, StartIfNeededIs
<1>8. cs'.stream # "Open"
  BY <1>1, <1>2, <1>4, StartedIsNotOpen
<1> QED
  BY <1>5, <1>7, <1>8

\* A target just listened to is asked for with the token of its row.
LEMMA ListenSnap ==
  ASSUME IInv, Snap, IInv', NEW t \in Targets, Listen(t)
  PROVE  Snap'
<1> DEFINE token == cache[t].token
           n == Len(truth)
<1>1. /\ t \notin DOMAIN views
      /\ memory' = Put(memory, t, token)
      /\ views' = Put(views, t, [synced |-> cache[t].keys, current |-> FALSE])
      /\ UNCHANGED <<cache, lastRemote, truth, served, at>>
  BY DEF Listen, serverVars
<1>2. /\ DOMAIN views = DOMAIN cs.tokens /\ DOMAIN memory = DOMAIN cs.tokens
      /\ DOMAIN cs.tokens \subseteq Targets /\ n \in Nat /\ IsClient(cs, n)
      /\ IsTable(cs.tokens, Tokens(n)) /\ token \in Tokens(n)
      /\ cs.requests \in Seq(Requests(n))
  BY Types, ClientIs
<1> HIDE DEF n
<1>3. cs'.tokens = Put(cs.tokens, t, token)
  <2> DEFINE listening == [cs EXCEPT !.tokens = Put(cs.tokens, t, token)]
             asked == [u \in {t} |-> <<WatchRequest(t, token)>>]
  <2>1. cs' = Ask(listening, asked) \/ cs' = StartIfNeeded(listening)
    BY DEF Listen, SendWatchRequest
  <2>2. IsTable(Put(cs.tokens, t, token), Tokens(n))
    BY <1>2, PutTable
  <2>3. IsClient(listening, n) /\ listening.tokens = Put(cs.tokens, t, token)
    <3> HIDE DEF token
    <3> QED
      BY <1>2, <2>2, TokensReplaced
  <2> HIDE DEF listening, asked
  <2>4. Ask(listening, asked).tokens = listening.tokens
    BY <2>3, ClientIs DEF Ask
  <2>5. StartIfNeeded(listening).tokens = listening.tokens
    BY <1>2, <2>3, NoCallIs DEF StartIfNeeded
  <2> QED
    BY <2>1, <2>3, <2>4, <2>5
<1>4. /\ DOMAIN cs'.tokens = DOMAIN cs.tokens \cup {t} /\ cs'.tokens[t] = token
      /\ \A u \in DOMAIN cs.tokens \ {t} : cs'.tokens[u] = cs.tokens[u]
  BY <1>3 DEF Put
<1>5. memory'[t] = token /\ \A u \in DOMAIN memory \ {t} : memory'[u] = memory[u]
  BY <1>1 DEF Put
<1>6. /\ views'[t] = [synced |-> cache[t].keys, current |-> FALSE]
      /\ \A u \in DOMAIN views \ {t} : views'[u] = views[u]
  BY <1>1 DEF Put
<1>7. RowsDescribed'
  BY <1>1 DEF Snap, RowsDescribed, Describes
<1>8. TokensDescribed'
  <2> SUFFICES ASSUME NEW u \in DOMAIN cs'.tokens
               PROVE  /\ cs'.tokens[u] = memory'[u] /\ Describes(memory'[u], cache[u].keys, u)
                      /\ views'[u].current => memory'[u] # None
    BY <1>1 DEF TokensDescribed, Describes
  <2>1. CASE u = t
    BY <1>4, <1>5, <1>6, <2>1 DEF Snap, RowsDescribed
  <2>2. CASE u # t
    BY <1>2, <1>4, <1>5, <1>6, <2>2 DEF Snap, TokensDescribed
  <2> QED
    BY <2>1, <2>2
<1>9. CASE cs.stream # "Open"
  BY <1>7, <1>8, <1>9, ListenWithoutCall, NothingIsSaid DEF Snap
<1>10. CASE cs.stream = "Open"
  <2> DEFINE q == WatchRequest(t, token)
  <2>1. /\ cs'.requests = cs.requests \o InSomeOrder([u \in {t} |-> <<q>>])
        /\ q \in Requests(n) /\ q.target = t
        /\ cs'.responses = cs.responses /\ cs'.resets = cs.resets
        /\ DOMAIN cs'.states = DOMAIN cs.states \cup {t}
        /\ \A u \in Targets \ {t} :
             /\ StateOf(cs', u).changes = StateOf(cs, u).changes
             /\ StateOf(cs', u).outstanding = StateOf(cs, u).outstanding
    BY <1>10, ListenAsks DEF n, WatchRequest
  <2> HIDE DEF q, token
  <2>2. ASSUME NEW u \in DOMAIN cs.tokens
        PROVE  /\ u # t /\ u \in Targets
               /\ Followed(u) => Followed(u)'
               /\ Pending(u) => Pending(u)'
               /\ Held(u)' = Held(u)
    <3>1. u # t /\ u \in Targets /\ cs'.tokens[u] = cs.tokens[u]
      BY <1>1, <1>2, <1>4
    <3>2. StateOf(cs', u).changes = StateOf(cs, u).changes
      BY <2>1, <3>1
    <3>3. cache'[u].keys = cache[u].keys /\ UNCHANGED <<lastRemote, truth, served>>
      BY <1>1
    <3>4. cs.requests \in Seq(Requests(n))
      BY <1>2
    <3>5. /\ cs'.requests = cs.requests \o InSomeOrder([z \in {t} |-> <<q>>])
          /\ q \in Requests(n) /\ q.target = t
          /\ cs'.responses = cs.responses /\ cs'.resets = cs.resets
      BY ONLY <2>1
    <3>6. (Followed(u) => Followed(u)') /\ (Pending(u) => Pending(u)') /\ Held(u)' = Held(u)
      <4>1. u # t /\ cs'.tokens[u] = cs.tokens[u] /\ cache'[u].keys = cache[u].keys
        BY ONLY <3>1, <3>3
      <4> QED
        BY ONLY <3>2, <3>3, <3>4, <3>5, <4>1, OthersStay
    <3> QED
      BY ONLY <3>1, <3>6
  <2>3. ResetsClosing'
    <3> SUFFICES ASSUME NEW u \in cs.resets
                 PROVE  /\ u \in DOMAIN cs'.tokens /\ IsActive(cs', u)
                        /\ Held(u)' = {} /\ Closing(cs.responses, u, 0, lastRemote)
      BY <1>1, <2>1 DEF ResetsClosing
    <3>1. /\ u \in DOMAIN cs.tokens /\ IsActive(cs, u)
          /\ Held(u) = {} /\ Closing(cs.responses, u, 0, lastRemote)
      BY DEF Snap, ResetsClosing
    <3> QED
      BY <1>4, <2>1, <2>2, <3>1 DEF IsActive
  <2>4. InOrderAnnounced'
    BY <1>1, <2>1 DEF Snap, InOrderAnnounced
  <2>5. Pending(t)'
    <3> DEFINE asked == [u \in {t} |-> <<q>>]
    <3>1. AsksFor(cs.requests, asked, {t}, t)
      <4>1. asked \in [{t} -> Seq(Requests(n))] /\ asked[t] = <<q>>
        BY <2>1
      <4>2. \A z \in {t} : \A j \in 1 .. Len(asked[z]) : asked[z][j].target = z
        BY <2>1, <4>1
      <4>3. IsFiniteSet({t})
        BY FS_Singleton
      <4> HIDE DEF asked
      <4> QED
        BY <1>2, <4>1, <4>2, <4>3, AskedIs
    <3>2. asked[t] = <<q>> /\ Len(asked[t]) = 1 /\ asked[t][1] = WatchRequest(t, token)
      BY DEF q
    <3> HIDE DEF asked
    <3>3. AskedLast(cs'.requests, t, token)
      BY <2>1, <3>1, <3>2 DEF AsksFor, asked
    <3> QED
      BY <1>4, <3>3, PendingIs
  <2>6. AskedOrFollowed'
    <3> SUFFICES ASSUME NEW u \in DOMAIN cs'.tokens
                 PROVE  u \in DOMAIN cs'.states /\ (Pending(u)' \/ Followed(u)')
      BY DEF AskedOrFollowed
    <3>1. CASE u = t
      BY <2>1, <2>5, <3>1
    <3>2. CASE u # t
      BY <1>4, <1>10, <2>1, <2>2, <3>2 DEF Snap, AskedOrFollowed
    <3> QED
      BY <3>1, <3>2
  <2> QED
    BY <1>7, <1>8, <2>3, <2>4, <2>6 DEF Snap
<1> QED
  BY <1>9, <1>10

\* The client after a target is no longer listened to.
LEMMA StopAsks ==
  ASSUME IInv, NEW t \in Targets, StopListening(t)
  PROVE  /\ cs'.tokens = Without(cs.tokens, t)
         /\ cs.stream # "Open" => NothingOfCall(cs') /\ cs'.stream # "Open"
         /\ cs.stream = "Open" =>
              /\ cs'.requests = cs.requests \o InSomeOrder([u \in {t} |-> <<UnwatchRequest(t)>>])
              /\ UnwatchRequest(t) \in Requests(Len(truth))
              /\ cs'.responses = cs.responses /\ cs'.resets = cs.resets
              /\ DOMAIN cs'.states = DOMAIN cs.states \cup {t}
              /\ \A u \in Targets \ {t} :
                   /\ StateOf(cs', u).changes = StateOf(cs, u).changes
                   /\ StateOf(cs', u).outstanding = StateOf(cs, u).outstanding
<1> DEFINE n == Len(truth)
           tokens == Without(cs.tokens, t)
           stopped == [cs EXCEPT !.tokens = tokens]
           told == IF cs.stream = "Open" THEN SendUnwatchRequest(stopped, t) ELSE stopped
           q == UnwatchRequest(t)
           asked == [u \in {t} |-> <<q>>]
<1>1. /\ n \in Nat /\ IsClient(cs, n) /\ IsTable(cs.tokens, Tokens(n)) /\ CallOver(cs)
  BY Types, ClientIs DEF IInv
<1>2. cs' = IF DOMAIN told.tokens = {} /\ told.stream = "Open"
            THEN [told EXCEPT !.idle = TRUE] ELSE told
  BY DEF StopListening
<1>3. IsTable(tokens, Tokens(n))
  BY <1>1, WithoutTable
<1> HIDE DEF n, tokens
<1>4. /\ IsClient(stopped, n) /\ stopped.tokens = tokens
      /\ stopped.states = cs.states /\ stopped.resets = cs.resets
      /\ stopped.stream = cs.stream /\ stopped.idle = cs.idle
      /\ stopped.requests = cs.requests /\ stopped.responses = cs.responses
  BY <1>1, <1>3, TokensReplaced
<1> HIDE DEF stopped
<1>5. q \in Requests(n) /\ q.target = t
  BY <1>1 DEF UnwatchRequest, Requests, None, Tokens
<1>6. CASE cs.stream # "Open"
  <2>1. told = stopped
    BY <1>6
  <2>2. cs' = stopped /\ NothingOfCall(stopped)
    BY <1>1, <1>2, <1>4, <1>6, <2>1 DEF CallOver, NothingOfCall
  <2> QED
    BY <1>4, <1>6, <2>2 DEF tokens
<1>7. CASE cs.stream = "Open"
  <2>1. told = Ask(stopped, asked)
    BY <1>7 DEF SendUnwatchRequest
  <2> HIDE DEF told, q
  <2>2. Asks(stopped, told, {t}, asked, n)
    BY <1>1, <1>4, <1>5, <2>1, AskOne
  <2> HIDE DEF asked
  <2>3. IsClient(told, n)
    BY <2>2 DEF Asks
  <2>4. /\ cs'.tokens = told.tokens /\ cs'.requests = told.requests
        /\ cs'.responses = told.responses /\ cs'.resets = told.resets /\ cs'.states = told.states
    <3>1. told = [tokens |-> told.tokens, states |-> told.states, resets |-> told.resets,
                  enabled |-> told.enabled, stream |-> told.stream, idle |-> told.idle,
                  requests |-> told.requests, responses |-> told.responses]
      BY <2>3, ClientIs
    <3>2. CASE cs' = told
      BY <3>2
    <3>3. CASE cs' = [told EXCEPT !.idle = TRUE]
      <4>1. cs' = [tokens |-> told.tokens, states |-> told.states, resets |-> told.resets,
                   enabled |-> told.enabled, stream |-> told.stream, idle |-> TRUE,
                   requests |-> told.requests, responses |-> told.responses]
        BY <3>1, <3>3
      <4> QED
        BY <4>1
    <3> QED
      BY <1>2, <3>2, <3>3
  <2>5. \A u \in Targets :
          /\ StateOf(told, u).changes = StateOf(stopped, u).changes
          /\ u \notin {t} => StateOf(told, u).outstanding = StateOf(stopped, u).outstanding
    BY <1>1, <1>4, <2>2, AsksLeave
  <2>6. \A u : StateOf(stopped, u) = StateOf(cs, u) /\ StateOf(cs', u) = StateOf(told, u)
    BY <1>4, <2>4 DEF StateOf
  <2> QED
    BY <1>4, <1>5, <1>7, <2>2, <2>4, <2>5, <2>6 DEF Asks, asked, q, n, tokens
<1> QED
  BY <1>6, <1>7

\* A target released keeps, in its row, the token it had in memory.
LEMMA StopListeningSnap ==
  ASSUME IInv, Snap, ~SplitResets, NEW t \in Targets, StopListening(t)
  PROVE  Snap'
<1> DEFINE n == Len(truth)
<1>1. /\ t \in DOMAIN views /\ t \notin cs.resets /\ views' = Without(views, t)
      /\ memory' = Without(memory, t) /\ cache' = [cache EXCEPT ![t].token = memory[t]]
      /\ UNCHANGED <<lastRemote, truth, served, at>>
  BY DEF StopListening, Release, serverVars
<1>2. /\ DOMAIN views = DOMAIN cs.tokens /\ DOMAIN memory = DOMAIN cs.tokens
      /\ DOMAIN cs.tokens \subseteq Targets /\ n \in Nat /\ IsClient(cs, n)
      /\ cs.requests \in Seq(Requests(n)) /\ cache \in [Targets -> Rows(n)]
  BY Types, ClientIs DEF IInv, Typed
<1> HIDE DEF n
<1>3. /\ \A u \in Targets : cache'[u].keys = cache[u].keys
      /\ cache'[t].token = memory[t]
      /\ \A u \in Targets \ {t} : cache'[u].token = cache[u].token
  BY <1>1, <1>2 DEF Rows
<1>4. cs'.tokens = Without(cs.tokens, t)
  BY StopAsks
<1>5. /\ DOMAIN cs'.tokens = DOMAIN cs.tokens \ {t}
      /\ \A u \in DOMAIN cs'.tokens : /\ u # t /\ u \in DOMAIN cs.tokens /\ u \in Targets
                                      /\ cs'.tokens[u] = cs.tokens[u] /\ memory'[u] = memory[u]
                                      /\ views'[u] = views[u]
  <2>1. DOMAIN cs'.tokens = DOMAIN cs.tokens \ {t}
        /\ \A u \in DOMAIN cs.tokens \ {t} : cs'.tokens[u] = cs.tokens[u]
    BY <1>4 DEF Without, Restrict
  <2>2. \A u \in DOMAIN memory \ {t} : memory'[u] = memory[u]
    BY <1>1, WithoutTable
  <2>3. \A u \in DOMAIN views \ {t} : views'[u] = views[u]
    BY <1>1, WithoutTable
  <2> QED
    BY <1>2, <2>1, <2>2, <2>3
<1>6. RowsDescribed'
  <2> SUFFICES ASSUME NEW u \in Targets PROVE Describes(cache'[u].token, cache[u].keys, u)
    BY <1>1, <1>3 DEF RowsDescribed, Describes
  <2>1. CASE u = t
    BY <1>1, <1>2, <1>3, <2>1 DEF Snap, TokensDescribed
  <2>2. CASE u # t
    BY <1>3, <2>2 DEF Snap, RowsDescribed
  <2> QED
    BY <2>1, <2>2
<1>7. TokensDescribed'
  BY <1>1, <1>3, <1>5 DEF Snap, TokensDescribed, Describes
<1>8. CASE cs.stream # "Open"
  BY <1>6, <1>7, <1>8, StopAsks, NothingIsSaid DEF Snap
<1>9. CASE cs.stream = "Open"
  <2> DEFINE q == UnwatchRequest(t)
  <2>1. /\ cs'.requests = cs.requests \o InSomeOrder([u \in {t} |-> <<q>>])
        /\ q \in Requests(n) /\ q.target = t
        /\ cs'.responses = cs.responses /\ cs'.resets = cs.resets
        /\ DOMAIN cs'.states = DOMAIN cs.states \cup {t}
        /\ \A u \in Targets \ {t} :
             /\ StateOf(cs', u).changes = StateOf(cs, u).changes
             /\ StateOf(cs', u).outstanding = StateOf(cs, u).outstanding
    BY <1>9, StopAsks DEF n, UnwatchRequest
  <2> HIDE DEF q
  <2>2. ASSUME NEW u \in DOMAIN cs'.tokens
        PROVE  /\ Followed(u) => Followed(u)'
               /\ Pending(u) => Pending(u)'
               /\ Held(u)' = Held(u)
    <3>1. u # t /\ u \in Targets /\ cs'.tokens[u] = cs.tokens[u] /\ cache'[u].keys = cache[u].keys
      BY <1>3, <1>5
    <3>2. StateOf(cs', u).changes = StateOf(cs, u).changes
      BY <2>1, <3>1
    <3>3. cache'[u].keys = cache[u].keys /\ UNCHANGED <<lastRemote, truth, served>>
      BY <1>1
    <3>4. cs.requests \in Seq(Requests(n))
      BY <1>2
    <3>5. /\ cs'.requests = cs.requests \o InSomeOrder([z \in {t} |-> <<q>>])
          /\ q \in Requests(n) /\ q.target = t
          /\ cs'.responses = cs.responses /\ cs'.resets = cs.resets
      BY ONLY <2>1
    <3>6. (Followed(u) => Followed(u)') /\ (Pending(u) => Pending(u)') /\ Held(u)' = Held(u)
      <4>1. u # t /\ cs'.tokens[u] = cs.tokens[u] /\ cache'[u].keys = cache[u].keys
        BY ONLY <3>1, <3>3
      <4> QED
        BY ONLY <3>2, <3>3, <3>4, <3>5, <4>1, OthersStay
    <3> QED
      BY ONLY <3>1, <3>6
  <2>3. ResetsClosing'
    <3> SUFFICES ASSUME NEW u \in cs.resets
                 PROVE  /\ u \in DOMAIN cs'.tokens /\ IsActive(cs', u)
                        /\ Held(u)' = {} /\ Closing(cs.responses, u, 0, lastRemote)
      BY <1>1, <2>1 DEF ResetsClosing
    <3>1. /\ u \in DOMAIN cs.tokens /\ IsActive(cs, u) /\ u # t
          /\ Held(u) = {} /\ Closing(cs.responses, u, 0, lastRemote)
      BY <1>1 DEF Snap, ResetsClosing
    <3>2. u \in DOMAIN cs'.tokens /\ u \in Targets \ {t}
      BY <1>5, <3>1, <1>2
    <3> QED
      BY <2>1, <2>2, <3>1, <3>2 DEF IsActive
  <2>4. InOrderAnnounced'
    BY <1>1, <2>1 DEF Snap, InOrderAnnounced
  <2>5. AskedOrFollowed'
    BY <1>5, <1>9, <2>1, <2>2 DEF Snap, AskedOrFollowed
  <2> QED
    BY <1>6, <1>7, <2>3, <2>4, <2>5 DEF Snap
<1> QED
  BY <1>8, <1>9

(***************************************************************************)
(* The backend answers and sends.                                          *)
(***************************************************************************)

\* What the backend adds to the wire leaves all but what is asked or followed as it was.
LEMMA WireSnap ==
  ASSUME IInv, Snap, NEW n, n = Len(truth), NEW requests \in Seq(Requests(n)),
         NEW s \in Seq(Responses(n)), NEW m \in Responses(n),
         Rewired(cs, cs', requests, cs.responses \o Append(s, m)),
         UNCHANGED <<views, memory, cache, lastRemote, truth>>,
         \A i \in 1 .. Len(s) : s[i].type # "NoChange",
         at' \in Nat, at <= at',
         m.type = "NoChange" => at <= m.token /\ m.token <= at'
  PROVE  /\ RowsDescribed' /\ TokensDescribed' /\ ResetsClosing' /\ InOrderAnnounced'
         /\ cs'.requests = requests /\ cs'.responses = cs.responses \o Append(s, m)
         /\ cs'.tokens = cs.tokens /\ cs'.states = cs.states
         /\ \A t : Held(t)' = Held(t) /\ (t \in cs'.resets <=> t \in cs.resets)
<1> DEFINE r == cs.responses
           more == Append(s, m)
<1>1. /\ n \in Nat /\ IsClient(cs, n) /\ r \in Seq(Responses(n)) /\ at \in Nat
  BY Types, ClientIs DEF IInv, Typed
<1>2. more \in Seq(Responses(n)) /\ r \o more \in Seq(Responses(n))
  BY <1>1
<1>3. /\ cs'.requests = requests /\ cs'.responses = r \o more
      /\ cs'.tokens = cs.tokens /\ cs'.states = cs.states /\ cs'.resets = cs.resets
  <2> DEFINE all == r \o more
  <2>1. Rewired(cs, cs', requests, all)
    OBVIOUS
  <2>2. n \in Nat /\ IsClient(cs, n) /\ requests \in Seq(Requests(n)) /\ all \in Seq(Responses(n))
    BY <1>1, <1>2
  <2> HIDE DEF r, more, all
  <2>3. /\ cs'.requests = requests /\ cs'.responses = all
        /\ cs'.tokens = cs.tokens /\ cs'.states = cs.states /\ cs'.resets = cs.resets
    BY ONLY <2>1, <2>2, WireReplaced
  <2> QED
    BY <2>3 DEF all
<1>4. \A t : Held(t)' = Held(t) /\ StateOf(cs', t) = StateOf(cs, t)
  BY <1>3 DEF Held, StateOf
<1>5. RowsDescribed'
  BY DEF Snap, RowsDescribed, Describes
<1>6. TokensDescribed'
  BY <1>3 DEF Snap, TokensDescribed, Describes
<1>7. ResetsClosing'
  <2> SUFFICES ASSUME NEW t \in cs.resets
               PROVE  /\ t \in DOMAIN cs.tokens /\ IsActive(cs', t)
                      /\ Held(t)' = {} /\ Closing(r \o more, t, 0, lastRemote)
    BY <1>3 DEF ResetsClosing
  <2>1. /\ t \in DOMAIN cs.tokens /\ IsActive(cs, t)
        /\ Held(t) = {} /\ Closing(r, t, 0, lastRemote)
    BY DEF Snap, ResetsClosing
  <2>2. 0 \in 0 .. Len(r)
    BY <1>1
  <2> HIDE DEF r, more
  <2>3. Closing(r \o more, t, 0, lastRemote)
    BY <1>1, <1>2, <2>1, <2>2, ClosingExtends
  <2> QED
    BY <1>3, <1>4, <2>1, <2>3 DEF IsActive
<1>8. InOrderAnnounced'
  <2> DEFINE l == Len(s)
  <2>1. /\ Len(r) \in Nat /\ l \in Nat /\ Len(r \o more) = Len(r) + l + 1
        /\ \A i \in 1 .. Len(r) : (r \o more)[i] = r[i]
        /\ (r \o more)[Len(r) + l + 1] = m
        /\ \A i \in Len(r) + 1 .. Len(r) + l : (r \o more)[i] = s[i - Len(r)] /\ i - Len(r) \in 1 .. l
    <3>1. Len(r) \in Nat /\ l \in Nat /\ Len(more) = l + 1 /\ more[l + 1] = m
          /\ \A j \in 1 .. l : more[j] = s[j]
      BY <1>1
    <3> HIDE DEF more, r, l
    <3>0. r \in Seq(Responses(n)) /\ more \in Seq(Responses(n))
      BY <1>1, <1>2
    <3>2. Len(r \o more) = Len(r) + Len(more)
      BY <3>0
    <3>3. \A i \in 1 .. Len(r) : (r \o more)[i] = r[i]
      BY ONLY <3>0, ConcatAt
    <3>4. \A i \in 1 .. Len(more) : (r \o more)[Len(r) + i] = more[i]
      BY ONLY <3>0, ConcatAt
    <3>5. ASSUME NEW i \in Len(r) + 1 .. Len(r) + l
          PROVE  (r \o more)[i] = s[i - Len(r)] /\ i - Len(r) \in 1 .. l
      <4>1. i - Len(r) \in 1 .. l /\ i - Len(r) \in 1 .. Len(more) /\ i = Len(r) + (i - Len(r))
        BY <3>1
      <4> QED
        BY <3>1, <3>4, <4>1
    <3>6. (r \o more)[Len(r) + l + 1] = m
      <4>1. l + 1 \in 1 .. Len(more) /\ Len(r) + l + 1 = Len(r) + (l + 1)
        BY <3>1
      <4> QED
        BY <3>1, <3>4, <4>1
    <3> QED
      BY <3>1, <3>2, <3>3, <3>5, <3>6
  <2>2. \A i, j \in 1 .. Len(r) : r[i].type = "NoChange" /\ r[j].type = "NoChange" /\ i <= j =>
            r[i].token <= r[j].token /\ r[j].token <= at
    BY DEF Snap, InOrderAnnounced
  <2>3. \A i \in 1 .. Len(r) : r[i].type = "NoChange" => r[i].token \in Nat
    <3> SUFFICES ASSUME NEW i \in 1 .. Len(r), r[i].type = "NoChange" PROVE r[i].token \in Nat
      OBVIOUS
    <3>1. r[i] \in Responses(n)
      BY <1>1
    <3>2. r[i].token \in 1 .. n
      BY <1>1, <3>1, ResponseFields
    <3> QED
      BY <1>1, <3>2
  <2>4. m.type = "NoChange" => m.token \in Nat
    <3>1. m.type = "NoChange" => m.token \in 1 .. n
      BY <1>1, ResponseFields
    <3> QED
      BY <1>1, <3>1
  <2> SUFFICES ASSUME NEW i \in 1 .. Len(r \o more), NEW j \in 1 .. Len(r \o more),
                      (r \o more)[i].type = "NoChange", (r \o more)[j].type = "NoChange", i <= j
               PROVE  (r \o more)[i].token <= (r \o more)[j].token /\ (r \o more)[j].token <= at'
    BY <1>3 DEF InOrderAnnounced
  <2> HIDE DEF more, r, l
  <2>5. ASSUME NEW x \in 1 .. Len(r \o more), (r \o more)[x].type = "NoChange"
        PROVE  x \in 1 .. Len(r) \/ (x = Len(r) + l + 1 /\ (r \o more)[x] = m)
    <3>1. CASE x \in Len(r) + 1 .. Len(r) + l
      BY <2>1, <2>5, <3>1 DEF l
    <3>2. CASE x = Len(r) + l + 1
      BY ONLY <2>1, <3>2
    <3>3. x \in 1 .. Len(r) \/ x \in Len(r) + 1 .. Len(r) + l \/ x = Len(r) + l + 1
      <4>1. Len(r) \in Nat /\ l \in Nat /\ x \in 1 .. Len(r) + l + 1
        BY ONLY <2>1, x \in 1 .. Len(r \o more)
      <4> QED
        BY ONLY <4>1
    <3> QED
      BY ONLY <3>1, <3>2, <3>3
  <2>6. CASE j \in 1 .. Len(r)
    <3>1. i \in 1 .. Len(r)
      BY <2>1, <2>6
    <3>2. (r \o more)[i] = r[i] /\ (r \o more)[j] = r[j]
      BY <2>1, <2>6, <3>1
    <3> QED
      BY <1>1, <2>2, <2>3, <2>6, <3>1, <3>2
  <2>7. CASE j = Len(r) + l + 1 /\ (r \o more)[j] = m
    <3>1. m.type = "NoChange" /\ m.token \in Nat /\ at <= m.token /\ m.token <= at'
      BY <2>4, <2>7
    <3>2. CASE i \in 1 .. Len(r)
      <4>1. r[i].token <= at /\ r[i].token \in Nat /\ (r \o more)[i] = r[i]
        <5>1. (r \o more)[i] = r[i]
          BY <2>1, <3>2
        <5> QED
          BY <2>2, <2>3, <3>2, <5>1
      <4> QED
        BY <1>1, <2>7, <3>1, <4>1
    <3>3. CASE i = Len(r) + l + 1 /\ (r \o more)[i] = m
      BY <2>7, <3>1, <3>3
    <3> QED
      BY <2>5, <3>2, <3>3
  <2> QED
    BY <2>5, <2>6, <2>7
<1> QED
  BY <1>3, <1>4, <1>5, <1>6, <1>7, <1>8

\* When the first request is taken: it was the last for t, or the last for t is still there.
LEMMA AskedTail ==
  ASSUME NEW M, NEW r \in Seq(M), r # <<>>, NEW t, NEW token
  PROVE  /\ AskedLast(r, t, token) =>
              AskedLast(Tail(r), t, token) \/ (Head(r) = WatchRequest(t, token) /\ NoneOf(Tail(r), t))
         /\ NoneOf(r, t) => NoneOf(Tail(r), t) /\ Head(r).target # t
<1> DEFINE rest == Tail(r)
<1>1. /\ Len(r) \in Nat \ {0} /\ Len(rest) = Len(r) - 1 /\ Head(r) = r[1]
      /\ \A i \in 1 .. Len(r) - 1 : rest[i] = r[i + 1]
  BY TailIs
<1> HIDE DEF rest
<1>2. ASSUME NoneOf(r, t) PROVE NoneOf(rest, t) /\ Head(r).target # t
  <2>1. 1 \in 1 .. Len(r)
    BY <1>1
  <2>2. ASSUME NEW i \in 1 .. Len(rest) PROVE rest[i].target # t
    <3>1. i \in 1 .. Len(r) - 1 /\ i + 1 \in 1 .. Len(r)
      BY <1>1
    <3> QED
      BY <1>1, <1>2, <3>1 DEF NoneOf
  <2> QED
    BY <1>1, <1>2, <2>1, <2>2 DEF NoneOf
<1>3. ASSUME AskedLast(r, t, token)
      PROVE  AskedLast(rest, t, token) \/ (Head(r) = WatchRequest(t, token) /\ NoneOf(rest, t))
  <2>1. PICK i \in 1 .. Len(r) : /\ r[i] = WatchRequest(t, token)
                                 /\ \A j \in i + 1 .. Len(r) : r[j].target # t
    BY <1>3 DEF AskedLast
  <2>2. ASSUME NEW j \in i .. Len(rest) PROVE rest[j].target # t
    <3>1. j \in 1 .. Len(r) - 1 /\ j + 1 \in i + 1 .. Len(r)
      BY <1>1
    <3> QED
      BY <1>1, <2>1, <3>1
  <2>3. CASE i = 1
    <3>1. NoneOf(rest, t)
      BY <2>2, <2>3 DEF NoneOf
    <3> QED
      BY <1>1, <2>1, <2>3, <3>1
  <2>4. CASE i # 1
    <3>1. i - 1 \in 1 .. Len(r) - 1 /\ i - 1 \in 1 .. Len(rest) /\ (i - 1) + 1 = i
      BY <1>1, <2>4
    <3>2. rest[i - 1] = WatchRequest(t, token)
      BY <1>1, <2>1, <3>1
    <3>3. \A j \in (i - 1) + 1 .. Len(rest) : rest[j].target # t
      BY <2>2, <3>1
    <3> QED
      BY <3>1, <3>2, <3>3 DEF AskedLast
  <2> QED
    BY <2>3, <2>4
<1> QED
  BY <1>2, <1>3 DEF rest

\* A target the backend has just begun to serve is followed from its acknowledgement.
LEMMA FollowedStarts ==
  ASSUME NEW M, cs.responses \in Seq(M), NEW t \in Targets, NEW m \in M,
         m = [type |-> "Added", target |-> t], cs'.responses = cs.responses \o <<m>>,
         NoneOf(cs'.requests, t), t \in DOMAIN served', cache[t].keys \in SUBSET Keys,
         served'[t].keys = cache[t].keys, UNCHANGED cache
  PROVE  Followed(t)'
<1>0. PICK n \in Nat : n = Len(cs.responses)
  OBVIOUS
<1>1. Len(cs'.responses) = n + 1
  BY <1>0
<1>2. cs'.responses[n + 1] = m
  <2>1. \A j \in 1 .. Len(<<m>>) : (cs.responses \o <<m>>)[n + j] = <<m>>[j]
    <3>1. cs.responses \in Seq(M) /\ <<m>> \in Seq(M)
      OBVIOUS
    <3>2. \A j \in 1 .. Len(<<m>>) : (cs.responses \o <<m>>)[Len(cs.responses) + j] = <<m>>[j]
      BY ONLY <3>1, ConcatAt
    <3> QED
      BY <1>0, <3>2
  <2>2. 1 \in 1 .. Len(<<m>>) /\ <<m>>[1] = m
    OBVIOUS
  <2>3. (cs.responses \o <<m>>)[n + 1] = m
    BY ONLY <2>1, <2>2
  <2> QED
    BY <2>3
<1>3. PICK held \in [0 .. Len(cs'.responses) -> SUBSET Keys] : held[n + 1] = cache[t].keys
  <2>1. [i \in 0 .. n + 1 |-> cache[t].keys] \in [0 .. Len(cs'.responses) -> SUBSET Keys]
    BY <1>1
  <2>2. [i \in 0 .. n + 1 |-> cache[t].keys][n + 1] = cache[t].keys
    OBVIOUS
  <2> QED
    BY ONLY <2>1, <2>2
<1>4. /\ n + 1 \in 0 .. Len(cs'.responses) /\ n + 2 \in 0 .. Len(cs'.responses) + 1
      /\ n + 1 <= n + 2 /\ n + 1 # 0 /\ n + 2 > n + 1
      /\ (n + 1) + 1 .. Len(cs'.responses) = {} /\ n + 2 = Len(cs'.responses) + 1
  BY <1>1
<1>5. IsStart(t, n + 1)'
  BY <1>2, <1>4 DEF IsStart
<1>6. Starts(t, n + 1, n + 2, held)'
  BY <1>3, <1>4 DEF Starts
<1>7. Traces(cs'.responses, t, cache'[t].keys, n + 1, n + 2, held)
  BY <1>3, <1>4 DEF Traces
<1>8. Announced(t, n + 1, n + 2, held)'
  BY <1>1, <1>3, <1>4 DEF Announced
<1>9. FiltersFirst(t, n + 1)'
  BY <1>4 DEF FiltersFirst
<1>10. FollowedBy(t, n + 1, n + 2, held)'
  BY <1>5, <1>6, <1>7, <1>8, <1>9 DEF FollowedBy
<1>11. \A i \in 1 .. Len(cs'.requests) : cs'.requests[i].target # t
  BY DEF NoneOf
<1> QED
  BY <1>3, <1>4, <1>10, <1>11 DEF Followed

\* The backend takes a request and does not reject its target.
LEMMA RequestTaken ==
  ASSUME IInv, ServerTakesRequest, rejections' = 0, NEW q, q = Head(cs.requests)
  PROVE  /\ cs.stream = "Open" /\ cs.requests # <<>>
         /\ q.type \in {"Watch", "Unwatch"} /\ q.target \in Targets /\ q.token \in Tokens(Len(truth))
         /\ UNCHANGED <<views, memory, cache, lastRemote, truth>>
         /\ \E m : /\ m = [type |-> IF q.type = "Watch" THEN "Added" ELSE "Removed", target |-> q.target]
                   /\ Rewired(cs, cs', Tail(cs.requests), Append(cs.responses, m))
         /\ at' \in Nat /\ at <= at'
         /\ q.type = "Watch" =>
              /\ q.target \in DOMAIN served'
              /\ served'[q.target].keys = IF q.token = None THEN {} ELSE truth[q.token][q.target]
         /\ \A t \in DOMAIN served \ {q.target} : t \in DOMAIN served' /\ served'[t] = served[t]
<1> DEFINE n == Len(truth)
           t == q.target
<1>1. /\ n \in Nat /\ IsClient(cs, n) /\ cs.requests \in Seq(Requests(n)) /\ at \in Nat
  BY Types, ClientIs DEF IInv, Typed
<1>2. /\ cs.stream = "Open" /\ cs.requests # <<>>
      /\ UNCHANGED <<views, memory, cache, lastRemote, truth>>
  BY DEF ServerTakesRequest
<1>3. q \in Requests(n) /\ q.type \in {"Watch", "Unwatch"} /\ t \in Targets /\ q.token \in Tokens(n)
  <2>1. q \in Requests(n)
    BY <1>1, <1>2
  <2> QED
    BY <2>1 DEF Requests
<1>4. ASSUME NEW m, cs' = [cs EXCEPT !.requests = Tail(@), !.responses = Append(@, m)]
      PROVE  Rewired(cs, cs', Tail(cs.requests), Append(cs.responses, m))
  <2>1. Rewired(cs, [cs EXCEPT !.requests = Tail(@), !.responses = Append(@, m)],
                Tail(cs.requests), Append(cs.responses, m))
    BY <1>1, AnswerRewires
  <2> QED
    BY <1>4, <2>1
<1>5. ~Reject
  BY Counters
<1> HIDE DEF n
<1>6. CASE /\ q.type = "Watch"
           /\ cs' = [cs EXCEPT !.requests = Tail(@), !.responses = Append(@, [type |-> "Added", target |-> t])]
           /\ served' = Put(served, t,
                [keys |-> IF q.token = None THEN {} ELSE truth[q.token][t],
                 resumed |-> q.token # None, version |-> None])
           /\ at' = Later(at, q.token)
  <2>1. \E m : /\ m = [type |-> IF q.type = "Watch" THEN "Added" ELSE "Removed", target |-> q.target]
               /\ Rewired(cs, cs', Tail(cs.requests), Append(cs.responses, m))
    BY <1>4, <1>6
  <2>2. at' \in Nat /\ at <= at'
    BY <1>1, <1>3, <1>6 DEF Later, Tokens
  <2>3. /\ t \in DOMAIN served' /\ served'[t].keys = IF q.token = None THEN {} ELSE truth[q.token][t]
        /\ \A u \in DOMAIN served \ {t} : u \in DOMAIN served' /\ served'[u] = served[u]
    BY <1>6 DEF Put
  <2> QED
    BY <1>2, <1>3, <2>1, <2>2, <2>3 DEF n
<1>7. CASE /\ q.type = "Unwatch"
           /\ cs' = [cs EXCEPT !.requests = Tail(@), !.responses = Append(@, [type |-> "Removed", target |-> t])]
           /\ served' = Without(served, t) /\ at' = at
  <2>1. \E m : /\ m = [type |-> IF q.type = "Watch" THEN "Added" ELSE "Removed", target |-> q.target]
               /\ Rewired(cs, cs', Tail(cs.requests), Append(cs.responses, m))
    BY <1>4, <1>7
  <2>2. \A u \in DOMAIN served \ {t} : u \in DOMAIN served' /\ served'[u] = served[u]
    BY <1>7 DEF Without, Restrict
  <2> QED
    BY <1>1, <1>2, <1>3, <1>7, <2>1, <2>2 DEF n
<1> QED
  BY <1>5, <1>6, <1>7 DEF ServerTakesRequest

LEMMA ServerTakesRequestSnap ==
  ASSUME IInv, Snap, ServerTakesRequest, rejections' = 0
  PROVE  Snap'
<1>0. PICK n \in Nat : n = Len(truth)
  BY Types
<1> DEFINE q == Head(cs.requests)
           t == q.target
           rest == Tail(cs.requests)
<1>1. /\ IsClient(cs, n) /\ cs.requests \in Seq(Requests(n)) /\ cs.responses \in Seq(Responses(n))
      /\ DOMAIN cs.tokens \subseteq Targets /\ IsTable(served, Serves(n)) /\ lastRemote \in Nat
      /\ \A u \in Targets : cache[u].keys \in SUBSET Keys
  BY <1>0, Types, ClientIs DEF IInv, Typed
<1>2. /\ cs.stream = "Open" /\ cs.requests # <<>>
      /\ q.type \in {"Watch", "Unwatch"} /\ t \in Targets /\ q.token \in Tokens(n)
      /\ UNCHANGED <<views, memory, cache, lastRemote, truth>>
      /\ at' \in Nat /\ at <= at'
      /\ q.type = "Watch" => /\ t \in DOMAIN served'
                             /\ served'[t].keys = IF q.token = None THEN {} ELSE truth[q.token][t]
      /\ \A u \in DOMAIN served \ {t} : u \in DOMAIN served' /\ served'[u] = served[u]
  BY <1>0, RequestTaken
<1>3. PICK m : /\ m = [type |-> IF q.type = "Watch" THEN "Added" ELSE "Removed", target |-> t]
               /\ Rewired(cs, cs', rest, Append(cs.responses, m))
  BY RequestTaken
<1> HIDE DEF q
<1>4. m \in Responses(n) /\ m.type \in {"Added", "Removed"} /\ m.target = t
  BY <1>2, <1>3 DEF Responses
<1>5. rest \in Seq(Requests(n))
  BY <1>1, <1>2
<1> HIDE DEF t, rest
<1>6. Append(cs.responses, m) = cs.responses \o Append(<<>>, m) /\ Append(<<>>, m) = <<m>>
  BY <1>1, <1>4
<1>7. /\ <<>> \in Seq(Responses(n)) /\ \A i \in 1 .. Len(<<>>) : <<>>[i].type # "NoChange"
  BY EmptyTable
<1>8. /\ RowsDescribed' /\ TokensDescribed' /\ ResetsClosing' /\ InOrderAnnounced'
      /\ cs'.requests = rest /\ cs'.responses = cs.responses \o Append(<<>>, m)
      /\ cs'.tokens = cs.tokens /\ cs'.states = cs.states
      /\ \A u : Held(u)' = Held(u) /\ (u \in cs'.resets <=> u \in cs.resets)
  <2>1. Rewired(cs, cs', rest, cs.responses \o Append(<<>>, m))
    BY <1>3, <1>6
  <2>2. m.type # "NoChange"
    BY <1>4
  <2> QED
    BY <1>0, <1>2, <1>4, <1>5, <1>7, <2>1, <2>2, WireSnap
<1>9. ASSUME NEW u \in DOMAIN cs.tokens, AskedLast(cs.requests, u, cs.tokens[u])
      PROVE  Pending(u)' \/ Followed(u)'
  <2>1. CASE AskedLast(rest, u, cs.tokens[u])
    BY <1>8, <2>1, PendingIs
  <2>2. CASE q = WatchRequest(u, cs.tokens[u]) /\ NoneOf(rest, u)
    <3>1. q.type = "Watch" /\ t = u /\ q.token = cs.tokens[u]
      BY <2>2 DEF WatchRequest, t
    <3>2. Describes(cs.tokens[u], cache[u].keys, u)
      BY DEF Snap, TokensDescribed
    <3>3. u \in DOMAIN served' /\ served'[u].keys = cache[u].keys
      BY <1>2, <3>1, <3>2 DEF Describes, t
    <3>4. m = [type |-> "Added", target |-> u]
      BY <1>3, <3>1
    <3>5. NoneOf(cs'.requests, u) /\ cs'.responses = cs.responses \o <<m>>
      BY <1>6, <1>8, <2>2
    <3> QED
      BY <1>1, <1>2, <1>4, <3>3, <3>4, <3>5, FollowedStarts
  <2> QED
    BY <1>1, <1>2, <1>9, <2>1, <2>2, AskedTail DEF q, rest
<1>10. ASSUME NEW u \in DOMAIN cs.tokens, Followed(u) PROVE Followed(u)'
  <2>1. u \in Targets /\ NoneOf(cs.requests, u) /\ u \in DOMAIN served
    BY <1>1, <1>10 DEF Followed, NoneOf
  <2>2. NoneOf(rest, u) /\ t # u
    BY <1>1, <1>2, <2>1, AskedTail DEF q, t, rest
  <2>3. \A i \in 1 .. Len(cs'.requests) : cs'.requests[i].target # u
    BY <1>8, <2>2 DEF NoneOf
  <2>4. u \in DOMAIN served' /\ served'[u] = served[u]
    BY <1>2, <2>1, <2>2 DEF t
  <2>5. ~About(m, u) /\ ~IsAnswer(m, u)
    BY <1>4, <2>2 DEF About, IsAnswer
  <2>6. served[u].keys \in SUBSET Keys
    BY <1>1, <2>1 DEF IsTable, Serves
  <2>7. AddsFor(u, <<>>, m, served[u], served'[u])
    BY <1>4, <2>4, <2>5 DEF AddsFor
  <2>8. PICK k \in Nat : k = Len(cs.responses)
    BY <1>1
  <2>9. PICK old : old = served[u]
    OBVIOUS
  <2>10. old = served'[u] /\ old.keys \in SUBSET Keys /\ AddsFor(u, <<>>, m, old, old)
    BY <2>4, <2>6, <2>7, <2>9
  <2>11. Len(<<>>) = 0
    OBVIOUS
  <2> QED
    BY <1>1, <1>2, <1>4, <1>7, <1>8, <1>10, <2>3, <2>4, <2>5, <2>8, <2>9, <2>10, <2>11, FollowedGrows
<1>11. AskedOrFollowed'
  <2> SUFFICES ASSUME NEW u \in DOMAIN cs.tokens
               PROVE  u \in DOMAIN cs.states /\ (Pending(u)' \/ Followed(u)')
    BY <1>8 DEF AskedOrFollowed
  <2>1. u \in DOMAIN cs.states /\ (Pending(u) \/ Followed(u))
    BY <1>2 DEF Snap, AskedOrFollowed
  <2> QED
    BY <1>9, <1>10, <2>1, PendingIs
<1> QED
  BY <1>8, <1>11 DEF Snap

\* The update of one target, and that it has become current.
LEMMA OneUpdateSent ==
  ASSUME IInv, ~Collisions, ~SplitResets, NEW n, n = Len(truth), NEW v \in 1 .. n,
         NEW t \in DOMAIN served, NEW u \in Updates(t, v),
         NEW cur, cur = <<>> \/ cur = <<[type |-> "Current", target |-> t, token |-> v]>>,
         NEW synced \in SUBSET Keys, served[t].version = None => served[t].keys = synced
  PROVE  /\ u \o cur \in Seq(Passive(n))
         /\ BringsUp(u \o cur, t, v, synced, served[t].keys, truth[v][t])
         /\ AllFor(u \o cur, t)
<1>1. /\ t \in Targets /\ served[t].keys \in SUBSET Keys
      /\ truth[v][t] \in SUBSET Keys
  <2>1. IsTable(served, Serves(n)) /\ truth \in Seq([Targets -> SUBSET Keys])
    BY DEF IInv, Typed
  <2>2. t \in Targets /\ served[t] \in Serves(n)
    BY <2>1 DEF IsTable
  <2>3. truth[v] \in [Targets -> SUBSET Keys]
    BY <2>1
  <2> QED
    BY <2>2, <2>3 DEF Serves
<1>2. u \in Seq(Passive(n))
  BY UpdatesArePassive
<1>3. IsUpdate(u, t, v, served[t].keys, truth[v][t])
  BY UpdatesAre
<1>4. PICK old, new : old = served[t].keys /\ new = truth[v][t]
  OBVIOUS
<1>5. /\ u \o cur \in Seq(Passive(n)) /\ BringsUp(u \o cur, t, v, synced, old, new)
      /\ AllFor(u \o cur, t)
  <2>1. /\ old \in SUBSET Keys /\ new \in SUBSET Keys /\ IsUpdate(u, t, v, old, new)
        /\ served[t].version = None => old = synced
    BY <1>1, <1>3, <1>4
  <2>2. /\ t \in Targets /\ v \in 1 .. n /\ u \in Seq(Passive(n)) /\ synced \in SUBSET Keys
        /\ cur = <<>> \/ cur = <<[type |-> "Current", target |-> t, token |-> v]>>
    BY <1>1, <1>2
  <2>3. u \o cur \in Seq(Passive(n))
    BY ONLY <2>1, <2>2, OneTargetBroughtUp
  <2>4. BringsUp(u \o cur, t, v, synced, old, new)
    BY ONLY <2>1, <2>2, OneTargetBroughtUp
  <2>5. AllFor(u \o cur, t)
    BY ONLY <2>1, <2>2, OneTargetBroughtUp
  <2> QED
    BY <2>3, <2>4, <2>5
<1> QED
  BY <1>4, <1>5

\* What the backend sends to bring every target to a version, and what it has then sent.
CatchesUp(s, v, n) ==
  /\ v \in 1 .. n /\ at <= v /\ at' = v /\ s \in Seq(Passive(n))
  /\ Respond(Append(s, [type |-> "NoChange", token |-> v]))
  /\ DOMAIN served' = DOMAIN served
  /\ \A t \in DOMAIN served : served'[t].keys = truth[v][t] /\ served'[t].version = v
  /\ \A i \in 1 .. Len(s) : s[i].type # "NoChange"
  /\ \A t \in DOMAIN served, synced \in SUBSET Keys :
       (served[t].version = None => served[t].keys = synced)
         => BringsUp(s, t, v, synced, served[t].keys, truth[v][t])

LEMMA AllCaughtUp ==
  ASSUME IInv, ~Collisions, ~SplitResets, ServerCatchesUp, NEW n, n = Len(truth)
  PROVE  \E s, v : CatchesUp(s, v, n)
<1> DEFINE P == Passive(n)
           D == DOMAIN served
           current(update, v, t) ==
             IF served[t].version # None /\ (update[t] = <<>> \/ Head(update[t]).type # "Reset")
             THEN <<>> ELSE <<[type |-> "Current", target |-> t, token |-> v]>>
           seqs(update, v) == [t \in D |-> update[t] \o current(update, v, t)]
           all(update, v) == InSomeOrder(seqs(update, v))
<1>1. PICK v \in at .. n :
        /\ \E update \in [D -> UNION {Updates(t, v) : t \in D}] :
             /\ \A t \in D : update[t] \in Updates(t, v)
             /\ Respond(Append(all(update, v), [type |-> "NoChange", token |-> v]))
        /\ served' = [t \in D |-> [keys |-> truth[v][t], resumed |-> served[t].resumed, version |-> v]]
        /\ at' = v
  BY DEF ServerCatchesUp
<1>2. PICK update : /\ \A t \in D : update[t] \in Updates(t, v)
                    /\ Respond(Append(all(update, v), [type |-> "NoChange", token |-> v]))
  BY <1>1
<1>3. D # {}
  BY DEF ServerCatchesUp
<1>4. n \in Nat /\ IsTable(served, Serves(n)) /\ at \in 1 .. n
  BY Types DEF IInv, Typed
<1>5. v \in 1 .. n /\ at <= v /\ D \subseteq Targets /\ IsFiniteSet(D)
      /\ \A t \in D : served[t].keys \in SUBSET Keys
  <2>1. D \subseteq Targets
    BY <1>4 DEF IsTable
  <2>2. IsFiniteSet(D)
    BY <2>1, FS_Subset, WatchConstants DEF WatchConstants
  <2> QED
    BY <1>1, <1>4, <2>1, <2>2 DEF IsTable, Serves
<1>6. /\ DOMAIN served' = DOMAIN served
      /\ \A t \in DOMAIN served : served'[t].keys = truth[v][t] /\ served'[t].version = v
  BY <1>1
<1>7. PICK parts : parts = seqs(update, v)
  OBVIOUS
<1>8. ASSUME NEW t \in D, NEW synced \in SUBSET Keys, served[t].version = None => served[t].keys = synced
      PROVE  /\ parts[t] \in Seq(P) /\ BringsUp(parts[t], t, v, synced, served[t].keys, truth[v][t])
             /\ AllFor(parts[t], t)
  <2>1. PICK u \in Updates(t, v) : u = update[t]
    BY <1>2
  <2>2. PICK cur : /\ cur = current(update, v, t)
                   /\ cur = <<>> \/ cur = <<[type |-> "Current", target |-> t, token |-> v]>>
    OBVIOUS
  <2>3. parts[t] = u \o cur
    BY <1>7, <2>1, <2>2
  <2> HIDE DEF seqs, current, all, D
  <2>4. /\ u \o cur \in Seq(P) /\ BringsUp(u \o cur, t, v, synced, served[t].keys, truth[v][t])
        /\ AllFor(u \o cur, t)
    <3>1. /\ IInv /\ ~Collisions /\ ~SplitResets /\ n = Len(truth) /\ v \in 1 .. n
          /\ t \in DOMAIN served /\ u \in Updates(t, v) /\ synced \in SUBSET Keys
          /\ served[t].version = None => served[t].keys = synced
      BY <1>5, <1>8, <2>1 DEF D
    <3>2. u \o cur \in Seq(Passive(n))
      BY ONLY <2>2, <3>1, OneUpdateSent
    <3>3. BringsUp(u \o cur, t, v, synced, served[t].keys, truth[v][t])
      BY ONLY <2>2, <3>1, OneUpdateSent
    <3>4. AllFor(u \o cur, t)
      BY ONLY <2>2, <3>1, OneUpdateSent
    <3> QED
      BY <3>2, <3>3, <3>4 DEF P
  <2> QED
    BY <2>3, <2>4
<1>9. parts = [t \in D |-> parts[t]]
  BY <1>7
<1>10. all(update, v) = InSomeOrder(parts)
  BY <1>7
<1> HIDE DEF seqs, current, all, D, P
<1>11. ASSUME NEW t \in D
       PROVE  /\ parts[t] \in Seq(P) /\ BringsUp(parts[t], t, v, served[t].keys, served[t].keys, truth[v][t])
              /\ AllFor(parts[t], t)
  BY <1>5, <1>8
<1>12. parts \in [D -> Seq(P)]
  BY ONLY <1>9, <1>11
<1>13. \A u \in D : \A i \in 1 .. Len(parts[u]) :
           parts[u][i].target = u /\ parts[u][i].type # "NoChange"
  BY <1>11 DEF BringsUp, AllFor
<1>14. ASSUME NEW t \in D, NEW synced \in SUBSET Keys, served[t].version = None => served[t].keys = synced
       PROVE  BringsUp(InSomeOrder(parts), t, v, synced, served[t].keys, truth[v][t])
  <2>1. BringsUp(parts[t], t, v, synced, served[t].keys, truth[v][t])
    BY <1>8, <1>14
  <2>2. truth[v][t] \in SUBSET Keys
    <3>1. truth \in Seq([Targets -> SUBSET Keys])
      BY DEF IInv, Typed
    <3>2. truth[v] \in [Targets -> SUBSET Keys]
      BY <1>5, <3>1
    <3> QED
      BY <1>5, <3>2
  <2>3. PICK old \in SUBSET Keys, new \in SUBSET Keys : old = served[t].keys /\ new = truth[v][t]
    BY <1>5, <2>2
  <2>4. BringsUp(parts[t], t, v, synced, old, new)
    BY <2>1, <2>3
  <2>5. BringsUp(InSomeOrder(parts), t, v, synced, old, new)
    BY <1>5, <1>12, <1>13, <2>4, AllBroughtUp DEF P
  <2> QED
    BY <2>3, <2>5
<1>15. InSomeOrder(parts) \in Seq(P)
  BY <1>5, <1>12, InOrder
<1>16. \A i \in 1 .. Len(InSomeOrder(parts)) : InSomeOrder(parts)[i].type # "NoChange"
  <2>1. PICK t \in D : TRUE
    BY <1>3
  <2>2. BringsUp(InSomeOrder(parts), t, v, served[t].keys, served[t].keys, truth[v][t])
    BY <1>5, <1>14
  <2> QED
    BY <2>2 DEF BringsUp
<1>17. CatchesUp(InSomeOrder(parts), v, n)
  BY <1>1, <1>2, <1>5, <1>6, <1>10, <1>14, <1>15, <1>16 DEF CatchesUp, D, P
<1> QED
  BY <1>17

\* What is sent takes every target followed to the version announced.
LEMMA ServerCatchesUpSnap ==
  ASSUME IInv, Snap, ~Collisions, ~SplitResets, ServerCatchesUp
  PROVE  Snap'
<1>0. PICK n \in Nat : n = Len(truth)
  BY Types
<1>1. PICK s, v : CatchesUp(s, v, n)
  BY <1>0, AllCaughtUp
<1>2. PICK m : m = [type |-> "NoChange", token |-> v]
  OBVIOUS
<1>3. /\ v \in 1 .. n /\ at <= v /\ at' = v /\ s \in Seq(Passive(n))
      /\ Respond(Append(s, m))
      /\ DOMAIN served' = DOMAIN served
      /\ \A t \in DOMAIN served : served'[t].keys = truth[v][t] /\ served'[t].version = v
      /\ \A i \in 1 .. Len(s) : s[i].type # "NoChange"
  BY <1>1, <1>2 DEF CatchesUp
<1>4. \A t \in DOMAIN served, synced \in SUBSET Keys :
        (served[t].version = None => served[t].keys = synced)
          => BringsUp(s, t, v, synced, served[t].keys, truth[v][t])
  BY <1>1 DEF CatchesUp
<1>5. /\ cs.stream = "Open"
      /\ UNCHANGED <<views, memory, cache, lastRemote, truth>>
  BY DEF ServerCatchesUp
<1>6. /\ IsClient(cs, n) /\ cs.requests \in Seq(Requests(n)) /\ cs.responses \in Seq(Responses(n))
      /\ DOMAIN cs.tokens \subseteq Targets /\ IsTable(served, Serves(n)) /\ lastRemote \in Nat
      /\ \A u \in Targets : cache[u].keys \in SUBSET Keys
      /\ truth \in Seq([Targets -> SUBSET Keys])
  BY <1>0, Types, ClientIs DEF IInv, Typed
<1>7. m \in Responses(n) /\ m.type = "NoChange" /\ m.token = v
  BY <1>2, <1>3 DEF Responses
<1>8. s \in Seq(Responses(n))
  <2>1. Passive(n) \subseteq Responses(n)
    BY DEF Passive
  <2> QED
    BY <1>3, <2>1, SeqMonotonic
<1>9. Rewired(cs, cs', cs.requests, cs.responses \o Append(s, m))
  BY <1>3, <1>6, RespondRewires
<1>10. /\ RowsDescribed' /\ TokensDescribed' /\ ResetsClosing' /\ InOrderAnnounced'
       /\ cs'.requests = cs.requests /\ cs'.responses = cs.responses \o Append(s, m)
       /\ cs'.tokens = cs.tokens /\ cs'.states = cs.states
       /\ \A u : Held(u)' = Held(u) /\ (u \in cs'.resets <=> u \in cs.resets)
  <2>1. at' \in Nat /\ at <= at' /\ at <= m.token /\ m.token <= at'
    BY <1>0, <1>3, <1>7
  <2> QED
    BY <1>0, <1>3, <1>5, <1>6, <1>7, <1>8, <1>9, <2>1, WireSnap
<1>11. ASSUME NEW u \in DOMAIN cs.tokens, Followed(u) PROVE Followed(u)'
  <2>1. u \in Targets /\ u \in DOMAIN served /\ served[u].keys \in SUBSET Keys
    BY <1>6, <1>11 DEF Followed, IsTable, Serves
  <2>2. \A i \in 1 .. Len(cs'.requests) : cs'.requests[i].target # u
    BY <1>10, <1>11 DEF Followed
  <2>3. served[u].version = None => served[u].keys = cache[u].keys
    BY <1>11 DEF Followed, FollowedBy, FiltersFirst
  <2>4. BringsUp(s, u, v, cache[u].keys, served[u].keys, truth[v][u])
    BY <1>4, <1>6, <2>1, <2>3
  <2>5. u \in DOMAIN served' /\ served'[u].keys = truth[v][u] /\ served'[u].version = v
    BY <1>3, <2>1
  <2>6. truth[v][u] \in SUBSET Keys
    <3>1. truth[v] \in [Targets -> SUBSET Keys]
      BY <1>0, <1>3, <1>6
    <3> QED
      BY <2>1, <3>1
  <2>7. PICK old, new : old = served[u] /\ new = served'[u]
    OBVIOUS
  <2>8. AddsFor(u, s, m, old, new)
    <3>1. v >= 1 /\ v # None
      BY <1>0, <1>3 DEF None
    <3> QED
      BY <1>7, <2>4, <2>5, <2>7, <3>1 DEF AddsFor
  <2>9. old.keys \in SUBSET Keys /\ new.keys \in SUBSET Keys
    BY <2>1, <2>5, <2>6, <2>7
  <2>10. PICK k \in Nat : k = Len(cs.responses)
    BY <1>6
  <2>11. PICK l \in Nat : l = Len(s)
    BY <1>8
  <2>12. ~About(m, u) /\ m.token \in Nat
    BY <1>0, <1>3, <1>7 DEF About
  <2> QED
    BY <1>5, <1>6, <1>7, <1>8, <1>10, <1>11, <2>2, <2>5, <2>7, <2>8, <2>9, <2>10, <2>11, <2>12,
       FollowedGrows
<1>12. AskedOrFollowed'
  <2> SUFFICES ASSUME NEW u \in DOMAIN cs.tokens
               PROVE  u \in DOMAIN cs.states /\ (Pending(u)' \/ Followed(u)')
    BY <1>10 DEF AskedOrFollowed
  <2>1. u \in DOMAIN cs.states /\ (Pending(u) \/ Followed(u))
    BY <1>5 DEF Snap, AskedOrFollowed
  <2>2. Pending(u) => Pending(u)'
    BY <1>10, PendingIs
  <2> QED
    BY <1>11, <2>1, <2>2
<1> QED
  BY <1>10, <1>12 DEF Snap

(***************************************************************************)
(* What is under way for a target, and when the target is active.          *)
(***************************************************************************)

LEMMA NothingUnderWay ==
  ASSUME NEW n, NEW c, c.requests \in Seq(Requests(n)), c.responses \in Seq(Responses(n)), NEW t
  PROVE  UnderWay(c, t) = 0 <=>
           NoneOf(c.requests, t) /\ \A i \in 1 .. Len(c.responses) : ~IsAnswer(c.responses[i], t)
<1> DEFINE R == RequestsOf(c.requests, t)
           A == AnswersOf(c.responses, t)
<1>1. IsFiniteSet(R) /\ Cardinality(R) \in Nat /\ IsFiniteSet(A) /\ Cardinality(A) \in Nat
  BY UnderWayPlaces, PlacesFinite
<1>2. R = {} <=> NoneOf(c.requests, t)
  <2>1. DOMAIN c.requests = 1 .. Len(c.requests)
    OBVIOUS
  <2> QED
    BY <2>1 DEF RequestsOf, NoneOf
<1>3. A = {} <=> \A i \in 1 .. Len(c.responses) : ~IsAnswer(c.responses[i], t)
  <2>1. DOMAIN c.responses = 1 .. Len(c.responses)
    OBVIOUS
  <2> QED
    BY <2>1 DEF AnswersOf, IsAnswer
<1>4. UnderWay(c, t) = Cardinality(R) + Cardinality(A)
  BY DEF UnderWay
<1> HIDE DEF R, A
<1>5. (Cardinality(R) = 0 <=> R = {}) /\ (Cardinality(A) = 0 <=> A = {})
  BY <1>1, FS_EmptySet
<1>6. UnderWay(c, t) = 0 <=> (R = {} /\ A = {})
  <2>1. PICK x \in Nat, y \in Nat : x = Cardinality(R) /\ y = Cardinality(A)
    BY <1>1
  <2>2. UnderWay(c, t) = x + y
    BY <1>4, <2>1
  <2>3. x + y = 0 <=> x = 0 /\ y = 0
    OBVIOUS
  <2> QED
    BY ONLY <1>5, <2>1, <2>2, <2>3
<1> QED
  BY <1>2, <1>3, <1>6

\* A listened target is active when nothing is under way for it.
LEMMA ActiveWhenSettled ==
  ASSUME IInv, CountInv, rejections = 0, NEW t \in DOMAIN cs.tokens
  PROVE  /\ t \in Targets
         /\ IsActive(cs, t) <=>
              NoneOf(cs.requests, t) /\ \A i \in 1 .. Len(cs.responses) : ~IsAnswer(cs.responses[i], t)
<1>1. t \in Targets /\ cs.requests \in Seq(Requests(Len(truth)))
      /\ cs.responses \in Seq(Responses(Len(truth)))
  BY Types, ClientIs
<1>2. StateOf(cs, t).outstanding = UnderWay(cs, t)
  BY <1>1 DEF CountInv
<1>3. IsActive(cs, t) <=> UnderWay(cs, t) = 0
  BY <1>2 DEF IsActive
<1>4. UnderWay(cs, t) = 0 <=>
        NoneOf(cs.requests, t) /\ \A i \in 1 .. Len(cs.responses) : ~IsAnswer(cs.responses[i], t)
  BY <1>1, NothingUnderWay
<1> QED
  BY <1>1, <1>3, <1>4

\* A target asked for is not active, and one followed is when it is followed from now on.
LEMMA ActiveIsFollowedNow ==
  ASSUME IInv, CountInv, rejections = 0, NEW t \in DOMAIN cs.tokens
  PROVE  /\ Pending(t) => ~IsActive(cs, t)
         /\ \A p \in 0 .. Len(cs.responses) :
              NoneOf(cs.requests, t) /\ IsStart(t, p) => (IsActive(cs, t) <=> p = 0)
<1>1. cs.responses \in Seq(Responses(Len(truth)))
  BY Types, ClientIs
<1>2. ASSUME Pending(t) PROVE ~IsActive(cs, t)
  <2>1. ~NoneOf(cs.requests, t)
    BY <1>2 DEF Pending, NoneOf, WatchRequest
  <2> QED
    BY <2>1, ActiveWhenSettled
<1>3. ASSUME NEW p \in 0 .. Len(cs.responses), NoneOf(cs.requests, t), IsStart(t, p)
      PROVE  IsActive(cs, t) <=> p = 0
  <2>1. CASE p = 0
    <3>1. \A i \in 1 .. Len(cs.responses) : ~IsAnswer(cs.responses[i], t)
      BY <1>3, <2>1 DEF IsStart
    <3> QED
      BY <1>3, <2>1, <3>1, ActiveWhenSettled
  <2>2. CASE p # 0
    <3>1. p \in 1 .. Len(cs.responses)
      BY <1>1, <2>2
    <3>2. IsAnswer(cs.responses[p], t)
      BY <1>3, <2>2 DEF IsStart, IsAnswer, Answers
    <3> QED
      BY <2>2, <3>1, <3>2, ActiveWhenSettled
  <2> QED
    BY <2>1, <2>2
<1> QED
  BY <1>2, <1>3

\* A target for which something is under way has a state.
LEMMA UnderWayHasState ==
  ASSUME NEW c, NEW t, StateOf(c, t).outstanding = UnderWay(c, t), UnderWay(c, t) # 0
  PROVE  t \in DOMAIN c.states
BY DEF StateOf, NewTargetState

(***************************************************************************)
(* A response is taken.                                                    *)
(***************************************************************************)

\* What the client has gathered, c, once response m has been taken.
Gathered(c, m, n) ==
  /\ IsClient(c, n) /\ c.tokens = cs.tokens /\ c.stream = cs.stream
  /\ c.requests = cs.requests /\ c.responses = Tail(cs.responses)
  /\ \A t \in Targets : StateOf(c, t).outstanding =
                          StateOf(cs, t).outstanding - (IF IsAnswer(m, t) THEN 1 ELSE 0)
  /\ ResetsFrom(cs, c, m)
  /\ \A t \in DOMAIN cs.tokens : Progresses(cs, c, m, t, cache[t].keys)

\* A version said for every active target.
Versioned(c, m) ==
  /\ c.resets = cs.resets /\ DOMAIN c.states = DOMAIN cs.states
  /\ \A t \in DOMAIN cs.states :
       c.states[t] = IF IsActive(cs, t) THEN WithToken(cs.states[t], m.token) ELSE cs.states[t]

LEMMA GatheredProgresses ==
  ASSUME NEW b, b.tokens = cs.tokens, b.states = cs.states, b.resets = cs.resets,
         NEW d, NEW m, NEW t, NEW keys, Progresses(b, d, m, t, keys)
  PROVE  Progresses(cs, d, m, t, keys)
<1>1. StateOf(b, t) = StateOf(cs, t)
  BY DEF StateOf
<1>2. IsActive(b, t) <=> IsActive(cs, t)
  BY <1>1 DEF IsActive
<1>3. HeldIn(b, t, keys) = HeldIn(cs, t, keys)
  BY <1>1 DEF HeldIn
<1> QED
  BY <1>2, <1>3 DEF Progresses

LEMMA ResponseGathered ==
  ASSUME IInv, ReceiveChange, NEW n, n = Len(truth), NEW m, m = cs.responses[1]
  PROVE  /\ cs.stream = "Open" /\ cs.responses # <<>>
         /\ m \in Responses(n) /\ m.type # "Error"
         /\ UNCHANGED <<truth, served, at, rejections>>
         /\ \E c : /\ Gathered(c, m, n)
                   /\ m.type = "NoChange" => Versioned(c, m)
                   /\ IF IsRaised(m, lastRemote) THEN RaiseWatchSnapshot(c, m.token)
                      ELSE cs' = c /\ UNCHANGED <<views, memory, cache, lastRemote>>
<1> DEFINE synced == [t \in DOMAIN views |-> views[t].synced]
           b == [cs EXCEPT !.responses = Tail(@)]
           c == Aggregate(b, synced, m)
           K == [t \in Targets |-> cache[t].keys]
<1>1. /\ n \in Nat /\ IsClient(cs, n)
      /\ DOMAIN views = DOMAIN cs.tokens /\ DOMAIN cs.tokens \subseteq Targets
      /\ \A t \in Targets : cache[t].keys \in SUBSET Keys
      /\ cs.responses \in Seq(Responses(n))
  BY Types, ClientIs
<1>2. m = Head(cs.responses)
  BY <1>1 DEF ReceiveChange
<1>3. /\ cs.stream = "Open" /\ cs.responses # <<>> /\ m.type # "Error"
      /\ IF IsRaised(m, lastRemote) THEN RaiseWatchSnapshot(c, m.token)
         ELSE cs' = c /\ UNCHANGED <<views, memory, cache, lastRemote>>
      /\ UNCHANGED <<truth, served, at, rejections>>
  BY <1>2 DEF ReceiveChange, serverVars, countVars, IsRaised
<1>4. Rewired(cs, b, cs.requests, Tail(cs.responses))
  BY <1>1, TailRewires
<1>5. K \in [Targets -> SUBSET Keys] /\ \A t \in Targets : K[t] = cache[t].keys
  BY <1>1
<1>6. \A t \in DOMAIN views : synced[t] = views[t].synced
  OBVIOUS
<1> HIDE DEF b, synced, K
<1>7. /\ IsClient(b, n) /\ b.responses = Tail(cs.responses)
      /\ b.tokens = cs.tokens /\ b.states = cs.states /\ b.resets = cs.resets
      /\ b.stream = cs.stream /\ b.requests = cs.requests
      /\ m \in Responses(n)
  BY <1>1, <1>2, <1>3, <1>4, ResponseTaken
<1>8. \A t \in DOMAIN b.states : Fits(b.states[t], K[t])
  <2>1. DOMAIN cs.states \subseteq Targets
    BY <1>1, ClientIs DEF IsTable
  <2>2. \A t \in DOMAIN cs.states : Fits(cs.states[t], cache[t].keys)
    BY DEF IInv, ChangesFitCache
  <2> QED
    BY <1>5, <1>7, <2>1, <2>2
<1>9. \A t \in DOMAIN b.tokens : synced[t] = K[t]
  <2>1. \A t \in DOMAIN views : views[t].synced = cache[t].keys
    BY DEF IInv, ViewsFromCache
  <2> QED
    BY <1>1, <1>5, <1>6, <1>7, <2>1
<1>10. Gathers(b, c, m, n, K)
  BY <1>1, <1>3, <1>5, <1>7, <1>8, <1>9, AggregateGathers
<1>11. ResetsFrom(b, c, m)
  BY <1>1, <1>3, <1>5, <1>7, <1>8, <1>9, AggregateResets
<1>12. ASSUME NEW t \in DOMAIN cs.tokens PROVE Progresses(cs, c, m, t, cache[t].keys)
  <2>1. t \in DOMAIN b.tokens /\ K[t] = cache[t].keys
    BY <1>1, <1>5, <1>7
  <2>2. Progresses(b, c, m, t, K[t])
    BY <1>1, <1>3, <1>5, <1>7, <1>8, <1>9, <2>1, AggregateProgresses
  <2> HIDE DEF c
  <2> QED
    BY <1>7, <2>1, <2>2, GatheredProgresses
<1>13. m.type = "NoChange" => Versioned(c, m)
  <2> SUFFICES ASSUME m.type = "NoChange" PROVE Versioned(c, m)
    OBVIOUS
  <2>1. c = NoChange(b, m.token)
    BY DEF Aggregate
  <2>2. c = [b EXCEPT !.states = [t \in DOMAIN b.states |->
               IF IsActive(b, t) THEN WithToken(b.states[t], m.token) ELSE b.states[t]]]
    BY <2>1 DEF NoChange
  <2>3. b = [tokens |-> b.tokens, states |-> b.states, resets |-> b.resets,
             enabled |-> b.enabled, stream |-> b.stream, idle |-> b.idle,
             requests |-> b.requests, responses |-> b.responses]
    BY <1>7, ClientIs
  <2> HIDE DEF c
  <2>4. /\ c.resets = b.resets /\ DOMAIN c.states = DOMAIN b.states
        /\ \A t \in DOMAIN b.states :
             c.states[t] = IF IsActive(b, t) THEN WithToken(b.states[t], m.token) ELSE b.states[t]
    BY <2>2, <2>3
  <2>5. \A t : IsActive(b, t) <=> IsActive(cs, t)
    BY <1>7 DEF IsActive, StateOf
  <2> QED
    BY <1>7, <2>4, <2>5 DEF Versioned
<1> HIDE DEF c
<1>14. Gathered(c, m, n)
  <2>1. /\ IsClient(c, n) /\ c.tokens = cs.tokens /\ c.stream = cs.stream
        /\ c.requests = cs.requests /\ c.responses = Tail(cs.responses)
    BY <1>7, <1>10 DEF Gathers
  <2>2. ASSUME NEW t \in Targets
        PROVE  StateOf(c, t).outstanding =
                 StateOf(cs, t).outstanding - (IF IsAnswer(m, t) THEN 1 ELSE 0)
    <3>1. StateOf(b, t) = StateOf(cs, t)
      BY <1>7 DEF StateOf
    <3> QED
      BY <1>10, <3>1 DEF Gathers, IsAnswer
  <2>3. ResetsFrom(cs, c, m)
    <3>1. IsActive(b, m.target) <=> IsActive(cs, m.target)
      BY <1>7 DEF IsActive, StateOf
    <3> QED
      BY <1>7, <1>11, <3>1 DEF ResetsFrom
  <2> QED
    BY <1>12, <2>1, <2>2, <2>3 DEF Gathered
<1> QED
  BY <1>3, <1>7, <1>13, <1>14

\* What is held of a target is a set of keys.
LEMMA HeldIsKeys ==
  ASSUME NEW n \in Nat, NEW c, IsClient(c, n), NEW t, NEW keys \in SUBSET Keys
  PROVE  HeldIn(c, t, keys) \in SUBSET Keys
<1>1. IsTable(c.states, States(n))
  BY ClientIs
<1>2. StateOf(c, t) \in States(n)
  BY <1>1, StateOfType
<1> QED
  BY <1>2, MatchingKeys DEF HeldIn

\* A response that raises no snapshot leaves a target followed, or follows it from its answer.
LEMMA FollowedGathered ==
  ASSUME IInv, CountInv, Snap, IInv', CountInv', rejections = 0, rejections' = 0,
         NEW n, n = Len(truth), cs.responses # <<>>, NEW m, m = cs.responses[1],
         Gathered(cs', m, n), m.type # "NoChange" \/ ~IsRaised(m, lastRemote),
         UNCHANGED <<cache, lastRemote, truth, served>>,
         NEW t \in DOMAIN cs.tokens, t \in DOMAIN cs.states, Followed(t)
  PROVE  Followed(t)' /\ t \in DOMAIN cs'.states
<1> DEFINE s == cs.responses  keys == cache[t].keys  l == Len(s)
<1>1. /\ n \in Nat /\ IsClient(cs, n) /\ s \in Seq(Responses(n)) /\ t \in Targets
      /\ keys \in SUBSET Keys
  BY Types, ClientIs
<1>2. /\ IsClient(cs', n) /\ cs'.tokens = cs.tokens /\ cs'.requests = cs.requests
      /\ cs'.responses = Tail(s)
      /\ Progresses(cs, cs', m, t, keys)
  BY DEF Gathered
<1>3. /\ Tail(s) \in Seq(Responses(n)) /\ l \in Nat \ {0} /\ Len(Tail(s)) = l - 1
      /\ \A i \in 1 .. l - 1 : Tail(s)[i] = s[i + 1]
  BY <1>1, TailIs
<1>4. NoneOf(cs.requests, t) /\ t \in DOMAIN served
  BY DEF Followed, NoneOf
<1>5. PICK p \in 0 .. l, b \in 0 .. l + 1 :
        \E held \in [0 .. l -> SUBSET Keys] : p <= b /\ FollowedBy(t, p, b, held)
  BY DEF Followed
<1>6. PICK held \in [0 .. l -> SUBSET Keys] : p <= b /\ FollowedBy(t, p, b, held)
  BY <1>5
<1>7. /\ IsStart(t, p) /\ Starts(t, p, b, held) /\ Traces(s, t, keys, p, b, held)
  BY <1>6 DEF FollowedBy
<1>8. Held(t) = HeldIn(cs, t, keys) /\ Held(t)' = HeldIn(cs', t, keys)
  BY DEF Held, HeldIn
<1>9. PICK now \in SUBSET Keys : now = Held(t)'
  <2>1. Held(t)' \in SUBSET Keys
    BY <1>1, <1>2, <1>8, HeldIsKeys
  <2> QED
    BY <2>1
<1>10. IsActive(cs, t) <=> p = 0
  BY <1>4, <1>5, <1>7, ActiveIsFollowedNow
<1>11. \A i \in 1 .. Len(cs'.requests) : cs'.requests[i].target # t
  BY <1>2, <1>4 DEF NoneOf
<1> HIDE DEF keys
<1>12. /\ p <= 1 /\ b > 1 => now = held[1]
       /\ p <= 1 => (b <= 1 <=> t \in cs'.resets)
       /\ p <= 1 => t \in DOMAIN cs'.states
  <2>1. CASE p = 0
    <3>1. ~IsAnswer(m, t) /\ held[0] = Held(t) /\ (b = 0 <=> t \in cs.resets)
      <4>1. 1 \in p + 1 .. Len(cs.responses)
        BY <1>3, <2>1
      <4> QED
        BY <1>7, <2>1, <4>1 DEF IsStart, Starts
    <3>2. /\ IF Fails(m, t, keys, held[0]) THEN t \in cs'.resets
             ELSE now = Follow(m, t, keys, held[0]) /\ (t \in cs'.resets <=> t \in cs.resets)
          /\ ~(m.type = "Removed" /\ m.target = t)
          /\ t \in DOMAIN cs'.states
      <4>1. ~(m.type = "Removed" /\ m.target = t)
        BY <3>1 DEF IsAnswer, Answers
      <4> QED
        BY <1>2, <1>8, <1>9, <1>10, <2>1, <3>1, <4>1 DEF Progresses
    <3>3. /\ 1 < b => ~Fails(m, t, keys, held[0]) /\ held[1] = Follow(m, t, keys, held[0])
          /\ 1 = b => Fails(m, t, keys, held[0])
      <4>1. 1 \in p + 1 .. Len(s) /\ 1 - 1 = 0
        BY <1>3, <2>1
      <4> QED
        BY <1>7, <4>1 DEF Traces
    <3>4. b = 0 \/ b = 1 \/ 1 < b
      BY <1>3, <1>5
    <3>5. b \in Nat
      BY <1>3, <1>5
    <3>6. CASE b = 0
      BY <2>1, <3>1, <3>2, <3>6
    <3>7. CASE b = 1
      BY <2>1, <3>2, <3>3, <3>7
    <3>8. CASE 1 < b
      BY <2>1, <3>1, <3>2, <3>3, <3>5, <3>8
    <3> QED
      BY <3>4, <3>6, <3>7, <3>8
  <2>2. CASE p = 1
    <3>1. m = [type |-> "Added", target |-> t] /\ b > 1 /\ held[1] = keys
      BY <1>7, <2>2 DEF IsStart, Starts, keys
    <3>2. t \notin cs'.resets
      <4>1. t \notin cs.resets
        BY <1>10, <2>2 DEF Snap, ResetsClosing
      <4> QED
        BY <1>2, <1>10, <2>2, <4>1 DEF Progresses
    <3>3. StateOf(cs', t).outstanding = 0
      <4>1. \A i \in 1 .. Len(cs'.responses) : ~IsAnswer(cs'.responses[i], t)
        <5> SUFFICES ASSUME NEW i \in 1 .. l - 1 PROVE ~IsAnswer(Tail(s)[i], t)
          BY <1>2, <1>3
        <5>1. i + 1 \in p + 1 .. Len(cs.responses)
          BY <1>3, <2>2
        <5> QED
          BY <1>3, <1>7, <5>1 DEF IsStart
      <4>2. cs'.requests \in Seq(Requests(n)) /\ cs'.responses \in Seq(Responses(n))
        BY <1>2, ClientIs
      <4>3. UnderWay(cs', t) = 0
        BY <1>2, <1>4, <4>1, <4>2, NothingUnderWay
      <4> QED
        BY <1>1, <4>3 DEF CountInv
    <3>4. now = keys
      BY <1>2, <1>8, <1>9, <3>1, <3>3 DEF Progresses
    <3>5. t \in DOMAIN cs'.states
      BY <1>2, <3>1 DEF Progresses
    <3>6. b \in Nat
      BY <1>3, <1>5
    <3> QED
      BY <2>2, <3>1, <3>2, <3>4, <3>5, <3>6
  <2>3. CASE p > 1
    BY <1>3, <2>3
  <2>4. p = 0 \/ p = 1 \/ p > 1
    BY <1>3, <1>5
  <2> QED
    BY <2>1, <2>2, <2>3, <2>4
<1>13. t \in DOMAIN cs'.states
  <2>1. CASE p <= 1
    BY <1>12, <2>1
  <2>2. CASE p > 1
    <3>1. p - 1 \in 1 .. l - 1 /\ p # 0 /\ (p - 1) + 1 = p
      BY <1>3, <1>5, <2>2
    <3>2. s[p] = [type |-> "Added", target |-> t]
      BY <1>7, <3>1 DEF IsStart
    <3>3. IsAnswer(cs'.responses[p - 1], t)
      BY <1>2, <1>3, <3>1, <3>2 DEF IsAnswer, Answers
    <3>4. cs'.requests \in Seq(Requests(n)) /\ cs'.responses \in Seq(Responses(n))
      BY <1>2, ClientIs
    <3>5. UnderWay(cs', t) # 0
      BY <1>2, <1>3, <3>1, <3>3, <3>4, NothingUnderWay
    <3>6. StateOf(cs', t).outstanding = UnderWay(cs', t)
      BY <1>1 DEF CountInv
    <3> QED
      BY <3>5, <3>6, UnderWayHasState
  <2> QED
    BY <1>3, <1>5, <2>1, <2>2
<1>14. Followed(t)'
  <2>1. cache'[t].keys = cache[t].keys \/ (p = 0 /\ cs.responses[1].type = "NoChange")
    OBVIOUS
  <2>2. \A j \in 2 .. Len(cs.responses) :
          IsRaised(cs.responses[j], lastRemote) => IsRaised(cs.responses[j], lastRemote')
    OBVIOUS
  <2>3. cs.responses \in Seq(Responses(n)) /\ l = Len(cs.responses)
    BY <1>1
  <2>4. cs'.responses = Tail(cs.responses)
    BY <1>2
  <2> HIDE DEF s, l
  <2> QED
    BY <1>4, <1>5, <1>6, <1>9, <1>11, <1>12, <2>1, <2>2, <2>3, <2>4, FollowedShifts
<1> QED
  BY <1>13, <1>14

\* A request under way stays so.
LEMMA PendingGathered ==
  ASSUME IInv, CountInv', rejections' = 0, NEW n, n = Len(truth), NEW m,
         Gathered(cs', m, n), NEW t \in DOMAIN cs.tokens, Pending(t)
  PROVE  Pending(t)' /\ t \in DOMAIN cs'.states
<1>1. /\ n \in Nat /\ t \in Targets
      /\ IsClient(cs', n) /\ cs'.tokens = cs.tokens /\ cs'.requests = cs.requests
  BY Types DEF Gathered
<1>2. Pending(t)'
  BY <1>1 DEF Pending
<1>3. ~NoneOf(cs'.requests, t)
  BY <1>2 DEF Pending, NoneOf, WatchRequest
<1>4. UnderWay(cs', t) # 0
  <2>1. cs'.requests \in Seq(Requests(n)) /\ cs'.responses \in Seq(Responses(n))
    BY <1>1, ClientIs
  <2> QED
    BY <1>3, <2>1, NothingUnderWay
<1>5. StateOf(cs', t).outstanding = UnderWay(cs', t)
  BY <1>1 DEF CountInv
<1> QED
  BY <1>2, <1>4, <1>5, UnderWayHasState

\* A target is only reset when the snapshot that takes the reset is about to be raised.
LEMMA ResetsGathered ==
  ASSUME IInv, CountInv, Snap, rejections = 0, cs.stream = "Open",
         NEW n, n = Len(truth), cs.responses # <<>>, NEW m, m = cs.responses[1],
         Gathered(cs', m, n), ~IsRaised(m, lastRemote), UNCHANGED <<cache, lastRemote>>
  PROVE  ResetsClosing'
<1> SUFFICES ASSUME NEW t \in cs'.resets
             PROVE  /\ t \in DOMAIN cs'.tokens /\ IsActive(cs', t)
                    /\ Held(t)' = {} /\ Closing(cs'.responses, t, 0, lastRemote)
  BY DEF ResetsClosing
<1> DEFINE s == cs.responses  keys == cache[t].keys  l == Len(s)
<1>1. /\ n \in Nat /\ IsClient(cs, n) /\ s \in Seq(Responses(n)) /\ DOMAIN cs.tokens \subseteq Targets
  BY Types, ClientIs
<1>2. /\ cs'.tokens = cs.tokens /\ cs'.responses = Tail(s) /\ ResetsFrom(cs, cs', m)
      /\ t \in DOMAIN cs.tokens => Progresses(cs, cs', m, t, keys)
      /\ t \in Targets => StateOf(cs', t).outstanding =
                            StateOf(cs, t).outstanding - (IF IsAnswer(m, t) THEN 1 ELSE 0)
  BY DEF Gathered
<1>3. l \in Nat \ {0}
  BY <1>1, TailIs
<1>4. Held(t) = HeldIn(cs, t, keys) /\ Held(t)' = HeldIn(cs', t, keys)
  BY DEF Held, HeldIn
<1> HIDE DEF keys
<1>5. ASSUME t \in DOMAIN cs.tokens, IsActive(cs, t), ~IsAnswer(m, t) PROVE IsActive(cs', t)
  BY <1>1, <1>2, <1>5 DEF IsActive, StateOf, States
<1>6. \A j \in 2 .. Len(s) : IsRaised(s[j], lastRemote) => IsRaised(s[j], lastRemote)
  OBVIOUS
<1>7. CASE t \in cs.resets
  <2>1. /\ t \in DOMAIN cs.tokens /\ IsActive(cs, t)
        /\ Held(t) = {} /\ Closing(s, t, 0, lastRemote)
    BY <1>7 DEF Snap, ResetsClosing
  <2>2. m.type # "NoChange" /\ (About(m, t) => m.type = "Current")
    <3>1. PICK j \in 0 + 1 .. Len(s) :
            /\ IsRaised(s[j], lastRemote)
            /\ \A x \in 0 + 1 .. j - 1 :
                 /\ s[x].type # "NoChange"
                 /\ About(s[x], t) => s[x].type = "Current"
      BY <2>1 DEF Closing
    <3>2. j # 1
      BY <3>1
    <3>3. 1 \in 0 + 1 .. j - 1
      BY <1>3, <3>2
    <3> QED
      BY <3>1, <3>3
  <2>3. ~Fails(m, t, keys, Held(t)) /\ Follow(m, t, keys, Held(t)) = Held(t) /\ ~IsAnswer(m, t)
    BY <2>2 DEF Fails, Follow, IsFilter, About, IsAnswer, Answers
  <2>4. Held(t)' = {}
    BY <1>2, <1>4, <2>1, <2>3 DEF Progresses
  <2>5. Closing(Tail(s), t, 0, lastRemote)
    <3>1. 0 \in 0 .. Len(s) /\ Down(0) = 0
      BY <1>3 DEF Down
    <3>2. ~IsRaised(s[1], lastRemote)
      OBVIOUS
    <3> DEFINE i == 0
    <3>3. i \in 0 .. Len(s) /\ Closing(s, t, i, lastRemote)
      BY <2>1, <3>1
    <3> HIDE DEF i, s
    <3>4. s # <<>>
      BY DEF s
    <3>5. Closing(Tail(s), t, Down(i), lastRemote)
      BY <1>1, <1>6, <3>2, <3>3, <3>4, ClosingShifts
    <3> QED
      BY <3>1, <3>5 DEF i
  <2> QED
    BY <1>2, <1>5, <2>1, <2>3, <2>4, <2>5
<1>8. CASE t \notin cs.resets
  <2>1. m.type = "Filter" /\ IsActive(cs, t) /\ t = m.target
    BY <1>2, <1>8 DEF ResetsFrom
  <2>2. t \in DOMAIN cs.tokens /\ t \in Targets /\ ~IsAnswer(m, t)
    BY <1>1, <2>1 DEF IsActive, IsAnswer, Answers
  <2>3. Followed(t)
    <3>1. ~Pending(t)
      BY <2>1, <2>2, ActiveIsFollowedNow
    <3> QED
      BY <2>2, <3>1 DEF Snap, AskedOrFollowed
  <2>4. PICK p \in 0 .. l, b \in 0 .. l + 1 :
          \E held \in [0 .. l -> SUBSET Keys] : p <= b /\ FollowedBy(t, p, b, held)
    BY <2>3 DEF Followed
  <2>5. PICK held \in [0 .. l -> SUBSET Keys] : p <= b /\ FollowedBy(t, p, b, held)
    BY <2>4
  <2>6. /\ IsStart(t, p) /\ Starts(t, p, b, held) /\ Traces(s, t, keys, p, b, held)
        /\ FiltersFirst(t, p)
    BY <2>5 DEF FollowedBy, keys
  <2>7. p = 0
    <3>1. NoneOf(cs.requests, t)
      BY <2>3 DEF Followed, NoneOf
    <3> QED
      BY <2>1, <2>2, <2>4, <2>6, <3>1, ActiveIsFollowedNow
  <2>8. held[0] = Held(t) /\ b # 0
    BY <1>8, <2>6, <2>7 DEF Starts
  <2>9. /\ 1 < b => ~Fails(m, t, keys, held[0])
        /\ 1 = b => Fails(m, t, keys, held[0])
    <3>1. 1 \in p + 1 .. Len(s) /\ 1 - 1 = 0
      BY <1>3, <2>7
    <3> QED
      BY <2>6, <3>1 DEF Traces
  <2>10. Fails(m, t, keys, Held(t))
    <3>1. CASE Fails(m, t, keys, Held(t))
      BY <3>1
    <3>2. CASE ~Fails(m, t, keys, Held(t))
      BY <1>2, <1>4, <1>8, <2>1, <2>2, <3>2 DEF Progresses
    <3> QED
      BY <3>1, <3>2
  <2>11. Held(t)' = {}
    BY <1>2, <1>4, <2>1, <2>2, <2>10 DEF Progresses
  <2>12. Closing(Tail(s), t, 0, lastRemote)
    <3>1. 1 \in p + 1 .. Len(cs.responses) /\ IsFilter(s[1], t)
      BY <1>3, <2>1, <2>7 DEF IsFilter, About
    <3>2. Closing(s, t, 1, lastRemote)
      BY <2>6, <3>1 DEF FiltersFirst
    <3> DEFINE i == 1
    <3>3. i \in 0 .. Len(s) /\ i # 0 /\ Closing(s, t, i, lastRemote) /\ Down(i) = 0
      BY <1>3, <3>2 DEF Down
    <3> HIDE DEF i, s
    <3>4. s # <<>>
      BY DEF s
    <3>5. Closing(Tail(s), t, Down(i), lastRemote)
      BY <1>1, <1>6, <3>3, <3>4, ClosingShifts
    <3> QED
      BY <3>3, <3>5
  <2> QED
    BY <1>2, <1>5, <2>1, <2>2, <2>11, <2>12
<1> QED
  BY <1>7, <1>8

\* Versions stay announced in order.
LEMMA OrderGathered ==
  ASSUME IInv, Snap, cs.responses # <<>>, cs'.responses = Tail(cs.responses), UNCHANGED at
  PROVE  InOrderAnnounced'
<1> DEFINE s == cs.responses  l == Len(s)
<1>1. s \in Seq(Responses(Len(truth)))
  BY Types, ClientIs
<1>2. /\ l \in Nat \ {0} /\ Len(Tail(s)) = l - 1
      /\ \A i \in 1 .. l - 1 : Tail(s)[i] = s[i + 1] /\ i + 1 \in 1 .. l
  BY <1>1, TailIs
<1> SUFFICES ASSUME NEW i \in 1 .. l - 1, NEW j \in 1 .. l - 1,
                    Tail(s)[i].type = "NoChange", Tail(s)[j].type = "NoChange", i <= j
             PROVE  Tail(s)[i].token <= Tail(s)[j].token /\ Tail(s)[j].token <= at
  BY <1>2 DEF InOrderAnnounced
<1>3. i + 1 <= j + 1
  BY <1>2
<1> QED
  BY <1>2, <1>3 DEF Snap, InOrderAnnounced

\* A response that raises no snapshot.
LEMMA GatheredSnap ==
  ASSUME IInv, CountInv, Snap, IInv', CountInv', rejections = 0, rejections' = 0,
         cs.stream = "Open", NEW n, n = Len(truth), cs.responses # <<>>,
         NEW m, m = cs.responses[1], Gathered(cs', m, n), ~IsRaised(m, lastRemote),
         UNCHANGED <<views, memory, cache, lastRemote, truth, served, at>>
  PROVE  Snap'
<1>1. cs'.tokens = cs.tokens /\ cs'.responses = Tail(cs.responses)
  BY DEF Gathered
<1>2. RowsDescribed'
  BY DEF Snap, RowsDescribed, Describes
<1>3. TokensDescribed'
  BY <1>1 DEF Snap, TokensDescribed, Describes
<1>4. ResetsClosing'
  BY ResetsGathered
<1>5. InOrderAnnounced'
  BY <1>1, OrderGathered
<1>6. AskedOrFollowed'
  <2> SUFFICES ASSUME NEW t \in DOMAIN cs.tokens
               PROVE  t \in DOMAIN cs'.states /\ (Pending(t)' \/ Followed(t)')
    BY <1>1 DEF AskedOrFollowed
  <2>1. t \in DOMAIN cs.states /\ (Pending(t) \/ Followed(t))
    BY DEF Snap, AskedOrFollowed
  <2>2. CASE Pending(t)
    BY <2>2, PendingGathered
  <2>3. CASE Followed(t)
    BY <2>1, <2>3, FollowedGathered
  <2> QED
    BY <2>1, <2>2, <2>3
<1> QED
  BY <1>2, <1>3, <1>4, <1>5, <1>6 DEF Snap

(***************************************************************************)
(* A snapshot is raised.                                                   *)
(***************************************************************************)

\* What raising a snapshot makes of target t in the aggregator and of the requests about it.
EventFor(c, d, t) ==
  LET again == t \in c.resets \cap DOMAIN c.tokens
  IN  /\ StateOf(d, t).changes = IF t \in Changed(c) THEN <<>> ELSE StateOf(c, t).changes
      /\ again => AskedLast(d.requests, t, None)
      /\ ~again /\ NoneOf(c.requests, t) => NoneOf(d.requests, t)
      /\ \A token : ~again /\ AskedLast(c.requests, t, token) => AskedLast(d.requests, t, token)
      /\ t \in DOMAIN c.states => t \in DOMAIN d.states
      /\ t \in DOMAIN c.tokens =>
           d.tokens[t] = IF t \in c.resets THEN None
                         ELSE IF t \in Changed(c) /\ c.states[t].token # None
                         THEN c.states[t].token ELSE c.tokens[t]

LEMMA EventIs ==
  ASSUME NEW n \in Nat, NEW c, IsClient(c, n), NEW d, d = AfterRemoteEvent(c)
  PROVE  /\ d.resets = {} /\ d.responses = c.responses /\ DOMAIN d.tokens = DOMAIN c.tokens
         /\ \A t \in Targets : EventFor(c, d, t)
<1> DEFINE D == c.resets \cap DOMAIN c.tokens
           asked == [t \in D |-> <<UnwatchRequest(t), WatchRequest(t, None)>>]
<1>1. /\ D \in SUBSET Targets /\ asked \in [D -> Seq(Requests(n))]
      /\ \A t \in D : \A j \in 1 .. Len(asked[t]) : asked[t][j].target = t
      /\ \E taken : TakesChanges(c, taken, n) /\ Asks(taken, d, D, asked, n)
  <2>1. RequestsFrom(asked, D, n)
    BY AfterRemoteEventAsks
  <2>2. \E taken : TakesChanges(c, taken, n) /\ Asks(taken, d, D, asked, n)
    BY AfterRemoteEventAsks
  <2> HIDE DEF D, asked
  <2> QED
    BY <2>1, <2>2 DEF RequestsFrom
<1>2. PICK taken : TakesChanges(c, taken, n) /\ Asks(taken, d, D, asked, n)
  BY <1>1
<1>3. \A t \in D : asked[t] = <<UnwatchRequest(t), WatchRequest(t, None)>>
  OBVIOUS
<1>4. IsFiniteSet(D)
  BY <1>1, FS_Subset, WatchConstants
<1>5. D = c.resets \cap DOMAIN c.tokens
  OBVIOUS
<1> HIDE DEF D, asked
<1>6. /\ IsClient(taken, n) /\ taken.requests = c.requests /\ taken.responses = c.responses
      /\ taken.resets = {} /\ DOMAIN taken.tokens = DOMAIN c.tokens
      /\ DOMAIN taken.states = DOMAIN c.states
  BY <1>2 DEF TakesChanges
<1>7. /\ d.tokens = taken.tokens /\ d.resets = {} /\ d.responses = c.responses
      /\ d.requests = c.requests \o InSomeOrder(asked)
      /\ DOMAIN d.states = DOMAIN c.states \cup D
  BY <1>2, <1>6 DEF Asks
<1>8. ASSUME NEW t \in Targets PROVE EventFor(c, d, t)
  <2>1. StateOf(d, t).changes = StateOf(taken, t).changes
    BY <1>1, <1>2, <1>6, AsksLeave
  <2>2. StateOf(d, t).changes = IF t \in Changed(c) THEN <<>> ELSE StateOf(c, t).changes
    <3>1. t \in Changed(c) => t \in DOMAIN c.states
      BY ChangedListed
    <3> QED
      BY <1>2, <1>6, <2>1, <3>1 DEF TakesChanges, StateOf
  <2>3. AsksFor(c.requests, asked, D, t)
    <3>1. c.requests \in Seq(Requests(n))
      BY ClientIs
    <3> QED
      BY <1>1, <1>4, <3>1, AskedIs
  <2>4. ASSUME t \in D PROVE AskedLast(d.requests, t, None)
    <3>1. asked[t] = <<UnwatchRequest(t), WatchRequest(t, None)>>
      BY <1>3, <2>4
    <3>2. Len(asked[t]) = 2 /\ asked[t][2] = WatchRequest(t, None)
      BY ONLY <3>1
    <3> QED
      BY <1>7, <2>3, <2>4, <3>2 DEF AsksFor
  <2>5. t \notin D /\ NoneOf(c.requests, t) => NoneOf(d.requests, t)
    BY <1>7, <2>3 DEF AsksFor
  <2>6. \A token : t \notin D /\ AskedLast(c.requests, t, token) => AskedLast(d.requests, t, token)
    BY <1>7, <2>3 DEF AsksFor
  <2>7. t \in DOMAIN c.tokens =>
          d.tokens[t] = IF t \in c.resets THEN None
                        ELSE IF t \in Changed(c) /\ c.states[t].token # None
                        THEN c.states[t].token ELSE c.tokens[t]
    BY <1>2, <1>7 DEF TakesChanges
  <2>8. t \in DOMAIN c.states => t \in DOMAIN d.states
    BY <1>7
  <2> QED
    BY <1>5, <2>2, <2>4, <2>5, <2>6, <2>7, <2>8 DEF EventFor
<1> QED
  BY <1>6, <1>7, <1>8

\* What is gathered when a snapshot is raised.
RaisedWith(c, m, n) ==
  /\ Gathered(c, m, n) /\ Versioned(c, m) /\ RaiseWatchSnapshot(c, m.token)
  /\ m \in Responses(n) /\ m.type = "NoChange" /\ m.token >= lastRemote

\* A target in the snapshot: its row and what is in memory have what was held.
InSnapshot(t, v) ==
  /\ cache'[t].keys = Held(t) /\ Held(t)' = Held(t)
  /\ memory'[t] = (IF t \in cs.resets THEN None ELSE v)
  /\ cs'.tokens[t] = memory'[t]
  /\ \/ cache'[t].token = memory'[t]
     \/ cache'[t].token = cache[t].token /\ cache'[t].keys = cache[t].keys
  /\ t \in cs.resets => ~views'[t].current

\* A target that is not in the snapshot.
OutOfSnapshot(t) ==
  /\ cache'[t] = cache[t] /\ Held(t)' = Held(t)
  /\ t \in DOMAIN cs.tokens /\ t \notin cs.resets =>
       memory'[t] = memory[t] /\ cs'.tokens[t] = cs.tokens[t] /\ (views'[t].current => views[t].current)

LEMMA ChangedWhenActive ==
  ASSUME IInv, NEW n, n = Len(truth), NEW m, NEW c, RaisedWith(c, m, n), NEW t \in DOMAIN cs.states
  PROVE  /\ t \in Changed(c) <=> IsActive(cs, t) /\ c.states[t].dirty
         /\ IsActive(cs, t) =>
              /\ t \in Changed(c)
              /\ c.states[t].token = m.token /\ m.token # None
              /\ c.states[t].changes = cs.states[t].changes
              /\ c.states[t].current = cs.states[t].current
         /\ ~IsActive(cs, t) => c.states[t] = cs.states[t]
<1>1. /\ c.tokens = cs.tokens /\ DOMAIN c.states = DOMAIN cs.states
      /\ c.states[t] = IF IsActive(cs, t) THEN WithToken(cs.states[t], m.token) ELSE cs.states[t]
  BY DEF RaisedWith, Gathered, Versioned
<1>2. n \in Nat /\ cs.states[t] \in States(n)
  BY Types, ClientIs DEF IsTable
<1>3. m.token \in 1 .. n
  BY <1>2, ResponseFields DEF RaisedWith
<1>4. m.token # None /\ m.token \in Tokens(n)
  BY <1>2, <1>3 DEF None, Tokens
<1>5. WithToken(cs.states[t], m.token) = [cs.states[t] EXCEPT !.token = m.token, !.dirty = TRUE]
  BY <1>4 DEF WithToken
<1>6. /\ WithToken(cs.states[t], m.token).token = m.token
      /\ WithToken(cs.states[t], m.token).dirty
      /\ WithToken(cs.states[t], m.token).changes = cs.states[t].changes
      /\ WithToken(cs.states[t], m.token).current = cs.states[t].current
      /\ WithToken(cs.states[t], m.token).outstanding = cs.states[t].outstanding
  BY <1>2, <1>5 DEF States
<1>7. IsActive(c, t) <=> IsActive(cs, t)
  BY <1>1, <1>6 DEF IsActive, StateOf
<1> QED
  BY <1>1, <1>4, <1>6, <1>7 DEF Changed

LEMMA TargetInSnapshot ==
  ASSUME IInv, NEW n, n = Len(truth), NEW m, NEW c, RaisedWith(c, m, n),
         NEW t \in DOMAIN cs.states, IsActive(cs, t)
  PROVE  InSnapshot(t, m.token)
<1>1. /\ t \in Changed(c) /\ c.states[t].token = m.token /\ m.token # None
      /\ c.states[t].changes = cs.states[t].changes
  BY ChangedWhenActive
<1>2. n \in Nat /\ IsClient(c, n) /\ c.tokens = cs.tokens /\ c.resets = cs.resets
      /\ DOMAIN c.states = DOMAIN cs.states
      /\ t \in DOMAIN cs.tokens /\ t \in Targets
      /\ DOMAIN memory = DOMAIN cs.tokens /\ DOMAIN views = DOMAIN cs.tokens
  BY Types DEF RaisedWith, Gathered, Versioned, IsActive
<1>3. cs' = AfterRemoteEvent(c) /\ RaiseWatchSnapshot(c, m.token)
  BY DEF RaisedWith, RaiseWatchSnapshot
<1>4. EventFor(c, cs', t)
  BY <1>2, <1>3, EventIs
<1>5. Matching(cache[t].keys, c.states[t]) = Held(t)
  <2>1. StateOf(cs, t) = cs.states[t]
    BY DEF StateOf
  <2> QED
    BY <1>1, <2>1, SameMatches DEF Held
<1>6. memory'[t] = TokenAfter(c, t) /\ views'[t] = ViewAfter(c, t)
  BY <1>1, <1>2, <1>3 DEF RaiseWatchSnapshot
<1>7. TokenAfter(c, t) = IF t \in cs.resets THEN None ELSE m.token
  BY <1>1, <1>2 DEF TokenAfter
<1>8. PICK mayPersist : cache'[t] = CachedAfter(c, t, mayPersist)
  <2>1. PICK persisted \in SUBSET Changed(c) :
          cache' = [u \in Targets |->
            IF u \in Changed(c) THEN CachedAfter(c, u, u \in persisted) ELSE cache[u]]
    BY <1>3 DEF RaiseWatchSnapshot
  <2>2. cache'[t] = CachedAfter(c, t, t \in persisted)
    BY <1>1, <1>2, <2>1
  <2> QED
    BY <2>2
<1>9. /\ cache'[t].keys = Held(t)
      /\ \/ cache'[t].token = TokenAfter(c, t)
         \/ cache'[t].token = cache[t].token /\ c.states[t].changes = <<>>
  BY <1>5, <1>8 DEF CachedAfter
<1>10. c.states[t].changes = <<>> => Held(t) = cache[t].keys
  <2>1. DOMAIN <<>> = {}
    OBVIOUS
  <2> QED
    BY <1>5, <2>1, SameMatches
<1>11. t \in cs.resets => ~views'[t].current
  <2>1. ViewAfter(c, t).current = (c.states[t].current /\ t \notin c.resets)
    BY DEF ViewAfter
  <2> QED
    BY <1>2, <1>6, <2>1, Zenon
<1>12. cs'.tokens[t] = memory'[t]
  BY <1>1, <1>2, <1>4, <1>6, <1>7 DEF EventFor
<1>13. Held(t)' = Held(t)
  <2>1. StateOf(cs', t).changes = <<>> /\ DOMAIN <<>> = {}
    BY <1>1, <1>4 DEF EventFor
  <2>2. Held(t)' = cache'[t].keys
    BY <2>1, SameMatches DEF Held
  <2> QED
    BY <1>9, <2>2
<1> QED
  BY <1>6, <1>7, <1>9, <1>10, <1>11, <1>12, <1>13 DEF InSnapshot

LEMMA TargetOutOfSnapshot ==
  ASSUME IInv, NEW n, n = Len(truth), NEW m, NEW c, RaisedWith(c, m, n),
         NEW t \in Targets, t \notin DOMAIN cs.states \/ ~IsActive(cs, t)
  PROVE  OutOfSnapshot(t)
<1>1. n \in Nat /\ IsClient(c, n) /\ c.tokens = cs.tokens /\ c.resets = cs.resets
      /\ DOMAIN c.states = DOMAIN cs.states
      /\ DOMAIN memory = DOMAIN cs.tokens /\ DOMAIN views = DOMAIN cs.tokens
      /\ IsTable(views, Views)
  BY Types DEF RaisedWith, Gathered, Versioned
<1>2. t \notin Changed(c)
  BY <1>1, ChangedWhenActive, ChangedListed
<1>3. cs' = AfterRemoteEvent(c) /\ RaiseWatchSnapshot(c, m.token)
  BY DEF RaisedWith, RaiseWatchSnapshot
<1>4. EventFor(c, cs', t)
  BY <1>1, <1>3, EventIs
<1>5. cache'[t] = cache[t]
  BY <1>2, <1>3 DEF RaiseWatchSnapshot
<1>6. StateOf(cs', t).changes = StateOf(cs, t).changes
  <2>1. t \in DOMAIN cs.states => c.states[t] = cs.states[t]
    BY ChangedWhenActive
  <2>2. StateOf(c, t) = StateOf(cs, t)
    BY <1>1, <2>1 DEF StateOf
  <2> QED
    BY <1>2, <1>4, <2>2 DEF EventFor
<1>7. Held(t)' = Held(t)
  BY <1>5, <1>6, SameMatches DEF Held
<1>8. ASSUME t \in DOMAIN cs.tokens, t \notin cs.resets
      PROVE  memory'[t] = memory[t] /\ cs'.tokens[t] = cs.tokens[t] /\ (views'[t].current => views[t].current)
  <2>1. memory'[t] = memory[t]
    BY <1>1, <1>2, <1>3, <1>8 DEF RaiseWatchSnapshot
  <2>2. views'[t] = [views[t] EXCEPT !.current = @ /\ t \notin c.resets]
    BY <1>1, <1>2, <1>3, <1>8 DEF RaiseWatchSnapshot
  <2>3. views[t] \in Views
    BY <1>1, <1>8 DEF IsTable
  <2>4. views'[t].current => views[t].current
    BY <2>2, <2>3 DEF Views
  <2>5. cs'.tokens[t] = cs.tokens[t]
    BY <1>1, <1>2, <1>4, <1>8 DEF EventFor
  <2> QED
    BY <2>1, <2>4, <2>5
<1> QED
  BY <1>5, <1>7, <1>8 DEF OutOfSnapshot

\* What is held of an active target that is not to be reset is what matched it at the version
\* said next.
LEMMA HeldAnnounced ==
  ASSUME IInv, CountInv, Snap, rejections = 0, cs.stream = "Open", cs.responses # <<>>,
         cs.responses[1].type = "NoChange", NEW l, l = Len(cs.responses),
         NEW t \in DOMAIN cs.tokens, IsActive(cs, t), t \notin cs.resets
  PROVE  /\ Held(t) = truth[cs.responses[1].token][t] /\ Followed(t)
         /\ \E b \in 2 .. l + 1 : \E held : FollowedBy(t, 0, b, held) /\ held[1] = Held(t)
<1> DEFINE s == cs.responses  keys == cache[t].keys
<1>1. s \in Seq(Responses(Len(truth))) /\ l \in Nat \ {0}
  <2>1. s \in Seq(Responses(Len(truth)))
    BY Types, ClientIs
  <2> QED
    BY <2>1, TailIs
<1>2. Followed(t)
  <2>1. ~Pending(t)
    BY ActiveIsFollowedNow
  <2> QED
    BY <2>1 DEF Snap, AskedOrFollowed
<1>3. PICK p \in 0 .. l, b \in 0 .. l + 1 :
        \E held \in [0 .. l -> SUBSET Keys] : p <= b /\ FollowedBy(t, p, b, held)
  BY <1>2 DEF Followed
<1>4. PICK held \in [0 .. l -> SUBSET Keys] : p <= b /\ FollowedBy(t, p, b, held)
  BY <1>3
<1>5. /\ IsStart(t, p) /\ Starts(t, p, b, held) /\ Traces(s, t, keys, p, b, held)
      /\ Announced(t, p, b, held)
  BY <1>4 DEF FollowedBy
<1>6. p = 0
  <2>1. NoneOf(cs.requests, t)
    BY <1>2 DEF Followed, NoneOf
  <2> QED
    BY <1>3, <1>5, <2>1, ActiveIsFollowedNow
<1>7. held[0] = Held(t) /\ b # 0
  BY <1>5, <1>6 DEF Starts
<1>8. 1 \in p + 1 .. Len(s) /\ 1 - 1 = 0 /\ 1 \in p + 1 .. Len(cs.responses)
  BY <1>1, <1>6
<1>9. ~Fails(s[1], t, keys, held[0]) /\ Follow(s[1], t, keys, held[0]) = held[0]
  BY DEF Fails, Follow, IsFilter, About
<1>10. b # 1
  BY <1>5, <1>8, <1>9 DEF Traces
<1>11. 1 < b /\ b \in 2 .. l + 1
  BY <1>1, <1>3, <1>7, <1>10
<1>12. held[1] = held[0]
  BY <1>5, <1>8, <1>9, <1>11 DEF Traces
<1>13. held[1] = truth[cs.responses[1].token][t]
  BY <1>5, <1>8, <1>11 DEF Announced
<1> QED
  BY <1>2, <1>4, <1>6, <1>7, <1>11, <1>12, <1>13

\* A target to be reset is asked for again, and a request under way stays so.
LEMMA PendingRaised ==
  ASSUME IInv, CountInv, rejections = 0, Snap, cs.stream = "Open",
         NEW n, n = Len(truth), NEW m, NEW c, RaisedWith(c, m, n), NEW t \in DOMAIN cs.tokens,
         t \in cs.resets \/ Pending(t)
  PROVE  Pending(t)'
<1>1. /\ n \in Nat /\ IsClient(c, n) /\ c.tokens = cs.tokens /\ c.resets = cs.resets
      /\ c.requests = cs.requests /\ cs' = AfterRemoteEvent(c) /\ t \in Targets
  BY Types DEF RaisedWith, Gathered, Versioned, RaiseWatchSnapshot
<1>2. EventFor(c, cs', t)
  BY <1>1, EventIs
<1>3. CASE t \in cs.resets
  <2>1. AskedLast(cs'.requests, t, None)
    BY <1>1, <1>2, <1>3 DEF EventFor
  <2>2. cs'.tokens[t] = None
    BY <1>1, <1>2, <1>3 DEF EventFor
  <2> QED
    BY <2>1, <2>2, PendingIs
<1>4. CASE t \notin cs.resets /\ Pending(t)
  <2>1. ~IsActive(cs, t)
    BY <1>4, ActiveIsFollowedNow
  <2>2. cs'.tokens[t] = cs.tokens[t]
    BY <1>1, <1>4, <2>1, TargetOutOfSnapshot DEF OutOfSnapshot
  <2>3. AskedLast(cs.requests, t, cs.tokens[t])
    BY <1>4, PendingIs
  <2>4. AskedLast(cs'.requests, t, cs.tokens[t])
    BY <1>1, <1>2, <1>4, <2>3 DEF EventFor
  <2> QED
    BY <2>2, <2>4, PendingIs
<1> QED
  BY <1>3, <1>4

\* What is followed stays so when a snapshot is raised.
LEMMA FollowedRaised ==
  ASSUME IInv, CountInv, rejections = 0, Snap, cs.stream = "Open", cs.responses # <<>>,
         NEW n, n = Len(truth), NEW m, m = cs.responses[1], NEW c, RaisedWith(c, m, n),
         UNCHANGED <<truth, served>>,
         NEW t \in DOMAIN cs.tokens, t \in DOMAIN cs.states, Followed(t), t \notin cs.resets
  PROVE  Followed(t)'
<1> DEFINE s == cs.responses  l == Len(s)  M == Responses(n)
<1>1. /\ n \in Nat /\ IsClient(c, n) /\ c.tokens = cs.tokens /\ c.resets = cs.resets
      /\ c.requests = cs.requests /\ c.responses = Tail(s)
      /\ cs' = AfterRemoteEvent(c) /\ t \in Targets /\ lastRemote' = m.token
      /\ s \in Seq(M) /\ IsClient(cs, n) /\ cache[t].keys \in SUBSET Keys
      /\ m \in Responses(n) /\ m.type = "NoChange"
  BY Types, ClientIs DEF RaisedWith, Gathered, Versioned, RaiseWatchSnapshot
<1>2. EventFor(c, cs', t) /\ cs'.resets = {} /\ cs'.responses = Tail(s)
  BY <1>1, EventIs
<1>3. l \in Nat \ {0}
  BY <1>1, TailIs
<1>4. NoneOf(cs.requests, t) /\ t \in DOMAIN served
  BY DEF Followed, NoneOf
<1>5. \A i \in 1 .. Len(cs'.requests) : cs'.requests[i].target # t
  <2>1. NoneOf(cs'.requests, t)
    BY <1>1, <1>2, <1>4 DEF EventFor
  <2> QED
    BY <2>1 DEF NoneOf
<1>6. \A j \in 2 .. l : IsRaised(s[j], lastRemote) => IsRaised(s[j], lastRemote')
  <2> SUFFICES ASSUME NEW j \in 2 .. l, s[j].type = "NoChange" PROVE s[j].token >= m.token
    BY <1>1 DEF IsRaised
  <2>1. 1 \in 1 .. l /\ j \in 1 .. l /\ 1 <= j
    BY <1>3
  <2>2. s[1].token <= s[j].token
    BY <1>1, <2>1 DEF Snap, InOrderAnnounced
  <2>3. s[1].token \in Int /\ s[j].token \in Int
    <3>1. s[1] \in M /\ s[j] \in M
      BY <1>1, <2>1
    <3>2. s[1].token \in 1 .. n /\ s[j].token \in 1 .. n
      BY <1>1, <3>1, ResponseFields
    <3> QED
      BY <1>1, <3>2
  <2> QED
    BY <2>2, <2>3
<1>7. Held(t)' = Held(t) /\ Held(t) \in SUBSET Keys
  <2>1. Held(t)' = Held(t)
    BY <1>1, TargetInSnapshot, TargetOutOfSnapshot DEF InSnapshot, OutOfSnapshot
  <2>2. Held(t) = HeldIn(cs, t, cache[t].keys)
    BY DEF Held, HeldIn
  <2> QED
    BY <1>1, <2>1, <2>2, HeldIsKeys
<1>8. PICK now \in SUBSET Keys : now = Held(t)' /\ now = Held(t)
  BY <1>7
<1>9. CASE IsActive(cs, t)
  <2>1. PICK b \in 2 .. l + 1 : \E held : FollowedBy(t, 0, b, held) /\ held[1] = Held(t)
    BY <1>1, <1>9, HeldAnnounced
  <2>2. PICK held : FollowedBy(t, 0, b, held) /\ held[1] = Held(t)
    BY <2>1
  <2>3. PICK p \in 0 .. l : p = 0
    BY <1>3
  <2>4. /\ p \in 0 .. l /\ b \in 0 .. l + 1 /\ p <= b /\ FollowedBy(t, p, b, held)
        /\ (p <= 1 /\ b > 1 => now = held[1])
        /\ (p <= 1 => (b <= 1 <=> t \in cs'.resets))
        /\ (cache'[t].keys = cache[t].keys \/ (p = 0 /\ cs.responses[1].type = "NoChange"))
    BY <1>1, <1>2, <1>3, <1>8, <2>1, <2>2, <2>3
  <2>5. s \in Seq(M) /\ s # <<>> /\ cs'.responses = Tail(s)
    BY <1>1, <1>2
  <2> HIDE DEF M
  <2> QED
    BY <1>4, <1>5, <1>6, <1>8, <2>4, <2>5, FollowedShifts
<1>10. CASE ~IsActive(cs, t)
  <2>1. PICK p \in 0 .. l, b \in 0 .. l + 1 :
          \E held \in [0 .. l -> SUBSET Keys] : p <= b /\ FollowedBy(t, p, b, held)
    BY DEF Followed
  <2>2. PICK held \in [0 .. l -> SUBSET Keys] : p <= b /\ FollowedBy(t, p, b, held)
    BY <2>1
  <2>3. IsStart(t, p)
    BY <2>2 DEF FollowedBy
  <2>4. p # 0
    BY <1>4, <1>10, <2>1, <2>3, ActiveIsFollowedNow
  <2>5. p # 1
    BY <1>1, <2>3 DEF IsStart
  <2>6. ~(p <= 1)
    BY <1>3, <2>1, <2>4, <2>5
  <2>7. cache'[t].keys = cache[t].keys
    BY <1>1, <1>10, TargetOutOfSnapshot DEF OutOfSnapshot
  <2>8. /\ p \in 0 .. l /\ b \in 0 .. l + 1 /\ p <= b /\ FollowedBy(t, p, b, held)
        /\ (p <= 1 /\ b > 1 => now = held[1])
        /\ (p <= 1 => (b <= 1 <=> t \in cs'.resets))
        /\ (cache'[t].keys = cache[t].keys \/ (p = 0 /\ cs.responses[1].type = "NoChange"))
    BY <2>2, <2>6, <2>7
  <2>9. s \in Seq(M) /\ s # <<>> /\ cs'.responses = Tail(s)
    BY <1>1, <1>2
  <2> HIDE DEF M
  <2> QED
    BY <1>4, <1>5, <1>6, <1>8, <2>8, <2>9, FollowedShifts
<1> QED
  BY <1>9, <1>10

LEMMA RaisedSnap ==
  ASSUME IInv, CountInv, rejections = 0, Snap, cs.stream = "Open", cs.responses # <<>>,
         NEW n, n = Len(truth), NEW m, m = cs.responses[1], NEW c, RaisedWith(c, m, n),
         UNCHANGED <<truth, served, at>>
  PROVE  Snap'
<1>1. /\ n \in Nat /\ IsClient(c, n) /\ c.tokens = cs.tokens /\ c.responses = Tail(cs.responses)
      /\ cs' = AfterRemoteEvent(c) /\ DOMAIN cs.tokens \subseteq Targets
      /\ DOMAIN c.states = DOMAIN cs.states
      /\ m \in Responses(n) /\ m.type = "NoChange"
  BY Types DEF RaisedWith, Gathered, Versioned, RaiseWatchSnapshot
<1>2. /\ cs'.resets = {} /\ cs'.responses = Tail(cs.responses) /\ DOMAIN cs'.tokens = DOMAIN cs.tokens
      /\ \A t \in Targets : EventFor(c, cs', t)
  BY <1>1, EventIs
<1>3. m.token # None
  <2>1. m.token \in 1 .. n
    BY <1>1, ResponseFields
  <2> QED
    BY <1>1, <2>1 DEF None
<1>4. ASSUME NEW t \in DOMAIN cs.states, IsActive(cs, t)
      PROVE  InSnapshot(t, m.token) /\ Describes(memory'[t], cache'[t].keys, t)
  <2>1. InSnapshot(t, m.token)
    BY <1>4, TargetInSnapshot
  <2>2. t \in DOMAIN cs.tokens
    BY <1>4 DEF IsActive
  <2>3. CASE t \in cs.resets
    <3>1. Held(t) = {}
      BY <2>3 DEF Snap, ResetsClosing
    <3> QED
      BY <2>1, <2>3, <3>1 DEF InSnapshot, Describes
  <2>4. CASE t \notin cs.resets
    <3>1. Held(t) = truth[m.token][t]
      BY <1>1, <1>4, <2>2, <2>4, HeldAnnounced
    <3> QED
      BY <1>3, <2>1, <2>4, <3>1 DEF InSnapshot, Describes
  <2> QED
    BY <2>1, <2>3, <2>4
<1>5. ASSUME NEW t \in Targets, t \notin DOMAIN cs.states \/ ~IsActive(cs, t)
      PROVE  OutOfSnapshot(t)
  BY <1>5, TargetOutOfSnapshot
<1>6. RowsDescribed'
  <2> SUFFICES ASSUME NEW t \in Targets PROVE Describes(cache'[t].token, cache'[t].keys, t)
    BY DEF RowsDescribed, Describes
  <2>1. Describes(cache[t].token, cache[t].keys, t)
    BY DEF Snap, RowsDescribed
  <2>2. CASE t \in DOMAIN cs.states /\ IsActive(cs, t)
    <3>1. InSnapshot(t, m.token) /\ Describes(memory'[t], cache'[t].keys, t)
      BY <1>4, <2>2
    <3>2. CASE cache'[t].token = memory'[t]
      BY <3>1, <3>2
    <3>3. CASE cache'[t].token = cache[t].token /\ cache'[t].keys = cache[t].keys
      BY <2>1, <3>3
    <3> QED
      BY <3>1, <3>2, <3>3 DEF InSnapshot
  <2>3. CASE ~(t \in DOMAIN cs.states /\ IsActive(cs, t))
    BY <1>5, <2>1, <2>3 DEF OutOfSnapshot
  <2> QED
    BY <2>2, <2>3
<1>7. TokensDescribed'
  <2> SUFFICES ASSUME NEW t \in DOMAIN cs.tokens
               PROVE  /\ cs'.tokens[t] = memory'[t] /\ Describes(memory'[t], cache'[t].keys, t)
                      /\ views'[t].current => memory'[t] # None
    BY <1>2 DEF TokensDescribed, Describes
  <2>1. t \in DOMAIN cs.states /\ t \in Targets
    BY <1>1 DEF Snap, AskedOrFollowed
  <2>2. CASE IsActive(cs, t)
    BY <1>3, <1>4, <2>1, <2>2 DEF InSnapshot
  <2>3. CASE ~IsActive(cs, t)
    <3>1. t \notin cs.resets
      BY <2>3 DEF Snap, ResetsClosing
    <3>2. /\ cache'[t] = cache[t] /\ memory'[t] = memory[t] /\ cs'.tokens[t] = cs.tokens[t]
          /\ views'[t].current => views[t].current
      BY <1>5, <2>1, <2>3, <3>1 DEF OutOfSnapshot
    <3>3. /\ cs.tokens[t] = memory[t] /\ Describes(memory[t], cache[t].keys, t)
          /\ views[t].current => memory[t] # None
      BY DEF Snap, TokensDescribed
    <3> QED
      BY <3>2, <3>3
  <2> QED
    BY <2>2, <2>3
<1>8. ResetsClosing'
  BY <1>2 DEF ResetsClosing
<1>9. InOrderAnnounced'
  BY <1>2, OrderGathered
<1>10. AskedOrFollowed'
  <2> SUFFICES ASSUME NEW t \in DOMAIN cs.tokens
               PROVE  t \in DOMAIN cs'.states /\ (Pending(t)' \/ Followed(t)')
    BY <1>2 DEF AskedOrFollowed
  <2>1. t \in DOMAIN cs.states /\ (Pending(t) \/ Followed(t)) /\ t \in Targets
    BY <1>1 DEF Snap, AskedOrFollowed
  <2>2. t \in DOMAIN cs'.states
    BY <1>1, <1>2, <2>1 DEF EventFor
  <2>3. CASE t \in cs.resets \/ Pending(t)
    BY <2>2, <2>3, PendingRaised
  <2>4. CASE t \notin cs.resets /\ Followed(t)
    BY <2>1, <2>2, <2>4, FollowedRaised
  <2> QED
    BY <2>1, <2>2, <2>3, <2>4
<1> QED
  BY <1>6, <1>7, <1>8, <1>9, <1>10 DEF Snap

LEMMA ReceiveChangeSnap ==
  ASSUME IInv, CountInv, Snap, IInv', CountInv', rejections = 0, rejections' = 0, ReceiveChange
  PROVE  Snap'
<1> DEFINE n == Len(truth)  m == cs.responses[1]
<1>1. /\ cs.stream = "Open" /\ cs.responses # <<>>
      /\ m \in Responses(n) /\ UNCHANGED <<truth, served, at, rejections>>
      /\ \E c : /\ Gathered(c, m, n)
                /\ m.type = "NoChange" => Versioned(c, m)
                /\ IF IsRaised(m, lastRemote) THEN RaiseWatchSnapshot(c, m.token)
                   ELSE cs' = c /\ UNCHANGED <<views, memory, cache, lastRemote>>
  BY ResponseGathered
<1>2. PICK c : /\ Gathered(c, m, n)
               /\ m.type = "NoChange" => Versioned(c, m)
               /\ IF IsRaised(m, lastRemote) THEN RaiseWatchSnapshot(c, m.token)
                  ELSE cs' = c /\ UNCHANGED <<views, memory, cache, lastRemote>>
  BY <1>1
<1>3. CASE IsRaised(m, lastRemote)
  <2>1. RaisedWith(c, m, n)
    BY <1>1, <1>2, <1>3 DEF RaisedWith, IsRaised
  <2> QED
    BY <1>1, <2>1, RaisedSnap
<1>4. CASE ~IsRaised(m, lastRemote)
  <2>1. Gathered(cs', m, n) /\ UNCHANGED <<views, memory, cache, lastRemote>>
    BY <1>2, <1>4
  <2> QED
    BY <1>1, <1>4, <2>1, GatheredSnap
<1> QED
  BY <1>3, <1>4

(***************************************************************************)
(* The steps together.                                                     *)
(***************************************************************************)

LEMMA InitSnap ==
  ASSUME Init
  PROVE  Snap
<1>1. /\ cs = NewClient /\ cache = [t \in Targets |-> [token |-> None, keys |-> {}]]
  BY DEF Init
<1>2. NothingOfCall(cs) /\ DOMAIN cs.tokens = {} /\ cs.stream # "Open"
  <2>1. NothingOfCall(NewClient) /\ DOMAIN NewClient.tokens = {}
    BY NewClientIs
  <2>2. NewClient.stream = "Stopped"
    BY DEF NewClient
  <2> QED
    BY <1>1, <2>1, <2>2
<1>3. RowsDescribed
  BY <1>1 DEF RowsDescribed, Describes
<1>4. TokensDescribed /\ ResetsClosing /\ AskedOrFollowed
  BY <1>2 DEF TokensDescribed, ResetsClosing, AskedOrFollowed, NothingOfCall
<1>5. InOrderAnnounced
  <2>1. 1 .. Len(cs.responses) = {}
    BY <1>2 DEF NothingOfCall
  <2> QED
    BY <2>1 DEF InOrderAnnounced
<1> QED
  BY <1>3, <1>4, <1>5 DEF Snap

\* A rejection is not taken back.
LEMMA RejectionsStay ==
  ASSUME IInv, [Next]_vars, rejections' = 0
  PROVE  rejections = 0 /\ ~ServerRemovesTarget
<1>1. ~Reject
  BY Counters
<1>2. ~ServerRemovesTarget
  BY <1>1 DEF ServerRemovesTarget
<1>3. UNCHANGED rejections
  <2>1. ASSUME NEW t \in Targets, Listen(t) \/ StopListening(t) PROVE UNCHANGED rejections
    BY <2>1 DEF Listen, StopListening, countVars
  <2>2. CASE \/ DisableNetwork \/ EnableNetwork \/ RestartNetwork \/ ConnectionLost \/ IdleTimeout
    BY <2>2 DEF DisableNetwork, EnableNetwork, RestartNetwork, ConnectionLost, IdleTimeout, countVars
  <2>3. CASE Crash \/ StreamOpens \/ ReceiveChange \/ ReceiveTargetError
    BY <2>3 DEF Crash, StreamOpens, ReceiveChange, ReceiveTargetError, countVars
  <2>4. CASE DocumentChanges \/ ServerCatchesUp
    BY <2>4 DEF DocumentChanges, ServerCatchesUp, countVars
  <2>5. CASE ServerTakesRequest
    BY <1>1, <2>5 DEF ServerTakesRequest
  <2>6. CASE UNCHANGED vars
    BY <2>6 DEF vars, countVars
  <2> QED
    BY <1>2, <2>1, <2>2, <2>3, <2>4, <2>5, <2>6 DEF Next
<1> QED
  BY <1>2, <1>3

LEMMA StutterSnap ==
  ASSUME Snap, UNCHANGED vars
  PROVE  Snap'
<1>1. UNCHANGED <<cs, views, memory, cache, lastRemote, truth, served, at>>
  BY DEF vars, serverVars
<1>2. RowsDescribed' /\ TokensDescribed'
  BY <1>1 DEF Snap, RowsDescribed, TokensDescribed, Describes
<1>3. ResetsClosing' /\ InOrderAnnounced'
  BY <1>1 DEF Snap, ResetsClosing, InOrderAnnounced, Held
<1>4. AskedOrFollowed'
  <2> SUFFICES ASSUME cs.stream = "Open", NEW t \in DOMAIN cs.tokens
               PROVE  t \in DOMAIN cs.states /\ (Pending(t)' \/ Followed(t)')
    BY <1>1 DEF AskedOrFollowed
  <2>1. t \in DOMAIN cs.states /\ (Pending(t) \/ Followed(t))
    BY DEF Snap, AskedOrFollowed
  <2>2. Pending(t) => Pending(t)'
    BY <1>1 DEF Pending
  <2>3. ASSUME Followed(t) PROVE Followed(t)'
    <3>1. \A i \in 1 .. Len(cs'.requests) : cs'.requests[i].target # t
      BY <1>1, <2>3 DEF Followed
    <3>2. Held(t)' = Held(t)
      BY <1>1 DEF Held
    <3> QED
      BY <1>1, <2>3, <3>1, <3>2, FollowedStays
  <2> QED
    BY <2>1, <2>2, <2>3
<1> QED
  BY <1>2, <1>3, <1>4 DEF Snap

LEMMA NextSnap ==
  ASSUME ~Collisions, ~SplitResets, IInv, CountInv, IInv', CountInv', SnapInv, [Next]_vars
  PROVE  SnapInv'
<1> SUFFICES ASSUME rejections' = 0 PROVE Snap'
  BY DEF SnapInv
<1>1. rejections = 0 /\ ~ServerRemovesTarget
  BY RejectionsStay
<1>2. Snap
  BY <1>1 DEF SnapInv
<1>3. ~ReceiveTargetError
  <2>1. cs.responses \in Seq(Responses(Len(truth)))
    BY Types, ClientIs
  <2>2. ASSUME cs.responses # <<>> PROVE Head(cs.responses).type # "Error"
    <3>1. 1 \in DOMAIN cs.responses /\ Head(cs.responses) = cs.responses[1]
      BY <2>1, <2>2
    <3> QED
      BY <1>1, <3>1 DEF CountInv
  <2> QED
    BY <2>2 DEF ReceiveTargetError
<1>4. ASSUME NEW t \in Targets, Listen(t) PROVE Snap'
  BY <1>2, <1>4, ListenSnap
<1>5. ASSUME NEW t \in Targets, StopListening(t) PROVE Snap'
  BY <1>2, <1>5, StopListeningSnap
<1>6. CASE \/ DisableNetwork \/ EnableNetwork \/ RestartNetwork \/ ConnectionLost \/ IdleTimeout
  BY <1>2, <1>6, CallEndsSnap
<1>7. CASE Crash
  BY <1>2, <1>7, CrashSnap
<1>8. CASE StreamOpens
  BY <1>2, <1>8, StreamOpensSnap
<1>9. CASE ReceiveChange
  BY <1>1, <1>2, <1>9, ReceiveChangeSnap
<1>10. CASE DocumentChanges
  BY <1>2, <1>10, DocumentChangesSnap
<1>11. CASE ServerTakesRequest
  BY <1>2, <1>11, ServerTakesRequestSnap
<1>12. CASE ServerCatchesUp
  BY <1>2, <1>12, ServerCatchesUpSnap
<1>13. CASE UNCHANGED vars
  BY <1>2, <1>13, StutterSnap
<1> QED
  BY <1>1, <1>3, <1>4, <1>5, <1>6, <1>7, <1>8, <1>9, <1>10, <1>11, <1>12, <1>13 DEF Next

\* Until the backend rejects a target, what is under way on a call takes what every listened
\* target holds to what matched it at each version announced, unless a Bloom filter claims a
\* deleted document or a failed filter and its snapshot come apart.
THEOREM SnapshotsInductive ==
  ASSUME ~Collisions, ~SplitResets
  PROVE  Spec => []SnapInv
<1>1. Init => SnapInv
  BY InitSnap DEF SnapInv
<1>2. /\ IInv /\ CountInv /\ (IInv /\ CountInv)'
      /\ SnapInv /\ [Next]_vars
      => SnapInv'
  BY NextSnap
<1> QED
  BY <1>1, <1>2, WatchInductive, PTL DEF Spec

\* A resume token RemoteStore will send, or finds on disk, is of a version at which exactly
\* the keys in the cache matched: what the backend sends from it on is all that is missing.
THEOREM TokensDescribeCache ==
  ASSUME ~Collisions, ~SplitResets
  PROVE  Spec => [](rejections = 0 => ResumeTokensDescribeCache)
<1>1. IInv /\ SnapInv => (rejections = 0 => ResumeTokensDescribeCache)
  <2> SUFFICES ASSUME IInv, Snap PROVE ResumeTokensDescribeCache
    BY DEF SnapInv
  <2>1. \A t \in Targets : cache[t].token # None => cache[t].keys = truth[cache[t].token][t]
    BY DEF Snap, RowsDescribed, Describes
  <2>2. \A t \in DOMAIN memory :
          /\ memory[t] # None => cache[t].keys = truth[memory[t]][t]
          /\ cs.tokens[t] \in {None, memory[t]}
    BY Types DEF Snap, TokensDescribed, Describes
  <2> QED
    BY <2>1, <2>2 DEF ResumeTokensDescribeCache
<1> QED
  BY <1>1, WatchInductive, SnapshotsInductive, PTL

\* What SyncEngine shows as current is what matched at a version the backend has announced,
\* and it is what LocalStore has on disk.
THEOREM ViewsAreSnapshots ==
  ASSUME ~Collisions, ~SplitResets
  PROVE  Spec => [](rejections = 0 => CurrentViewsAreSnapshots)
<1>1. IInv /\ SnapInv => (rejections = 0 => CurrentViewsAreSnapshots)
  <2> SUFFICES ASSUME IInv, Snap, NEW t \in DOMAIN views
               PROVE  /\ views[t].synced = cache[t].keys
                      /\ views[t].current =>
                           memory[t] # None /\ views[t].synced = truth[memory[t]][t]
    BY DEF SnapInv, CurrentViewsAreSnapshots
  <2>1. views[t].synced = cache[t].keys
    BY DEF IInv, ViewsFromCache
  <2>2. /\ Describes(memory[t], cache[t].keys, t)
        /\ views[t].current => memory[t] # None
    BY Types DEF Snap, TokensDescribed
  <2> QED
    BY <2>1, <2>2 DEF Describes
<1> QED
  BY <1>1, WatchInductive, SnapshotsInductive, PTL

\* All three, until a rejection: what is resumed from, what is shown and what is counted.
THEOREM ListeningIsSound ==
  ASSUME ~Collisions, ~SplitResets
  PROVE  Spec => []SoundUntilRejection
<1>1. /\ rejections = 0 => ResumeTokensDescribeCache
      /\ rejections = 0 => CurrentViewsAreSnapshots
      /\ rejections = 0 => OutstandingResponsesCounted
      => SoundUntilRejection
  BY DEF SoundUntilRejection
<1> QED
  BY <1>1, TokensDescribeCache, ViewsAreSnapshots, OutstandingCounted, PTL

=============================================================================
