--------------------------- MODULE WatchSnapshots ---------------------------
(***************************************************************************)
(* Why the resume tokens of WatchTargets describe the cache, until a       *)
(* rejection and unless a Bloom filter claims a deleted document or a      *)
(* reset is split: what is still under way on a call takes the keys a      *)
(* target holds to what matched it at each version that is announced.      *)
(***************************************************************************)
EXTENDS WatchInvariant

\* The documents an existence filter m removes from a view that has synced.
Absent(m, synced) == IF m.bloom = NoBloom THEN {} ELSE synced \ m.bloom

About(m, t) == m.type # "NoChange" /\ m.target = t
IsFilter(m, t) == About(m, t) /\ m.type = "Filter"
IsAnswer(m, t) == Answers(m) /\ m.target = t

\* Whether response m makes the client reset t, when its view has synced and what it holds,
\* the view with the changes gathered for it, is held.
Fails(m, t, synced, held) ==
  /\ IsFilter(m, t) /\ Cardinality(held) # m.count
  /\ m.bloom = NoBloom \/ m.count # Cardinality(held) - Cardinality(Absent(m, synced))

\* What the client holds of t after a response that does not make it reset t.
Follow(m, t, synced, held) ==
  CASE About(m, t) /\ m.type = "Document" -> held \cup {m.key}
    [] About(m, t) /\ m.type = "Delete" -> held \ {m.key}
    [] About(m, t) /\ m.type = "Reset" -> {}
    [] IsFilter(m, t) /\ Cardinality(held) # m.count -> held \ Absent(m, synced)
    [] OTHER -> held

\* held is what the client holds of t after each response from place p on, up to the
\* response at place b, the first to make it reset t.
Traces(responses, t, synced, p, b, held) ==
  /\ held \in [0 .. Len(responses) -> SUBSET Keys]
  /\ \A i \in p + 1 .. Len(responses) :
       /\ i < b => /\ ~Fails(responses[i], t, synced, held[i - 1])
                   /\ held[i] = Follow(responses[i], t, synced, held[i - 1])
       /\ i = b => Fails(responses[i], t, synced, held[i - 1])

-----------------------------------------------------------------------------
\* What the client holds of t now.
Held(t) == Matching(cache[t].keys, StateOf(cs, t))

Describes(token, keys, t) == keys = IF token = None THEN {} ELSE truth[token][t]

IsRaised(m, last) == m.type = "NoChange" /\ m.token >= last

\* After place i, a snapshot is raised before anything but Current is said of t.
Closing(responses, t, i, last) ==
  \E j \in i + 1 .. Len(responses) :
    /\ IsRaised(responses[j], last)
    /\ \A x \in i + 1 .. j - 1 :
         /\ responses[x].type # "NoChange"
         /\ About(responses[x], t) => responses[x].type = "Current"

\* The last request about t asks the backend to resume from its token.
Pending(t) ==
  \E i \in 1 .. Len(cs.requests) :
    /\ cs.requests[i] = WatchRequest(t, cs.tokens[t])
    /\ \A j \in i + 1 .. Len(cs.requests) : cs.requests[j].target # t

\* The place p the client follows t from: the last answer for t, or now.
IsStart(t, p) ==
  /\ p # 0 => cs.responses[p] = [type |-> "Added", target |-> t]
  /\ \A i \in p + 1 .. Len(cs.responses) : ~IsAnswer(cs.responses[i], t)

Starts(t, p, b, held) ==
  IF p = 0 THEN held[0] = Held(t) /\ (b = 0 <=> t \in cs.resets)
  ELSE b > p /\ held[p] = cache[t].keys

\* The snapshots that are announced, and what the backend has sent, are what is held then.
Announced(t, p, b, held) ==
  /\ \A i \in p + 1 .. Len(cs.responses) :
       cs.responses[i].type = "NoChange" /\ i < b => held[i] = truth[cs.responses[i].token][t]
  /\ b = Len(cs.responses) + 1 => held[Len(cs.responses)] = served[t].keys

\* Only the first snapshot after t was asked for has an existence filter for t in it.
FiltersFirst(t, p) ==
  /\ \A i \in p + 1 .. Len(cs.responses) : IsFilter(cs.responses[i], t) =>
       /\ \A j \in p + 1 .. i : cs.responses[j].type # "NoChange"
       /\ Closing(cs.responses, t, i, lastRemote)
  /\ served[t].version = None =>
       /\ served[t].keys = cache[t].keys
       /\ \A i \in p + 1 .. Len(cs.responses) :
            cs.responses[i].type # "NoChange" /\ ~About(cs.responses[i], t)

\* The backend serves t, and the responses under way account for what it has sent.
FollowedBy(t, p, b, held) ==
  /\ IsStart(t, p) /\ Starts(t, p, b, held) /\ Traces(cs.responses, t, cache[t].keys, p, b, held)
  /\ Announced(t, p, b, held) /\ FiltersFirst(t, p)

Followed(t) ==
  /\ t \in DOMAIN served
  /\ \A i \in 1 .. Len(cs.requests) : cs.requests[i].target # t
  /\ \E p \in 0 .. Len(cs.responses), b \in 0 .. Len(cs.responses) + 1 :
       \E held \in [0 .. Len(cs.responses) -> SUBSET Keys] : p <= b /\ FollowedBy(t, p, b, held)

-----------------------------------------------------------------------------
\* Durable rows describe the keys they stand with.
RowsDescribed == \A t \in Targets : Describes(cache[t].token, cache[t].keys, t)

\* The tables in memory agree on the token of a listened target, and it describes the cache.
TokensDescribed ==
  \A t \in DOMAIN cs.tokens :
    /\ cs.tokens[t] = memory[t] /\ Describes(memory[t], cache[t].keys, t)
    /\ views[t].current => memory[t] # None

\* A target waiting for its reset holds nothing, and a snapshot is about to be raised.
ResetsClosing ==
  \A t \in cs.resets :
    /\ t \in DOMAIN cs.tokens /\ IsActive(cs, t)
    /\ Held(t) = {} /\ Closing(cs.responses, t, 0, lastRemote)

\* Versions are announced in order.
InOrderAnnounced ==
  \A i, j \in 1 .. Len(cs.responses) :
    cs.responses[i].type = "NoChange" /\ cs.responses[j].type = "NoChange" /\ i <= j =>
      cs.responses[i].token <= cs.responses[j].token /\ cs.responses[j].token <= at

\* On an open stream every listened target is asked for or followed.
AskedOrFollowed ==
  cs.stream = "Open" =>
    \A t \in DOMAIN cs.tokens : t \in DOMAIN cs.states /\ (Pending(t) \/ Followed(t))

Snap == RowsDescribed /\ TokensDescribed /\ ResetsClosing /\ InOrderAnnounced /\ AskedOrFollowed

SnapInv == rejections = 0 => Snap
=============================================================================
