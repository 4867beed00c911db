--------------------------- MODULE WatchInvariant ---------------------------
(***************************************************************************)
(* The inductive invariant of WatchTargets: the types of the listen side   *)
(* and of what is on the wire, that a call leaves nothing behind, that     *)
(* what the aggregator holds are changes to the durable cache, and the     *)
(* count of what is outstanding.                                           *)
(***************************************************************************)
EXTENDS WatchTargets

Tokens(n) == 0 .. n
Changes == UNION {[s -> {"Added", "Modified", "Removed"}] : s \in SUBSET Keys}

Requests(n) == [type : {"Watch", "Unwatch"}, target : Targets, token : Tokens(n)]

\* What the backend sends, when its history has n versions.
Responses(n) ==
  [type : {"Document", "Delete"}, target : Targets, key : Keys]
  \cup [type : {"Added", "Removed", "Reset"}, target : Targets]
  \cup [type : {"Current"}, target : Targets, token : 1 .. n]
  \cup [type : {"NoChange"}, token : 1 .. n]
  \cup [type : {"Filter"}, target : Targets, count : Nat, bloom : SUBSET (Keys \cup NoBloom)]
  \cup [type : {"Error"}, target : Targets, answers : BOOLEAN]

\* A function from some of the targets.
IsTable(f, S) == DOMAIN f \subseteq Targets /\ f \in [DOMAIN f -> S]

States(n) ==
  [outstanding : Int, changes : Changes, token : Tokens(n), current : BOOLEAN, dirty : BOOLEAN]
IsClient(c, n) ==
  /\ c \in [tokens : {c.tokens}, states : {c.states}, resets : SUBSET Targets,
             enabled : BOOLEAN, stream : {"Stopped", "Starting", "Open"}, idle : BOOLEAN,
             requests : Seq(Requests(n)), responses : Seq(Responses(n))]
  /\ IsTable(c.tokens, Tokens(n)) /\ IsTable(c.states, States(n))
Views == [synced : SUBSET Keys, current : BOOLEAN]
Rows(n) == [token : Tokens(n), keys : SUBSET Keys]
Serves(n) == [keys : SUBSET Keys, resumed : BOOLEAN, version : Tokens(n)]

\* Types, in which every token is of a version the backend has had.
Typed ==
  /\ truth \in Seq([Targets -> SUBSET Keys]) /\ Len(truth) \in Versions
  /\ IsClient(cs, Len(truth))
  /\ IsTable(views, Views) /\ IsTable(memory, Tokens(Len(truth)))
  /\ DOMAIN views = DOMAIN cs.tokens /\ DOMAIN memory = DOMAIN cs.tokens
  /\ cache \in [Targets -> Rows(Len(truth))]
  /\ IsTable(served, Serves(Len(truth)))
  /\ lastRemote \in 0 .. Len(truth) /\ at \in 1 .. Len(truth)
  /\ {listens, disruptions, rejections} \subseteq Nat

\* Without an open stream nothing of a call is left.
NothingOfCall(c) ==
  /\ DOMAIN c.states = {} /\ c.resets = {} /\ ~c.idle
  /\ c.requests = <<>> /\ c.responses = <<>>
CallOver(c) == c.stream # "Open" => NothingOfCall(c)

\* When the stream runs, and when its idle timer does.
StreamAsNeeded(c) ==
  /\ c.enabled /\ DOMAIN c.tokens # {} => c.stream # "Stopped"
  /\ ~c.enabled => c.stream = "Stopped"
  /\ c.idle => DOMAIN c.tokens = {}

\* The changes of a target state are changes to the keys of a set, and wait for a snapshot.
Fits(s, keys) ==
  /\ KeysWith(s, "Added") \cap keys = {}
  /\ KeysWith(s, "Modified") \subseteq keys /\ KeysWith(s, "Removed") \subseteq keys
  /\ DOMAIN s.changes # {} => s.dirty
ChangesFitCache == \A t \in DOMAIN cs.states : Fits(cs.states[t], cache[t].keys)

\* A view has the documents of the cache.
ViewsFromCache == \A t \in DOMAIN views : views[t].synced = cache[t].keys

IInv ==
  /\ Typed /\ CallOver(cs) /\ StreamAsNeeded(cs)
  /\ ChangesFitCache /\ ViewsFromCache

-----------------------------------------------------------------------------
(* Counting what is outstanding, until the backend rejects a target.       *)

Answers(m) == m.type \in {"Added", "Removed"} \/ (m.type = "Error" /\ m.answers)
RequestsOf(requests, t) == {i \in DOMAIN requests : requests[i].target = t}
AnswersOf(responses, t) ==
  {i \in DOMAIN responses : Answers(responses[i]) /\ responses[i].target = t}
UnderWay(c, t) == Cardinality(RequestsOf(c.requests, t)) + Cardinality(AnswersOf(c.responses, t))

CountInv ==
  rejections = 0 =>
    /\ \A i \in DOMAIN cs.responses : cs.responses[i].type # "Error"
    /\ \A t \in Targets : StateOf(cs, t).outstanding = UnderWay(cs, t)
=============================================================================
