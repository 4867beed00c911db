---------------------------- MODULE WatchTargets ----------------------------
(***************************************************************************)
(* The read path of the Firestore client: queries listened to through      *)
(* SyncEngine::Listen become targets of the RemoteStore, are sent over the *)
(* WatchStream, and the backend's answers are gathered by the              *)
(* WatchChangeAggregator until a global snapshot turns them into a         *)
(* RemoteEvent, which LocalStore and the views apply.  All of it runs on   *)
(* the worker AsyncQueue, one task per action; requests and responses      *)
(* travel in order and can be overtaken by the application, the network    *)
(* and the process dying.                                                  *)
(*                                                                         *)
(* Of a document only its key is kept, so what is followed is which keys   *)
(* match which target.  A snapshot version is a position in the backend's  *)
(* history, and the resume token issued at a version is that version.      *)
(* Limbo resolution, the write path and garbage collection are not here.   *)
(***************************************************************************)
EXTENDS Integers, Sequences, FiniteSets, SequencesExt, Functions

CONSTANTS
  Targets,        \* target ids
  Keys,           \* document keys
  MaxVersions,    \* bound: length of the backend's history
  MaxListens,     \* bound: calls of SyncEngine::Listen
  MaxDisruptions, \* bound: lost connections, network changes, crashes, rejections
  MaxRejections,  \* bound: targets the backend removes with an error
  MaxInFlight,    \* bound: responses under way when the backend sends an update
  Modifications,  \* whether matching documents change without ceasing to match
  Collisions,     \* whether a Bloom filter may claim a deleted document
  SplitResets     \* whether a failed filter and its snapshot may be apart: a listener stops in
                  \* between, or the filter is of a version behind the last remote one

ASSUME WatchConstants ==
  /\ MaxVersions \in Nat \ {0}
  /\ {MaxListens, MaxDisruptions, MaxRejections, MaxInFlight} \subseteq Nat
  /\ {Modifications, Collisions, SplitResets} \subseteq BOOLEAN
  /\ IsFiniteSet(Targets) /\ IsFiniteSet(Keys)

VARIABLES
  cs,          \* RemoteStore's listen side: targets, aggregator, stream and its call
  views,       \* SyncEngine: listened target -> its view's synced documents
  memory,      \* LocalStore::target_data_by_target_: listened target -> resume token
  cache,       \* durable: target -> resume token and matching keys
  lastRemote,  \* durable: last remote snapshot version
  truth,       \* backend: history of which keys match which target
  served,      \* backend: what it has sent on this call, by target
  at,          \* backend: the version this call has been brought up to
  listens, disruptions, rejections   \* history: how many so far

serverVars == <<truth, served, at>>
countVars  == <<listens, disruptions, rejections>>
vars == <<cs, views, memory, cache, lastRemote, serverVars, countVars>>

None == 0               \* SnapshotVersion::None(), and the empty resume token
Versions == 1 .. MaxVersions
NoBloom == {"NoBloom"}  \* an existence filter without Bloom filter
Put(f, x, y) == [z \in DOMAIN f \cup {x} |-> IF z = x THEN y ELSE f[z]]
Without(f, x) == Restrict(f, DOMAIN f \ {x})
Later(v, w) == IF v >= w THEN v ELSE w

\* The sequences of a function one after the other, in some order of its arguments.
InSomeOrder(seqs) ==
  FlattenSeq([i \in 1 .. Cardinality(DOMAIN seqs) |-> seqs[SetToSeq(DOMAIN seqs)[i]]])

-----------------------------------------------------------------------------
(* The aggregator's TargetStates.                                          *)

NewTargetState ==
  [outstanding |-> 0, changes |-> <<>>, token |-> None, current |-> FALSE, dirty |-> TRUE]

\* EnsureTargetState: an unknown target gets a fresh state.
StateOf(c, t) == IF t \in DOMAIN c.states THEN c.states[t] ELSE NewTargetState
WithState(c, t, s) == [c EXCEPT !.states = Put(c.states, t, s)]

\* Fault: a target is active as soon as the client listens to it.
IsActiveAtOnce(c, t) == t \in DOMAIN c.tokens

\* TargetDataForActiveTarget has a value.
IsActive(c, t) == t \in DOMAIN c.tokens /\ StateOf(c, t).outstanding = 0

\* TargetState::UpdateResumeToken.
WithToken(s, token) ==
  IF token = None THEN s ELSE [s EXCEPT !.token = token, !.dirty = TRUE]

\* AddDocumentToTarget.
AddDocument(c, synced, t, k) ==
  LET s == StateOf(c, t)
      change == IF k \in synced[t] THEN "Modified" ELSE "Added"
  IN  IF ~IsActive(c, t) THEN c
      ELSE WithState(c, t, [s EXCEPT !.changes = Put(s.changes, k, change), !.dirty = TRUE])

\* RemoveDocumentFromTarget, for each of some documents.
RemoveDocuments(c, synced, t, keys) ==
  LET s == StateOf(c, t)
      changes == [k \in (DOMAIN s.changes \ keys) \cup (keys \cap synced[t]) |->
                    IF k \in keys THEN "Removed" ELSE s.changes[k]]
  IN  IF ~IsActive(c, t) THEN c
      ELSE WithState(c, t, [s EXCEPT !.changes = changes, !.dirty = TRUE])

\* ResetTarget of an active target: removes are synthesized for what it holds.
ResetTarget(c, synced, t) ==
  WithState(c, t, [NewTargetState EXCEPT !.changes = [k \in synced[t] |-> "Removed"]])

KeysWith(s, change) == {k \in DOMAIN s.changes : s.changes[k] = change}

\* GetCurrentDocumentCountForTarget.
DocumentCount(c, synced, t) ==
  Cardinality(synced[t]) + Cardinality(KeysWith(StateOf(c, t), "Added"))
    - Cardinality(KeysWith(StateOf(c, t), "Removed"))

\* HandleExistenceFilter for a query target.  Either the Bloom filter accounts for
\* the difference or the target is reset and listened to again.
HandleExistenceFilter(c, synced, m) ==
  LET count == DocumentCount(c, synced, m.target)
      absent == IF m.bloom = NoBloom THEN {} ELSE synced[m.target] \ m.bloom
      filtered == RemoveDocuments(c, synced, m.target, absent)
      reset == [ResetTarget(filtered, synced, m.target)
                  EXCEPT !.resets = c.resets \cup {m.target}]
  IN  IF ~IsActive(c, m.target) \/ count = m.count THEN c
      ELSE IF m.bloom # NoBloom /\ m.count = count - Cardinality(absent) THEN filtered
      ELSE reset

\* HandleTargetChange, Added: once nothing is outstanding old changes are dropped.
Added(c, t) ==
  LET s == [StateOf(c, t) EXCEPT !.outstanding = @ - 1] IN
  WithState(c, t, IF s.outstanding = 0
                  THEN [s EXCEPT !.changes = <<>>, !.dirty = FALSE] ELSE s)

\* HandleTargetChange, Removed without an error.
Removed(c, t) ==
  LET s == [StateOf(c, t) EXCEPT !.outstanding = @ - 1] IN
  IF s.outstanding = 0 THEN [c EXCEPT !.states = Without(c.states, t)]
  ELSE WithState(c, t, s)

\* HandleTargetChange, NoChange: with no target ids it is for every active target.
NoChange(c, token) ==
  [c EXCEPT !.states = [t \in DOMAIN c.states |->
     IF IsActive(c, t) THEN WithToken(c.states[t], token) ELSE c.states[t]]]

\* What OnWatchStreamChange makes the aggregator do with m, except for target errors.
Aggregate(c, synced, m) ==
  CASE m.type = "Document" -> AddDocument(c, synced, m.target, m.key)
    [] m.type = "Delete"   -> RemoveDocuments(c, synced, m.target, {m.key})
    [] m.type = "Filter"   -> HandleExistenceFilter(c, synced, m)
    [] m.type = "Added"    -> Added(c, m.target)
    [] m.type = "Removed"  -> Removed(c, m.target)
    [] m.type = "NoChange" -> NoChange(c, m.token)
    [] m.type = "Current" ->
         IF ~IsActive(c, m.target) THEN WithState(c, m.target, StateOf(c, m.target))
         ELSE WithState(c, m.target,
                WithToken([StateOf(c, m.target) EXCEPT !.current = TRUE, !.dirty = TRUE], m.token))
    [] m.type = "Reset" ->
         IF ~IsActive(c, m.target) THEN WithState(c, m.target, StateOf(c, m.target))
         ELSE ResetTarget(c, synced, m.target)

-----------------------------------------------------------------------------
(* The watch stream and the RemoteStore's requests.                        *)

ShouldStartWatchStream(c) ==
  c.enabled /\ c.stream = "Stopped" /\ DOMAIN c.tokens # {}

NoCall(c, state) ==
  [c EXCEPT !.stream = state, !.idle = FALSE, !.states = <<>>, !.resets = {},
            !.requests = <<>>, !.responses = <<>>]

\* StartWatchStream, when it should: with a fresh aggregator.
StartIfNeeded(c) == IF ShouldStartWatchStream(c) THEN NoCall(c, "Starting") ELSE c

\* Fault: the stream is not started again for the targets still listened to.
ClosedForGood(c) == NoCall(c, "Stopped")

\* OnWatchStreamClose: the aggregator is dropped and the stream started again if needed.
Closed(c) == StartIfNeeded(NoCall(c, "Stopped"))

\* Fault: the requests are not counted.
AskUncounted(c, asked) ==
  [c EXCEPT !.states = [t \in DOMAIN c.states \cup DOMAIN asked |-> StateOf(c, t)],
            !.requests = @ \o InSomeOrder(asked),
            !.idle = @ /\ DOMAIN asked = {}]

\* Some requests for each of some targets: RecordPendingTargetRequest counts them, and
\* Stream::Write cancels the idle timer.
Ask(c, asked) ==
  [c EXCEPT !.states = [t \in DOMAIN c.states \cup DOMAIN asked |->
              IF t \in DOMAIN asked
              THEN [StateOf(c, t) EXCEPT !.outstanding = @ + Len(asked[t])] ELSE c.states[t]],
            !.requests = @ \o InSomeOrder(asked),
            !.idle = @ /\ DOMAIN asked = {}]

WatchRequest(t, token) == [type |-> "Watch", target |-> t, token |-> token]
UnwatchRequest(t) == [type |-> "Unwatch", target |-> t, token |-> None]

SendWatchRequest(c, t, token) == Ask(c, [u \in {t} |-> <<WatchRequest(t, token)>>])
SendUnwatchRequest(c, t) == Ask(c, [u \in {t} |-> <<UnwatchRequest(t)>>])

\* The targets CreateRemoteEvent reports a TargetChange for.
Changed(c) == {t \in DOMAIN c.states : IsActive(c, t) /\ c.states[t].dirty}

\* Fault: the changes of a raised snapshot are not taken out of the aggregator.
AfterRemoteEventKeepingChanges(c) ==
  [c EXCEPT !.tokens = [t \in DOMAIN c.tokens |->
                          IF t \in Changed(c) THEN Later(c.tokens[t], c.states[t].token) ELSE c.tokens[t]]]

\* RaiseWatchSnapshot up to the event: the changes are taken out of the aggregator,
\* resume tokens are kept, and a mismatched target forgets its token, is unwatched and
\* watched again.
AfterRemoteEvent(c) ==
  LET cleared(s) == [s EXCEPT !.changes = <<>>, !.dirty = FALSE]
      taken == [c EXCEPT
        !.states = [t \in DOMAIN c.states |->
          IF t \in Changed(c) THEN cleared(c.states[t]) ELSE c.states[t]],
        !.tokens = [t \in DOMAIN c.tokens |->
          IF t \in c.resets THEN None
          ELSE IF t \in Changed(c) /\ c.states[t].token # None
          THEN c.states[t].token ELSE c.tokens[t]],
        !.resets = {}]
  IN  Ask(taken, [t \in c.resets \cap DOMAIN c.tokens |->
                    <<UnwatchRequest(t), WatchRequest(t, None)>>])

-----------------------------------------------------------------------------
(* What SyncEngine and LocalStore do with a RemoteEvent.                   *)

\* The keys of a target after its TargetChange.
Matching(keys, s) == (keys \cup KeysWith(s, "Added")) \ KeysWith(s, "Removed")

\* View::ApplyChanges: documents the backend has assigned, and whether the view is synced.
ViewAfter(c, t) ==
  LET s == c.states[t] IN
  [synced |-> Matching(views[t].synced, s), current |-> s.current /\ t \notin c.resets]

\* LocalStore::ApplyRemoteEvent: the resume token of a target in memory.
TokenAfter(c, t) ==
  IF t \in c.resets THEN None
  ELSE IF c.states[t].token # None THEN c.states[t].token ELSE memory[t]

\* Fault: the resume token is persisted but not the keys it stands for.
CachedTokenOnly(c, t, mayPersist) ==
  [token |-> IF mayPersist THEN TokenAfter(c, t) ELSE cache[t].token, keys |-> cache[t].keys]

\* The durable row and matching keys of a target: ShouldPersistTargetData is certain
\* when there was no token or documents changed, and else a matter of elapsed time.
CachedAfter(c, t, mayPersist) ==
  LET s == c.states[t]
      persist == \/ memory[t] = None \/ s.changes # <<>>
                 \/ mayPersist /\ t \notin c.resets
  IN  [token |-> IF persist THEN TokenAfter(c, t) ELSE cache[t].token,
       keys |-> Matching(cache[t].keys, s)]

\* SyncEngine::ApplyRemoteEvent at a snapshot version, and the RemoteStore around it.
RaiseWatchSnapshot(c, version) ==
  /\ cs' = AfterRemoteEvent(c)
  /\ views' = [t \in DOMAIN views |->
       IF t \in Changed(c) THEN ViewAfter(c, t)
       ELSE [views[t] EXCEPT !.current = @ /\ t \notin c.resets]]
  /\ memory' = [t \in DOMAIN memory |-> IF t \in Changed(c) THEN TokenAfter(c, t) ELSE memory[t]]
  /\ \E persisted \in SUBSET Changed(c) :
       cache' = [t \in Targets |->
         IF t \in Changed(c) THEN CachedAfter(c, t, t \in persisted) ELSE cache[t]]
  /\ lastRemote' = version

\* Fault: the target data in memory outlives the target.
ReleasedKeepingMemory(t) ==
  views' = Without(views, t) /\ cache' = [cache EXCEPT ![t].token = memory[t]] /\ UNCHANGED memory

\* LocalStore::ReleaseTarget with RemoveAndCleanupTarget: the target data is persisted.
Release(t) ==
  /\ views' = Without(views, t)
  /\ memory' = Without(memory, t)
  /\ cache' = [cache EXCEPT ![t].token = memory[t]]

-----------------------------------------------------------------------------
NewClient == [tokens |-> <<>>, states |-> <<>>, resets |-> {}, enabled |-> TRUE,
              stream |-> "Stopped", idle |-> FALSE, requests |-> <<>>, responses |-> <<>>]

Init ==
  /\ cs = NewClient
  /\ views = <<>> /\ memory = <<>>
  /\ cache = [t \in Targets |-> [token |-> None, keys |-> {}]]
  /\ lastRemote = None
  /\ truth \in {<<w>> : w \in [Targets -> SUBSET Keys]}
  /\ served = <<>> /\ at = 1
  /\ listens = 0 /\ disruptions = 0 /\ rejections = 0

\* The backend stops serving a call that is gone.
CallEnds == served' = <<>> /\ UNCHANGED <<truth, at>>

Disrupt == disruptions < MaxDisruptions /\ disruptions' = disruptions + 1
Reject == rejections < MaxRejections /\ rejections' = rejections + 1 /\ Disrupt

\* SyncEngine::Listen to a query whose target is t: the view starts from the cache.
Listen(t) ==
  LET listening == [cs EXCEPT !.tokens = Put(@, t, cache[t].token)] IN
  /\ t \notin DOMAIN views
  /\ listens < MaxListens
  /\ listens' = listens + 1
  /\ memory' = Put(memory, t, cache[t].token)
  /\ views' = Put(views, t, [synced |-> cache[t].keys, current |-> FALSE])
  /\ cs' = IF cs.stream = "Open" THEN SendWatchRequest(listening, t, cache[t].token)
           ELSE StartIfNeeded(listening)
  /\ UNCHANGED <<cache, lastRemote, serverVars, disruptions, rejections>>

\* SyncEngine::StopListening to the last query of target t.
StopListening(t) ==
  LET stopped == [cs EXCEPT !.tokens = Without(cs.tokens, t)]
      told == IF cs.stream = "Open" THEN SendUnwatchRequest(stopped, t) ELSE stopped
  IN
  /\ t \in DOMAIN views
  /\ SplitResets \/ t \notin cs.resets
  /\ cs' = IF DOMAIN told.tokens = {} /\ told.stream = "Open" THEN [told EXCEPT !.idle = TRUE] ELSE told
  /\ Release(t)
  /\ UNCHANGED <<lastRemote, serverVars, countVars>>

\* RemoteStore::DisableNetwork and RemoteStore::EnableNetwork.
DisableNetwork ==
  /\ cs.enabled /\ Disrupt
  /\ cs' = NoCall([cs EXCEPT !.enabled = FALSE], "Stopped")
  /\ CallEnds
  /\ UNCHANGED <<views, memory, cache, lastRemote, listens, rejections>>

EnableNetwork ==
  /\ ~cs.enabled
  /\ cs' = StartIfNeeded([cs EXCEPT !.enabled = TRUE])
  /\ UNCHANGED <<views, memory, cache, lastRemote, serverVars, countVars>>

\* RemoteStore::HandleCredentialChange and a connectivity change: RestartNetwork.
RestartNetwork ==
  /\ cs.enabled /\ cs.stream # "Stopped" /\ Disrupt
  /\ cs' = Closed(cs)
  /\ CallEnds
  /\ UNCHANGED <<views, memory, cache, lastRemote, listens, rejections>>

\* The call, or the attempt at one, ends with an error: Stream::OnStreamFinish.
ConnectionLost ==
  /\ cs.stream # "Stopped" /\ Disrupt
  /\ cs' = Closed(cs)
  /\ CallEnds
  /\ UNCHANGED <<views, memory, cache, lastRemote, listens, rejections>>

\* Stream::Close by the idle timer StopListening set.
IdleTimeout ==
  /\ cs.stream = "Open" /\ cs.idle
  /\ cs' = Closed(cs)
  /\ CallEnds
  /\ UNCHANGED <<views, memory, cache, lastRemote, countVars>>

\* The process dies and is started again: only what is durable is left.
Crash ==
  /\ Disrupt
  /\ cs' = NewClient
  /\ views' = <<>> /\ memory' = <<>>
  /\ CallEnds
  /\ UNCHANGED <<cache, lastRemote, listens, rejections>>

\* RemoteStore::OnWatchStreamOpen: every target is watched from its resume token.
\* The backend may be behind what an earlier call has shown.
StreamOpens ==
  LET open == [cs EXCEPT !.stream = "Open"] IN
  /\ cs.stream = "Starting"
  /\ cs' = Ask(open, [t \in DOMAIN cs.tokens |-> <<WatchRequest(t, cs.tokens[t])>>])
  /\ at' \in 1 .. Len(truth)
  /\ served' = <<>>
  /\ UNCHANGED <<views, memory, cache, lastRemote, truth, countVars>>

\* RemoteStore::OnWatchStreamChange.  A response with a snapshot version not behind
\* the last one raises a snapshot.
ReceiveChange ==
  /\ cs.stream = "Open" /\ cs.responses # <<>>
  /\ Head(cs.responses).type # "Error"
  /\ LET m == Head(cs.responses)
         synced == [t \in DOMAIN views |-> views[t].synced]
         c == Aggregate([cs EXCEPT !.responses = Tail(@)], synced, m)
     IN  IF m.type = "NoChange" /\ m.token >= lastRemote
         THEN RaiseWatchSnapshot(c, m.token)
         ELSE cs' = c /\ UNCHANGED <<views, memory, cache, lastRemote>>
  /\ UNCHANGED <<serverVars, countVars>>

\* RemoteStore::ProcessTargetError, with SyncEngine::HandleRejectedListen.
ReceiveTargetError ==
  /\ cs.stream = "Open" /\ cs.responses # <<>>
  /\ Head(cs.responses).type = "Error"
  /\ LET t == Head(cs.responses).target
         c == [cs EXCEPT !.responses = Tail(@)]
     IN  IF t \in DOMAIN cs.tokens
         THEN /\ cs' = [c EXCEPT !.tokens = Without(@, t), !.states = Without(@, t)]
              /\ Release(t)
         ELSE cs' = c /\ UNCHANGED <<views, memory, cache>>
  /\ UNCHANGED <<lastRemote, serverVars, countVars>>

-----------------------------------------------------------------------------
(* The backend.                                                            *)

Respond(messages) == cs' = [cs EXCEPT !.responses = @ \o messages]

\* A document starts or stops matching a target.
DocumentChanges ==
  /\ Len(truth) < MaxVersions
  /\ \E t \in Targets, k \in Keys :
       LET w == Last(truth) IN
       truth' = Append(truth, [w EXCEPT ![t] = IF k \in @ THEN @ \ {k} ELSE @ \cup {k}])
  /\ UNCHANGED <<cs, views, memory, cache, lastRemote, served, at, countVars>>

\* The backend takes a request, and acknowledges it or rejects the target.
ServerTakesRequest ==
  /\ cs.stream = "Open" /\ cs.requests # <<>>
  /\ LET q == Head(cs.requests)
         t == q.target
         answer(m) == cs' = [cs EXCEPT !.requests = Tail(@), !.responses = Append(@, m)]
     IN  \/ /\ q.type = "Watch"
            /\ answer([type |-> "Added", target |-> t])
            /\ served' = Put(served, t,
                 [keys |-> IF q.token = None THEN {} ELSE truth[q.token][t],
                  resumed |-> q.token # None, version |-> None])
            /\ at' = Later(at, q.token)
            /\ UNCHANGED <<disruptions, rejections>>
         \/ /\ q.type = "Watch" /\ Reject
            /\ answer([type |-> "Error", target |-> t, answers |-> TRUE])
            /\ UNCHANGED <<served, at>>
         \/ /\ q.type = "Unwatch"
            /\ answer([type |-> "Removed", target |-> t])
            /\ served' = Without(served, t)
            /\ UNCHANGED <<at, disruptions, rejections>>
  /\ UNCHANGED <<views, memory, cache, lastRemote, truth, listens>>

\* The backend stops serving a target, for instance because access was revoked.
ServerRemovesTarget ==
  /\ cs.stream = "Open" /\ Reject
  /\ \E t \in DOMAIN served :
       /\ Respond(<<[type |-> "Error", target |-> t, answers |-> FALSE]>>)
       /\ served' = Without(served, t)
  /\ UNCHANGED <<views, memory, cache, lastRemote, truth, at, listens>>

Messages(type, t, keys) ==
  [i \in 1 .. Cardinality(keys) |-> [type |-> type, target |-> t, key |-> SetToSeq(keys)[i]]]

\* The ways the backend brings target t from the keys it has sent to the keys of version v:
\* by changes, by a reset, or for a resumed target by new documents and an existence filter.
Updates(t, v) ==
  LET old == served[t].keys
      new == truth[v][t]
      gone == old \ new
      touched == IF Modifications THEN SUBSET (old \cap new) ELSE {{}}
      changes(also, removed) ==
        Messages("Document", t, (new \ old) \cup also) \o Messages("Delete", t, removed)
      filter(bloom) == <<[type |-> "Filter", target |-> t, count |-> Cardinality(new), bloom |-> bloom]>>
      reset == <<[type |-> "Reset", target |-> t]>> \o Messages("Document", t, new)
      claimed == IF Collisions THEN SUBSET gone ELSE {{}}
  IN  {changes(m, gone) : m \in touched}
      \cup {reset}
      \cup IF \/ ~served[t].resumed \/ served[t].version # None
              \/ ~SplitResets /\ v < lastRemote THEN {}
           ELSE {changes(m, r) \o filter(NoBloom) : m \in touched, r \in SUBSET gone}
                \cup UNION {{changes(m, r) \o filter(((old \cap new) \ m) \cup p) : p \in claimed} :
                              m \in touched, r \in SUBSET gone}

\* The backend brings every target of the call to one version and says so.
ServerCatchesUp ==
  /\ cs.stream = "Open" /\ DOMAIN served # {} /\ Len(cs.responses) <= MaxInFlight
  /\ \E v \in at .. Len(truth) :
       /\ v > at \/ \E t \in DOMAIN served : served[t].version # at
       /\ \E update \in [DOMAIN served -> UNION {Updates(t, v) : t \in DOMAIN served}] :
            /\ \A t \in DOMAIN served : update[t] \in Updates(t, v)
            /\ LET current(t) ==
                     IF served[t].version # None /\ (update[t] = <<>> \/ Head(update[t]).type # "Reset")
                     THEN <<>> ELSE <<[type |-> "Current", target |-> t, token |-> v]>>
                   all == InSomeOrder([t \in DOMAIN served |-> update[t] \o current(t)])
               IN  Respond(Append(all, [type |-> "NoChange", token |-> v]))
       /\ served' = [t \in DOMAIN served |->
                      [keys |-> truth[v][t], resumed |-> served[t].resumed, version |-> v]]
       /\ at' = v
  /\ UNCHANGED <<views, memory, cache, lastRemote, truth, countVars>>

-----------------------------------------------------------------------------
Next ==
  \/ \E t \in Targets : Listen(t) \/ StopListening(t)
  \/ DisableNetwork \/ EnableNetwork \/ RestartNetwork \/ ConnectionLost \/ IdleTimeout \/ Crash
  \/ StreamOpens \/ ReceiveChange \/ ReceiveTargetError
  \/ DocumentChanges \/ ServerTakesRequest \/ ServerRemovesTarget \/ ServerCatchesUp

Spec == Init /\ [][Next]_vars

\* The worker queue runs its tasks, and the backend serves a call that stays up.
Fairness ==
  /\ WF_vars(StreamOpens) /\ WF_vars(ReceiveChange) /\ WF_vars(ReceiveTargetError)
  /\ WF_vars(ServerTakesRequest) /\ WF_vars(ServerCatchesUp)

FairSpec == Spec /\ Fairness

-----------------------------------------------------------------------------
(* Properties.                                                             *)

TargetStates ==
  [outstanding : Int, changes : UNION {[s -> {"Added", "Modified", "Removed"}] : s \in SUBSET Keys},
   token : 0 .. MaxVersions, current : BOOLEAN, dirty : BOOLEAN]

\* Every variable stays in its type; the three tables of listened targets,
\* RemoteStore's, SyncEngine's and LocalStore's, list the same targets.
TypeOK ==
  /\ DOMAIN cs.tokens \subseteq Targets
  /\ DOMAIN views = DOMAIN cs.tokens /\ DOMAIN memory = DOMAIN cs.tokens
  /\ \A t \in DOMAIN cs.tokens :
       /\ cs.tokens[t] \in 0 .. MaxVersions /\ memory[t] \in 0 .. MaxVersions
       /\ views[t] \in [synced : SUBSET Keys, current : BOOLEAN]
  /\ DOMAIN cs.states \subseteq Targets
  /\ \A t \in DOMAIN cs.states : cs.states[t] \in TargetStates
  /\ cs.resets \subseteq Targets
  /\ cs.stream \in {"Stopped", "Starting", "Open"} /\ {cs.enabled, cs.idle} \subseteq BOOLEAN
  /\ cache \in [Targets -> [token : 0 .. MaxVersions, keys : SUBSET Keys]]
  /\ lastRemote \in 0 .. Len(truth) /\ at \in 1 .. Len(truth)
  /\ truth \in Seq([Targets -> SUBSET Keys]) /\ Len(truth) \in Versions
  /\ DOMAIN served \subseteq Targets

\* A resume token the backend will be asked to resume from, in memory or on disk,
\* is of a version at which exactly the cached keys matched: resuming skips nothing.
ResumeTokensDescribeCache ==
  /\ \A t \in Targets : cache[t].token # None => cache[t].keys = truth[cache[t].token][t]
  /\ \A t \in DOMAIN memory :
       /\ memory[t] # None => cache[t].keys = truth[memory[t]][t]
       /\ cs.tokens[t] \in {None, memory[t]}

\* A view that is current shows the keys that matched at a version the backend has
\* announced, and the views and the durable cache agree on them.
CurrentViewsAreSnapshots ==
  \A t \in DOMAIN views :
    /\ views[t].synced = cache[t].keys
    /\ views[t].current => memory[t] # None /\ views[t].synced = truth[memory[t]][t]

\* A target's count of outstanding responses is the number of its requests, and of the
\* backend's answers to them, that are still under way on the call.
OutstandingResponsesCounted ==
  LET Answers(m) == m.type \in {"Added", "Removed"} \/ (m.type = "Error" /\ m.answers) IN
  cs.stream = "Open" =>
    \A t \in Targets :
      StateOf(cs, t).outstanding =
        Cardinality({i \in DOMAIN cs.requests : cs.requests[i].target = t})
        + Cardinality({i \in DOMAIN cs.responses :
                        Answers(cs.responses[i]) /\ cs.responses[i].target = t})

\* Until the backend has rejected a target, resume tokens, views and the counts of
\* outstanding responses are as above (what a rejection breaks is in the README).
SoundUntilRejection ==
  rejections = 0 =>
    ResumeTokensDescribeCache /\ CurrentViewsAreSnapshots /\ OutstandingResponsesCounted

\* The changes gathered for an active target are changes to what its view holds now: a
\* key is added that the view lacks, modified or removed that it has.
ChangesApplyToView ==
  \A t \in DOMAIN cs.states :
    IsActive(cs, t) => KeysWith(cs.states[t], "Added") \cap views[t].synced = {}
                       /\ KeysWith(cs.states[t], "Modified") \subseteq views[t].synced
                       /\ KeysWith(cs.states[t], "Removed") \subseteq views[t].synced

\* While something is listened to and the network is allowed, the watch stream is up or
\* on its way up, and no idle timer is about to stop it.
ListenedTargetsHaveStream ==
  cs.enabled /\ DOMAIN cs.tokens # {} => cs.stream # "Stopped" /\ ~cs.idle

\* A query that stays listened to on an allowed network ends up current and showing what
\* matches it, once the backend's data and the connection have come to rest.
ListenersCatchUp ==
  \A t \in Targets :
    <>[](t \in DOMAIN views /\ cs.enabled)
      => <>[](t \in DOMAIN views /\ views[t].current /\ views[t].synced = Last(truth)[t])
=============================================================================
