---------------------------- MODULE DurableWrites ----------------------------
(***************************************************************************)
(* What the Firestore client promises about writes, with no stream, batch  *)
(* id, network or process in sight.  A write of a user waits in the user's *)
(* durable queue until it reaches its head, and leaves it for one of two   *)
(* reasons: the backend has committed it, or the client has rejected it.   *)
(* WritePipeline implements this specification.                            *)
(***************************************************************************)
EXTENDS Integers, Sequences

CONSTANTS Users, NoUser, MaxWrites

Writes == 1 .. MaxWrites

VARIABLES
  issued,     \* number of writes issued
  author,     \* write -> the user that issued it
  pending,    \* user -> the writes still queued
  committed,  \* the writes the backend has applied
  fate,       \* write -> None, Queued, Acked or Rejected
  told        \* write -> what the application was told: Nothing, Ok or Error

absVars == <<issued, author, pending, committed, fate, told>>

AbsInit ==
  /\ issued = 0
  /\ author = [w \in Writes |-> NoUser]
  /\ pending = [u \in Users |-> <<>>]
  /\ committed = {}
  /\ fate = [w \in Writes |-> "None"]
  /\ told = [w \in Writes |-> "Nothing"]

\* The application issues a write: it is durable at once.
Issue(u) ==
  /\ issued < MaxWrites
  /\ issued' = issued + 1
  /\ author' = [author EXCEPT ![issued + 1] = u]
  /\ pending' = [pending EXCEPT ![u] = Append(@, issued + 1)]
  /\ fate' = [fate EXCEPT ![issued + 1] = "Queued"]
  /\ UNCHANGED <<committed, told>>

\* The backend applies a write, after the earlier writes of its user.  It may do
\* so even after the client has rejected the write.
Commit(w) ==
  /\ w <= issued
  /\ \A v \in 1 .. w - 1 :
       author[v] = author[w] => v \in committed \/ fate[v] = "Rejected"
  /\ committed' = committed \cup {w}
  /\ UNCHANGED <<issued, author, pending, fate, told>>

\* The application hears of a write at most once, and of success only for a
\* committed write.  It hears of none it issued before the process stopped.
Tell(w, result) ==
  \/ UNCHANGED told
  \/ told[w] = "Nothing" /\ told' = [told EXCEPT ![w] = result]

Settle(u, result) ==
  /\ pending[u] # <<>>
  /\ pending' = [pending EXCEPT ![u] = Tail(@)]
  /\ fate' = [fate EXCEPT ![Head(pending[u])] = result]
  /\ UNCHANGED <<issued, author, committed>>

Acknowledge(u) ==
  /\ Settle(u, "Acked")
  /\ Head(pending[u]) \in committed
  /\ Tell(Head(pending[u]), "Ok")

Reject(u) ==
  /\ Settle(u, "Rejected")
  /\ Tell(Head(pending[u]), "Error")

\* The process stops between telling the application and removing the write.
TellOnly(u) ==
  /\ pending[u] # <<>>
  /\ Head(pending[u]) \in committed
  /\ Tell(Head(pending[u]), "Ok")
  /\ UNCHANGED <<issued, author, pending, committed, fate>>

AbsNext ==
  \/ \E u \in Users : Issue(u) \/ Acknowledge(u) \/ Reject(u) \/ TellOnly(u)
  \/ \E w \in Writes : Commit(w)

AbsSpec == AbsInit /\ [][AbsNext]_absVars
=============================================================================
