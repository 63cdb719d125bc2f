------------------------------- MODULE Broadcast -------------------------------
(***************************************************************************)
(* What it means for several readers to share one source: each of them goes *)
(* through one and the same log at its own pace, from its first entry and   *)
(* without a gap, and the source is told to stop by the last reader that    *)
(* leaves before the log has ended, and by nobody else.                     *)
(***************************************************************************)
EXTENDS Integers, Sequences

CONSTANTS Readers,
          Results,  \* what the source may yield
          Last      \* the results after which there is nothing

VARIABLES log,        \* what the source has yielded
          seen,       \* what each reader has got
          listening,  \* the readers that have not left
          stopped     \* the source was told to stop

broadcastVars == <<log, seen, listening, stopped>>

HasEnded == \E i \in 1..Len(log) : log[i] \in Last

BroadcastInit ==
  /\ log = <<>> /\ seen = [r \in Readers |-> <<>>]
  /\ listening = Readers /\ stopped = FALSE

Yield(x) ==
  /\ ~HasEnded
  /\ log' = Append(log, x)
  /\ UNCHANGED <<seen, listening, stopped>>

\* A reader that has left may still get what it had asked for before.
Read(r) ==
  /\ Len(seen[r]) < Len(log)
  /\ LET x == log[Len(seen[r]) + 1]
     IN  /\ seen' = [seen EXCEPT ![r] = Append(@, x)]
         /\ listening' = IF x \in Last THEN listening \ {r} ELSE listening
  /\ UNCHANGED <<log, stopped>>

Leave(r) ==
  /\ r \in listening
  /\ listening' = listening \ {r}
  /\ stopped' = (listening' = {} /\ ~HasEnded)
  /\ UNCHANGED <<log, seen>>

BroadcastNext ==
  \/ \E x \in Results : Yield(x)
  \/ \E r \in Readers : Read(r) \/ Leave(r)

BroadcastSpec == BroadcastInit /\ [][BroadcastNext]_broadcastVars
=============================================================================
