------------------------------- MODULE Retention -------------------------------
(***************************************************************************)
(* How the publishers keep events for those who resume: the memory adapter  *)
(* in its buckets, the Redis adapters in a stream whose key expires.  A     *)
(* behaviour of this module is one of the two at work.                      *)
(***************************************************************************)
EXTENDS MCMemoryPublisher, ResumeWindow

VARIABLE keeper  \* "memory" or "redis"

vars == <<keeper, memoryVars, windowVars>>

Init == keeper \in {"memory", "redis"} /\ MemoryInit /\ WindowInit

MemoryOnly == keeper = "memory" /\ UNCHANGED <<keeper, windowVars>>
RedisOnly == keeper = "redis" /\ UNCHANGED <<keeper, memoryVars>>

Next ==
  \/ MemoryOnly /\ MemoryNext
  \/ RedisOnly /\ WindowNext

Spec == Init /\ [][Next]_vars
=============================================================================
