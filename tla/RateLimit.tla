------------------------------- MODULE RateLimit -------------------------------
(***************************************************************************)
(* The rate limiters of packages/ratelimit/src/adapters: the memory adapter,*)
(* which counts in this process and starts one window for all keys at the   *)
(* first call after the last one, and the Redis adapter, whose script counts *)
(* what it rejects too and starts a window for each key.  Either may block:  *)
(* a call that was refused sleeps until the window ends and tries again, as  *)
(* long as that is before its deadline.                                     *)
(*                                                                         *)
(* The memory adapter decides synchronously.  With Redis other calls, the    *)
(* clock and a restart of the server come in between the steps of a call.    *)
(***************************************************************************)
EXTENDS Integers, FiniteSets, FiniteSetsExt

CONSTANTS
  Clients,       \* calls of limit
  KeyOf,         \* the key of each
  WeightOf,      \* the weight it asks for
  MaxRequests, Window,
  Timeout,       \* blockingUntilReady.timeout
  LastCall,      \* bound: the last instant of a call
  MaxFlushes     \* bound: how often the server loses its scripts

\* resolveWeight refuses what is no positive integer; times are in milliseconds.
ASSUME LimitAssumption ==
  /\ WeightOf \in [Clients -> Nat \ {0}] /\ MaxRequests \in Nat
  /\ Window \in Nat \ {0} /\ Timeout \in Nat

VARIABLES
  store,     \* the adapter: "memory" or "redis"
  instant,   \* Date.now()
  used,      \* of each key, what its window has counted
  reset,     \* of each key, when that window ends
  client,    \* the state of each call
  loaded,    \* the server has the script
  known,     \* scriptSha is set
  flushes,   \* history: how often the script was lost
  admitted   \* history: what was let through, when, in which window, for as long
             \* as a window takes

limitVars == <<store, instant, used, reset, client, loaded, known, flushes, admitted>>

Keys == {KeyOf[c] : c \in Clients}
NoDeadline == -1  \* of a call that does not block
At(phase) == [phase |-> phase, weight |-> 0, deadline |-> NoDeadline, wake |-> 0, retried |-> FALSE]

LimitInit ==
  /\ store \in {"memory", "redis"}
  /\ instant = 0
  /\ used = [k \in Keys |-> 0]
  /\ reset = [k \in Keys |-> IF store = "memory" THEN Window ELSE 0]
  /\ client = [c \in Clients |-> At("idle")]
  /\ loaded = FALSE /\ known = FALSE /\ flushes = 0
  /\ admitted = {}

IsOver(k) == instant >= reset[k]

\* Mutant of Fits: the weight is not added.
FitsOne(u, weight) == u < MaxRequests

Fits(u, weight) == u + weight <= MaxRequests
TooLate(r, at) == at > r.deadline

\* checkLimit has a result: return it, or sleep until the reset it names.
Answer(r, success, at) ==
  IF success \/ TooLate(r, at) THEN At("answered")
  ELSE [r EXCEPT !.phase = "sleeping", !.wake = at]

Admit(c, weight, success) ==
  admitted' = IF success
              THEN admitted \cup {[by |-> c, key |-> KeyOf[c], weight |-> weight,
                                   at |-> instant, ends |-> reset'[KeyOf[c]]]}
              ELSE admitted

\* rotateIfNeeded and checkLimit of the memory adapter: the first call after the
\* end of the window starts the next one for all keys; only what fits is counted.
MemoryCheck(c, r) ==
  LET k == KeyOf[c]
      u == IF IsOver(k) THEN [j \in Keys |-> 0] ELSE used
      success == Fits(u[k], r.weight)
  IN  /\ used' = [u EXCEPT ![k] = @ + (IF success THEN r.weight ELSE 0)]
      /\ reset' = IF IsOver(k) THEN [j \in Keys |-> instant + Window] ELSE reset
      /\ client' = [client EXCEPT ![c] = Answer(r, success, reset'[k])]
      /\ Admit(c, r.weight, success)
      /\ UNCHANGED <<store, instant, loaded, known, flushes>>

To(c, r) == client' = [client EXCEPT ![c] = r]

Evaluates(hasSha) == IF hasSha THEN "evaluating" ELSE "calling"

\* A check starts, in the Redis adapter with executeScript.
Start(c, r) ==
  IF store = "memory" THEN MemoryCheck(c, r)
  ELSE /\ To(c, [r EXCEPT !.phase = Evaluates(known), !.wake = 0])
       /\ UNCHANGED <<store, instant, used, reset, loaded, known, flushes, admitted>>

\* limit(key, { weight }), which blocks or not.
Limit(c) ==
  /\ client[c].phase = "idle" /\ instant <= LastCall
  /\ \E d \in {NoDeadline, instant + Timeout} :
       Start(c, [At("calling") EXCEPT !.weight = WeightOf[c], !.deadline = d])

\* The sleep of blockUntilReady is over: the loop goes on.
WakeUp(c) == client[c].phase = "sleeping" /\ instant >= client[c].wake /\ Start(c, client[c])

\* evalSha: scriptSha ??= await scriptLoad(...), which any call does that finds
\* no scriptSha.
LoadScript(c) ==
  /\ client[c].phase = "calling"
  /\ To(c, [client[c] EXCEPT !.phase = "evaluating"])
  /\ known' = TRUE
  /\ loaded' = TRUE
  /\ UNCHANGED <<store, instant, used, reset, flushes, admitted>>

\* Redis runs the script: INCRBY, and PEXPIRE if that made the key.
Evaluate(c) ==
  LET k == KeyOf[c]
      u == used[k] + client[c].weight
  IN  /\ client[c].phase = "evaluating" /\ loaded
      /\ used' = [used EXCEPT ![k] = u]
      /\ reset' = [reset EXCEPT ![k] = IF u = client[c].weight THEN instant + Window ELSE @]
      /\ To(c, IF Fits(u, 0) THEN At("passed")
               ELSE [client[c] EXCEPT !.phase = "failed", !.wake = reset'[k] - instant,
                                      !.retried = FALSE])
      /\ Admit(c, client[c].weight, Fits(u, 0))
      /\ UNCHANGED <<store, instant, loaded, known, flushes>>

\* The reply arrives; the time to live counts from now.
Reply(c) ==
  /\ client[c].phase \in {"passed", "failed"}
  /\ To(c, Answer(client[c], client[c].phase = "passed", instant + client[c].wake))
  /\ UNCHANGED <<store, instant, used, reset, loaded, known, flushes, admitted>>

\* Mutant of KnownAfter: the hash is kept.
KnownAfterLoss(r) == known

KnownAfter(r) == known /\ r.retried

\* NOSCRIPT: executeScript forgets scriptSha and tries once more, then throws.
NoScript(c) ==
  /\ client[c].phase = "evaluating" /\ ~loaded
  /\ known' = KnownAfter(client[c])
  /\ To(c, IF client[c].retried THEN At("thrown")
           ELSE [client[c] EXCEPT !.phase = Evaluates(known'), !.retried = TRUE])
  /\ UNCHANGED <<store, instant, used, reset, loaded, flushes, admitted>>

\* Redis loses its scripts.
Flush ==
  /\ loaded /\ flushes < MaxFlushes
  /\ loaded' = FALSE /\ flushes' = flushes + 1
  /\ UNCHANGED <<store, instant, used, reset, client, known, admitted>>

\* Redis deletes what has expired.
TimePasses ==
  /\ instant < LastCall + Timeout
  /\ instant' = instant + 1
  /\ IF store = "memory" THEN UNCHANGED <<used, reset>>
     ELSE LET Left(f) == [k \in Keys |-> IF reset[k] <= instant' THEN 0 ELSE f[k]]
          IN  used' = Left(used) /\ reset' = Left(reset)
  /\ admitted' = {a \in admitted : instant' < a.at + Window}
  /\ UNCHANGED <<store, client, loaded, known, flushes>>

Proceed(c) == WakeUp(c) \/ LoadScript(c) \/ Evaluate(c) \/ Reply(c) \/ NoScript(c)

LimitNext ==
  \/ \E c \in Clients : Limit(c) \/ Proceed(c)
  \/ Flush
  \/ TimePasses

LimitSpec == LimitInit /\ [][LimitNext]_limitVars

-----------------------------------------------------------------------------
TotalOf(S) == MapThenSumSet(LAMBDA a : a.weight, S)

\* A window lets at most maxRequests through, whichever calls of whichever keys
\* began it, and so at most twice as many pass in any span as long as a window
\* (checkLimit, rotateIfNeeded; the INCRBY and PEXPIRE of the script).
WithinTheLimit ==
  \A a \in admitted :
    LET same == {b \in admitted : b.key = a.key}
    IN  /\ TotalOf({b \in same : b.ends = a.ends}) <= MaxRequests
        /\ TotalOf({b \in same : b.at \in a.at..a.at + Window - 1}) <= 2 * MaxRequests

\* In the end nobody who called waits, also who asks for more than a window can
\* give or is overtaken whenever one starts; and a script that Redis lost once
\* fails no call, whichever of the calls at work find out, and in which order they
\* load it again (blockUntilReady, executeScript, evalSha).
EveryLimitAnswers ==
  <>[](\A c \in Clients : client[c].phase \in {"idle", "answered"} \cup
         (IF flushes < 2 THEN {} ELSE {"thrown"}))
=============================================================================
