---------------------------- MODULE RateLimitRequest ----------------------------
(***************************************************************************)
(* One request under the ratelimit middleware and its handler plugin        *)
(* (packages/ratelimit/src/middleware.ts, handler-plugin.ts).  The handler   *)
(* of a procedure may call other procedures with its context, one after      *)
(* another or at once, and any of them may use the middleware.  A middleware *)
(* notes in the context of what comes after it which limit it has applied;   *)
(* all of them push their results to one list, from which the plugin makes   *)
(* the headers of the response.                                             *)
(*                                                                         *)
(* The limiters are external here: they let through or not, and tell what   *)
(* remains or do not (CloudflareRateLimiter).                               *)
(***************************************************************************)
EXTENDS Integers, Sequences, SequencesExt, FiniteSetsExt

CONSTANTS Calls,      \* procedure calls of the request, the first is the request's own
          Limits,     \* pairs of a limiter and a key
          MaxChecks   \* bound: limits applied by the request

VARIABLES
  call,      \* of each call: "none", "running", "returned" or "thrown"
  applied,   \* of each call, applied in its current context
  charged,   \* history: of each call, the limits charged above it or by it
  twice,     \* history: limits a middleware with dedupe charged although they were
  checks,    \* the results in the context of the plugin
  response   \* <<>>, or the check that the headers tell of, 0 for none, and whether
             \* they tell when to retry

requestVars == <<call, applied, charged, twice, checks, response>>

Root == CHOOSE c \in Calls : \A d \in Calls : c <= d
Unknown == -1
Infinity == 100
Results == [success : BOOLEAN, remaining : {Unknown, 0, 1}]

RequestInit ==
  /\ call = [c \in Calls |-> IF c = Root THEN "running" ELSE "none"]
  /\ applied = [c \in Calls |-> {}] /\ charged = [c \in Calls |-> {}]
  /\ twice = {} /\ checks = <<>> /\ response = <<>>

\* Mutant of Noted: the context of the middleware before is dropped.
NotedAlone(before, limit) == {limit}

\* The context that the middleware gives to next.
Noted(before, limit) == before \cup {limit}

\* A middleware whose limit the context already has goes on; another asks the
\* limiter, and goes on or throws TOO_MANY_REQUESTS.
Middleware(c, limit, dedupe, result) ==
  /\ call[c] = "running" /\ Len(checks) < MaxChecks
  /\ ~(dedupe /\ limit \in applied[c])
  /\ checks' = Append(checks, result)
  /\ applied' = [applied EXCEPT ![c] = IF result.success THEN Noted(@, limit) ELSE @]
  /\ charged' = [charged EXCEPT ![c] = IF result.success THEN @ \cup {limit} ELSE @]
  /\ twice' = IF dedupe THEN twice \cup ({limit} \cap charged[c]) ELSE twice
  /\ call' = IF result.success THEN call ELSE [call EXCEPT ![c] = "thrown"]
  /\ UNCHANGED response

\* The handler calls a procedure with its own context.
CallInside(c, d) ==
  /\ call[c] = "running" /\ call[d] = "none"
  /\ call' = [call EXCEPT ![d] = "running"]
  /\ applied' = [applied EXCEPT ![d] = applied[c]]
  /\ charged' = [charged EXCEPT ![d] = charged[c]]
  /\ UNCHANGED <<twice, checks, response>>

\* A call returns, or throws what a call inside it threw or an error of its own.
Ends(c, how) ==
  /\ call[c] = "running"
  /\ call' = [call EXCEPT ![c] = how]
  /\ UNCHANGED <<applied, charged, twice, checks, response>>

\* The plugin: of the checks that exceeded their limit, or else of all, the first
\* of those of which the least remains.
RemainingOf(i) == IF checks[i].remaining = Unknown THEN Infinity ELSE checks[i].remaining
Candidates ==
  LET exceeded == {i \in DOMAIN checks : ~checks[i].success}
  IN  IF exceeded # {} THEN exceeded ELSE DOMAIN checks
MostConstrained ==
  Min({i \in Candidates : \A j \in Candidates : RemainingOf(i) <= RemainingOf(j)})

Respond ==
  /\ call[Root] \in {"returned", "thrown"} /\ response = <<>>
  /\ response' = IF checks = <<>> THEN <<[check |-> 0, retryAfter |-> FALSE]>>
                 ELSE <<[check |-> MostConstrained,
                         retryAfter |-> call[Root] = "thrown" /\ ~checks[MostConstrained].success]>>
  /\ UNCHANGED <<call, applied, charged, twice, checks>>

RequestNext ==
  \/ \E c \in Calls :
       \/ \E limit \in Limits, dedupe \in BOOLEAN, result \in Results : Middleware(c, limit, dedupe, result)
       \/ \E d \in Calls : CallInside(c, d)
       \/ \E how \in {"returned", "thrown"} : Ends(c, how)
  \/ Respond

RequestSpec == RequestInit /\ [][RequestNext]_requestVars

-----------------------------------------------------------------------------
\* A middleware with dedupe charges no limit that was charged on the way to it,
\* by a middleware of this procedure or of those whose handlers called it,
\* whatever ran in between and at the same time (ratelimit).
ChargedOncePerPath == twice = {}

\* What the plugin says of a check that does not tell what remains: "Treat
\* undefined remaining as 0 - unknown capacity is assumed fully exhausted"
\* (handler-plugin.ts).  Then the headers tell of it, or of one with 0.
UnknownIsExhausted ==
  response # <<>> /\ (\E i \in Candidates : checks[i].remaining = Unknown) =>
    checks[response[1].check].remaining \in {Unknown, 0}
=============================================================================
