------------------------------- MODULE LazyRouter -------------------------------
(***************************************************************************)
(* The matchers of server/src/adapters/standard/rpc-matcher.ts and           *)
(* openapi/src/adapters/standard/openapi-matcher.ts: requests find their      *)
(* procedure in a tree of paths, to which the lazy parts of the router are   *)
(* added when the first request for them comes.  Requests that come while a  *)
(* part is loading wait for the same load; a load that fails is tried again  *)
(* by the next request.  A lazy part may hold more lazy parts.              *)
(*                                                                         *)
(* Between its awaits a match is synchronous.  The RPC matcher tries the     *)
(* prefixes of the path, outermost first; the OpenAPI matcher goes through   *)
(* the set of all parts that are pending, and loads each whose own prefix     *)
(* matches, or that has none.  The order of that set is left open.           *)
(***************************************************************************)
EXTENDS Integers, Sequences, SequencesExt

CONSTANTS
  Matches,      \* calls of match
  Paths,        \* the paths they ask for
  Parts,        \* the lazy parts of the router
  Through,      \* the parts above each path, outermost first
  Tests,        \* the parts whose prefix matches each path
  Procedures,   \* the paths that name a procedure
  MaxFailures   \* bound: loads that fail

\* Procedures and lazy parts form a tree; a part tests no path away that is below it.
ASSUME RouterAssumption ==
  /\ Procedures \subseteq Paths
  /\ \A p \in Paths : /\ Through[p] \in Seq(Parts)
                      /\ Range(Through[p]) \subseteq Tests[p] /\ Tests[p] \subseteq Parts
  /\ \A p, q \in Paths : \A i \in 1..Len(Through[p]), j \in 1..Len(Through[q]) :
       Through[p][i] = Through[q][j] =>
         i = j /\ (i > 1 => Through[p][i - 1] = Through[q][j - 1])

VARIABLES
  kind,      \* the matcher: "rpc" or "openapi"
  entry,     \* pendingLazyRouters: "absent", "pending" or "loading"
  tree,      \* the paths of the procedures that are indexed
  match,     \* of each match, the path, its place on it, what it awaits and its state
  indexed,   \* history: how often each part was indexed
  failures   \* history: loads that failed

routerVars == <<kind, entry, tree, match, indexed, failures>>

Inner(part) ==   \* the parts that this one holds
  {q \in Parts : \E p \in Paths : \E i \in 2..Len(Through[p]) : Through[p][i] = q /\ Through[p][i - 1] = part}
Outermost == {q \in Parts : \E p \in Paths : Through[p] # <<>> /\ q = Through[p][1]}
NoMatch == [path |-> "", at |-> 0, on |-> "", state |-> "idle"]

\* index(router), the walk over the root.
RouterInit ==
  /\ kind \in {"rpc", "openapi"}
  /\ entry = [q \in Parts |-> IF q \in Outermost THEN "pending" ELSE "absent"]
  /\ tree = {p \in Procedures : Through[p] = <<>>}
  /\ match = [m \in Matches |-> NoMatch]
  /\ indexed = [q \in Parts |-> 0]
  /\ failures = 0

\* Mutants of HasEntry and of Awaits: the entry is gone once it loads, only one
\* request hears of the load.
HasEntryAtRest(part) == entry[part] = "pending"
AwaitsFirst(m, part) ==
  LET S == {n \in Matches : match[n].state = "awaiting" /\ match[n].on = part}
  IN  S # {} /\ m = CHOOSE n \in S : TRUE

\* pendingLazyRouters.has
HasEntry(part) == entry[part] # "absent"
Awaits(m, part) == match[m].state = "awaiting" /\ match[m].on = part

\* The part that comes next, with its place: on the path behind place i, or any
\* of the set.
NextParts(path, i) ==
  IF kind = "rpc"
  THEN {<<Through[path][j], j>> : j \in
         {k \in 1..Len(Through[path]) : /\ i < k /\ HasEntry(Through[path][k])
                                        /\ \A l \in 1..k - 1 : i < l => ~HasEntry(Through[path][l])}}
  ELSE {<<q, 0>> : q \in {r \in Tests[path] : HasEntry(r)}}

\* resolvePendingLazyRouters and loadPendingLazyRouters: the next part that is
\* pending is awaited, and loaded unless it is loading; without one the tree has
\* the answer.
Walk(m, path, i) ==
  \/ /\ NextParts(path, i) = {}
     /\ match' = [match EXCEPT ![m] = [path |-> path, at |-> 0, on |-> "",
                    state |-> IF path \in tree THEN "found" ELSE "missing"]]
     /\ UNCHANGED entry
  \/ \E next \in NextParts(path, i) :
       /\ match' = [match EXCEPT ![m] = [path |-> path, at |-> next[2], on |-> next[1], state |-> "awaiting"]]
       /\ entry' = [entry EXCEPT ![next[1]] = "loading"]

\* match(method, pathname, prefix)
Match(m, path) ==
  /\ match[m].state = "idle"
  /\ Walk(m, path, 0)
  /\ UNCHANGED <<kind, tree, indexed, failures>>

\* The load that it awaited is over, and the match goes on.
Resume(m) ==
  /\ match[m].state = "resumed"
  /\ Walk(m, match[m].path, match[m].at)
  /\ UNCHANGED <<kind, tree, indexed, failures>>

\* Whoever awaits the load hears of its end.
Told(part, state) ==
  match' = [m \in Matches |-> IF Awaits(m, part) THEN [match[m] EXCEPT !.state = state] ELSE match[m]]

\* indexPendingLazyRouter: the loader resolves, what it gave is indexed, and then
\* the entry is deleted.
Loaded(part) ==
  /\ entry[part] = "loading"
  /\ entry' = [q \in Parts |-> IF q = part THEN "absent" ELSE IF q \in Inner(part) THEN "pending" ELSE entry[q]]
  /\ tree' = tree \cup {p \in Procedures : Through[p] # <<>> /\ Last(Through[p]) = part}
  /\ indexed' = [indexed EXCEPT ![part] = @ + 1]
  /\ Told(part, "resumed")
  /\ UNCHANGED <<kind, failures>>

\* The loader rejects: pending.loading is reset, and whoever waits rejects.
LoadFails(part) ==
  /\ entry[part] = "loading" /\ failures < MaxFailures
  /\ failures' = failures + 1
  /\ entry' = [entry EXCEPT ![part] = "pending"]
  /\ Told(part, "failed")
  /\ UNCHANGED <<kind, tree, indexed>>

LoadEnds == \E part \in Parts : Loaded(part) \/ LoadFails(part)

RouterNext ==
  \/ \E m \in Matches : Resume(m) \/ \E path \in Paths : Match(m, path)
  \/ LoadEnds

RouterSpec == RouterInit /\ [][RouterNext]_routerVars

-----------------------------------------------------------------------------
\* A request for a procedure is never told that there is none, whichever of the
\* parts above it are pending, loading or loaded when it comes and while it
\* waits; a part is indexed once, whoever asks for it and however often loading
\* it failed (match, loadPendingLazyRouter).
NothingIsOverlooked ==
  /\ \A m \in Matches : match[m].state = "missing" => match[m].path \notin Procedures
  /\ \A q \in Parts : indexed[q] \in {0, 1}

\* In the end every request has its answer, also who joined a load that another
\* had started, and whose load failed (indexPendingLazyRouter).
MatchesSettle == <>[](\A m \in Matches : match[m].state \notin {"awaiting", "resumed"})
=============================================================================
