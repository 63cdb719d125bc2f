----------------------------- MODULE LazyRouterProofs -----------------------------
(***************************************************************************)
(* That no request overlooks its procedure, for every tree of lazy parts,    *)
(* any number of requests and of failures: the proof of NothingIsOverlooked. *)
(*                                                                         *)
(* The heart of it is Frontier: on each path there is either nothing left to *)
(* load, or a part that has an entry and above which all is indexed.  A match *)
(* that has passed what is above it cannot have passed the frontier, so       *)
(* whoever finds no entry any more finds the tree complete.                   *)
(***************************************************************************)
EXTENDS LazyRouter, TLAPS

\* What the variables hold.
RouterTypes ==
  /\ kind \in {"rpc", "openapi"}
  /\ entry \in [Parts -> {"absent", "pending", "loading"}]
  /\ indexed \in [Parts -> {0, 1}]
  /\ match \in [Matches -> [path : Paths \cup {""}, at : Nat, on : Parts \cup {""},
                            state : {"idle", "awaiting", "resumed", "found", "missing", "failed"}]]

\* What has an entry is not indexed yet.
Once == \A q \in Parts : entry[q] # "absent" => indexed[q] = 0

\* A part is known only once the part that holds it is indexed.
Above ==
  \A p \in Paths : \A i \in 2..Len(Through[p]) :
    (entry[Through[p][i]] # "absent" \/ indexed[Through[p][i]] = 1) => indexed[Through[p][i - 1]] = 1

AllIndexed(p, n) == \A i \in 1..Len(Through[p]) : i <= n => indexed[Through[p][i]] = 1

\* Each path is indexed down to a part that has an entry, or as a whole.
Frontier ==
  \A p \in Paths : \/ AllIndexed(p, Len(Through[p]))
                   \/ \E j \in 1..Len(Through[p]) : entry[Through[p][j]] # "absent" /\ AllIndexed(p, j - 1)

\* What the indexed parts hold is in the tree.
InTree == \A p \in Procedures : Through[p] = <<>> \/ indexed[Last(Through[p])] = 1 => p \in tree

\* What a match that waits has passed is indexed.
Passed ==
  \A m \in Matches : match[m].state \in {"awaiting", "resumed"} =>
    /\ match[m].path \in Paths
    /\ kind = "rpc" => /\ match[m].at \in 1..Len(Through[match[m].path])
                       /\ match[m].on = Through[match[m].path][match[m].at]
                       /\ AllIndexed(match[m].path, match[m].at - 1)
                       /\ match[m].state = "resumed" => indexed[match[m].on] = 1

Answered == \A m \in Matches : match[m].state = "missing" => match[m].path \notin Procedures

RouterInv == RouterTypes /\ Once /\ Above /\ Frontier /\ InTree /\ Passed /\ Answered

-----------------------------------------------------------------------------
LEMMA InitHolds == RouterInit => RouterInv
<1> SUFFICES ASSUME RouterInit PROVE RouterInv
  OBVIOUS
<1> USE DEF RouterInit
<1>1. RouterTypes
  BY DEF RouterTypes, NoMatch
<1>2. Once /\ Passed /\ Answered
  BY DEF Once, Passed, Answered, NoMatch
<1>3. Above
  <2> SUFFICES ASSUME NEW p \in Paths, NEW i \in 2..Len(Through[p])
               PROVE  entry[Through[p][i]] = "absent" /\ indexed[Through[p][i]] = 0
    BY DEF Above
  <2>1. Through[p] \in Seq(Parts) /\ Through[p][i] \in Parts
    BY RouterAssumption DEF RouterAssumption
  <2>2. Through[p][i] \notin Outermost
    <3> SUFFICES ASSUME NEW r \in Paths, Through[r] # <<>>, Through[r][1] = Through[p][i] PROVE FALSE
      BY DEF Outermost
    <3>1. Through[r] \in Seq(Parts) /\ 1 \in 1..Len(Through[r])
      BY RouterAssumption DEF RouterAssumption
    <3>2. i \in 1..Len(Through[p])
      BY <2>1
    <3> QED BY <3>1, <3>2, RouterAssumption DEF RouterAssumption
  <2> QED BY <2>1, <2>2
<1>4. Frontier
  <2> SUFFICES ASSUME NEW p \in Paths, ~AllIndexed(p, Len(Through[p]))
               PROVE  \E j \in 1..Len(Through[p]) : entry[Through[p][j]] # "absent" /\ AllIndexed(p, j - 1)
    BY DEF Frontier
  <2>1. Through[p] \in Seq(Parts) /\ Through[p] # <<>> /\ 1 \in 1..Len(Through[p])
    BY RouterAssumption DEF RouterAssumption, AllIndexed
  <2>2. Through[p][1] \in Parts /\ Through[p][1] \in Outermost
    BY <2>1 DEF Outermost
  <2> QED BY <2>1, <2>2 DEF AllIndexed
<1>5. InTree
  <2> SUFFICES ASSUME NEW p \in Procedures, Through[p] # <<>> PROVE indexed[Last(Through[p])] = 0
    BY RouterAssumption DEF RouterAssumption, InTree
  <2>1. Through[p] \in Seq(Parts)
    BY RouterAssumption DEF RouterAssumption
  <2>2. Last(Through[p]) \in Parts
    BY <2>1 DEF Last
  <2> QED BY <2>2
<1> QED BY <1>1, <1>2, <1>3, <1>4, <1>5 DEF RouterInv

\* What is entered stays entered, and all else stays as it is: enough for the
\* parts of the invariant that are not about matches.
LEMMA EntriesStay ==
  ASSUME RouterInv, UNCHANGED <<kind, tree, indexed>>,
         entry' \in [Parts -> {"absent", "pending", "loading"}],
         \A q \in Parts : entry'[q] # "absent" <=> entry[q] # "absent"
  PROVE  Once' /\ Above' /\ Frontier' /\ InTree'
<1> USE DEF RouterInv
<1>1. Once' /\ InTree'
  BY DEF Once, InTree
<1>2. \A p \in Paths : \A i \in 1..Len(Through[p]) : Through[p][i] \in Parts
  BY RouterAssumption DEF RouterAssumption
<1>3. \A p, i : AllIndexed(p, i)' = AllIndexed(p, i)
  BY DEF AllIndexed
<1>4. Frontier'
  BY <1>2, <1>3 DEF Frontier
<1>5. Above'
  BY <1>2 DEF Above
<1> QED BY <1>1, <1>4, <1>5

\* Where the walk over a path finds no entry behind what is indexed, the path is
\* indexed.
LEMMA NoEntryLeft ==
  ASSUME RouterInv, NEW path \in Paths, NEW i \in Nat, kind = "rpc" => AllIndexed(path, i),
         NextParts(path, i) = {}
  PROVE  AllIndexed(path, Len(Through[path]))
<1> USE DEF RouterInv
<1>1. Through[path] \in Seq(Parts) /\ Range(Through[path]) \subseteq Tests[path] /\ Tests[path] \subseteq Parts
  BY RouterAssumption DEF RouterAssumption
<1> SUFFICES ASSUME NEW j \in 1..Len(Through[path]), entry[Through[path][j]] # "absent", AllIndexed(path, j - 1)
             PROVE  FALSE
  BY DEF Frontier
<1>2. Through[path][j] \in Parts /\ indexed[Through[path][j]] = 0
  BY <1>1 DEF Once
<1>3. CASE kind = "rpc"
  <2>1. i < j
    BY <1>1, <1>2, <1>3 DEF AllIndexed
  <2>2. \A l \in 1..j - 1 : ~HasEntry(Through[path][l])
    BY <1>1 DEF HasEntry, AllIndexed, Once
  <2>3. <<Through[path][j], j>> \in NextParts(path, i)
    BY <1>3, <2>1, <2>2 DEF NextParts, HasEntry
  <2> QED BY <2>3
<1>4. CASE kind # "rpc"
  <2>1. Through[path][j] \in Tests[path]
    BY <1>1 DEF Range
  <2>2. <<Through[path][j], 0>> \in NextParts(path, i)
    BY <1>4, <2>1 DEF NextParts, HasEntry
  <2> QED BY <2>2
<1> QED BY <1>3, <1>4

\* What comes next is a part with an entry, and on the path of an RPC request all
\* above it is indexed.
LEMMA NextIsFrontier ==
  ASSUME RouterInv, NEW path \in Paths, NEW i \in Nat, kind = "rpc" => AllIndexed(path, i),
         NEW next \in NextParts(path, i)
  PROVE  /\ next[1] \in Parts /\ next[2] \in Nat /\ entry[next[1]] # "absent"
         /\ kind = "rpc" => /\ next[2] \in 1..Len(Through[path]) /\ next[1] = Through[path][next[2]]
                            /\ AllIndexed(path, next[2] - 1)
<1> USE DEF RouterInv
<1>1. Through[path] \in Seq(Parts) /\ Tests[path] \subseteq Parts
  BY RouterAssumption DEF RouterAssumption
<1>2. CASE kind # "rpc"
  <2>1. PICK q \in Tests[path] : HasEntry(q) /\ next = <<q, 0>>
    BY <1>2 DEF NextParts
  <2> QED BY <1>1, <1>2, <2>1 DEF HasEntry
<1>3. CASE kind = "rpc"
  <2>1. PICK j \in 1..Len(Through[path]) :
          /\ next = <<Through[path][j], j>> /\ i < j /\ HasEntry(Through[path][j])
          /\ \A l \in 1..j - 1 : i < l => ~HasEntry(Through[path][l])
    BY <1>3 DEF NextParts
  <2>2. Through[path][j] \in Parts /\ indexed[Through[path][j]] = 0
    BY <1>1, <2>1 DEF Once, HasEntry
  <2>3. PICK f \in 1..Len(Through[path]) : entry[Through[path][f]] # "absent" /\ AllIndexed(path, f - 1)
    BY <1>1, <2>2 DEF Frontier, AllIndexed
  <2>4. indexed[Through[path][f]] = 0
    BY <1>1, <2>3 DEF Once
  <2>5. j <= f
    BY <1>1, <1>3, <2>1, <2>3, <2>4 DEF AllIndexed, HasEntry
  <2>6. AllIndexed(path, j - 1)
    BY <1>1, <2>3, <2>5 DEF AllIndexed
  <2> QED BY <1>1, <2>1, <2>2, <2>6 DEF HasEntry
<1> QED BY <1>2, <1>3

-----------------------------------------------------------------------------
\* One synchronous stretch of a match that has passed what is above place i.
LEMMA WalkKeeps ==
  ASSUME RouterInv, NEW m \in Matches, NEW path \in Paths, NEW i \in Nat,
         kind = "rpc" => AllIndexed(path, i),
         Walk(m, path, i), UNCHANGED <<kind, tree, indexed>>
  PROVE  RouterInv'
<1> USE DEF RouterInv
<1>1. CASE /\ NextParts(path, i) = {}
           /\ match' = [match EXCEPT ![m] = [path |-> path, at |-> 0, on |-> "",
                          state |-> IF path \in tree THEN "found" ELSE "missing"]]
           /\ UNCHANGED entry
  <2>1. RouterTypes'
    BY <1>1 DEF RouterTypes
  <2>2. Once' /\ Above' /\ Frontier' /\ InTree'
    BY <1>1, EntriesStay DEF RouterTypes
  <2>3. path \in Procedures => path \in tree
    <3> SUFFICES ASSUME path \in Procedures, Through[path] # <<>> PROVE indexed[Last(Through[path])] = 1
      BY DEF InTree
    <3>1. Through[path] \in Seq(Parts)
      BY RouterAssumption DEF RouterAssumption
    <3>2. AllIndexed(path, Len(Through[path]))
      BY <1>1, NoEntryLeft
    <3> QED BY <3>1, <3>2 DEF AllIndexed, Last
  <2>4. Answered'
    BY <1>1, <2>3 DEF Answered, RouterTypes
  <2>5. Passed'
    BY <1>1 DEF Passed, RouterTypes, AllIndexed
  <2> QED BY <2>1, <2>2, <2>4, <2>5
<1>2. ASSUME NEW next \in NextParts(path, i),
             match' = [match EXCEPT ![m] = [path |-> path, at |-> next[2], on |-> next[1], state |-> "awaiting"]],
             entry' = [entry EXCEPT ![next[1]] = "loading"]
      PROVE  RouterInv'
  <2>1. /\ next[1] \in Parts /\ next[2] \in Nat /\ entry[next[1]] # "absent"
        /\ kind = "rpc" => /\ next[2] \in 1..Len(Through[path]) /\ next[1] = Through[path][next[2]]
                           /\ AllIndexed(path, next[2] - 1)
    BY <1>2, NextIsFrontier
  <2>2. RouterTypes'
    BY <1>2, <2>1 DEF RouterTypes
  <2>3. \A q \in Parts : entry'[q] # "absent" <=> entry[q] # "absent"
    BY <1>2, <2>1 DEF RouterTypes
  <2>4. Once' /\ Above' /\ Frontier' /\ InTree'
    BY <2>2, <2>3, EntriesStay DEF RouterTypes
  <2>5. Answered'
    BY <1>2 DEF Answered, RouterTypes
  <2>6. Passed'
    BY <1>2, <2>1 DEF Passed, RouterTypes, AllIndexed
  <2> QED BY <2>2, <2>4, <2>5, <2>6
<1> QED BY <1>1, <1>2 DEF Walk

LEMMA LoadedKeeps ==
  ASSUME RouterInv, NEW part \in Parts, Loaded(part)
  PROVE  RouterInv'
<1> USE DEF RouterInv
<1>0. indexed[part] = 0
  BY DEF Loaded, Once
<1>1. /\ entry[part] = "loading" /\ indexed[part] = 0
      /\ entry' = [q \in Parts |-> IF q = part THEN "absent" ELSE IF q \in Inner(part) THEN "pending" ELSE entry[q]]
      /\ indexed' = [indexed EXCEPT ![part] = 1]
      /\ tree' = tree \cup {p \in Procedures : Through[p] # <<>> /\ Last(Through[p]) = part}
      /\ match' = [m \in Matches |-> IF Awaits(m, part) THEN [match[m] EXCEPT !.state = "resumed"] ELSE match[m]]
      /\ kind' = kind
  BY <1>0 DEF Loaded, Told
<1>2. RouterTypes'
  BY <1>1 DEF RouterTypes, Awaits
<1>3. \A p \in Paths : Through[p] \in Seq(Parts)
  BY RouterAssumption DEF RouterAssumption
<1>4. \A q \in Inner(part) : indexed[q] = 0 /\ q # part
  <2> SUFFICES ASSUME NEW p \in Paths, NEW i \in 2..Len(Through[p]), Through[p][i - 1] = part
               PROVE  indexed[Through[p][i]] = 0 /\ Through[p][i] # part
    BY DEF Inner
  <2>1. i \in 1..Len(Through[p]) /\ i - 1 \in 1..Len(Through[p]) /\ Through[p][i] \in Parts
    BY <1>3
  <2>2. Through[p][i] # Through[p][i - 1]
    BY <2>1, RouterAssumption DEF RouterAssumption
  <2>3. indexed[Through[p][i]] # 1
    BY <1>1 DEF Above
  <2> QED BY <2>1, <2>2, <2>3 DEF RouterTypes
<1>5. Once'
  BY <1>1, <1>4 DEF Once, RouterTypes
<1>6. \A q \in Parts : indexed[q] = 1 => indexed'[q] = 1
  BY <1>1 DEF RouterTypes
<1>7. \A p \in Paths : \A n : AllIndexed(p, n) => AllIndexed(p, n)'
  BY <1>3, <1>6 DEF AllIndexed
<1>8. Above'
  <2> SUFFICES ASSUME NEW p \in Paths, NEW i \in 2..Len(Through[p]),
                      entry'[Through[p][i]] # "absent" \/ indexed'[Through[p][i]] = 1
               PROVE  indexed'[Through[p][i - 1]] = 1
    BY DEF Above
  <2>1. i \in 1..Len(Through[p]) /\ Through[p][i] \in Parts /\ Through[p][i - 1] \in Parts
    BY <1>3
  <2>2. CASE Through[p][i] \in Inner(part)
    <3>1. PICK r \in Paths : \E k \in 2..Len(Through[r]) : Through[r][k] = Through[p][i] /\ Through[r][k - 1] = part
      BY <2>2 DEF Inner
    <3>2. PICK k \in 2..Len(Through[r]) : /\ Through[r][k] = Through[p][i] /\ Through[r][k - 1] = part
                                          /\ k \in 1..Len(Through[r])
      BY <1>3, <3>1
    <3>3. Through[p][i - 1] = part
      BY <2>1, <3>2, RouterAssumption DEF RouterAssumption
    <3> QED BY <1>1, <3>3 DEF RouterTypes
  <2>3. CASE Through[p][i] \notin Inner(part)
    <3>1. entry[Through[p][i]] # "absent" \/ indexed[Through[p][i]] = 1
      BY <1>1, <2>1, <2>3 DEF RouterTypes
    <3> QED BY <1>6, <2>1, <3>1 DEF Above
  <2> QED BY <2>2, <2>3
<1>9. Frontier'
  <2> SUFFICES ASSUME NEW p \in Paths
               PROVE  \/ AllIndexed(p, Len(Through[p]))'
                      \/ \E j \in 1..Len(Through[p]) : entry'[Through[p][j]] # "absent" /\ AllIndexed(p, j - 1)'
    BY DEF Frontier
  <2>1. CASE AllIndexed(p, Len(Through[p]))
    BY <1>7, <2>1
  <2>2. ASSUME NEW j \in 1..Len(Through[p]), entry[Through[p][j]] # "absent", AllIndexed(p, j - 1),
               Through[p][j] # part
        PROVE  entry'[Through[p][j]] # "absent" /\ AllIndexed(p, j - 1)'
    BY <1>1, <1>3, <1>7, <2>2
  <2>3. ASSUME NEW j \in 1..Len(Through[p]), AllIndexed(p, j - 1), Through[p][j] = part
        PROVE  \/ AllIndexed(p, Len(Through[p]))'
               \/ \E k \in 1..Len(Through[p]) : entry'[Through[p][k]] # "absent" /\ AllIndexed(p, k - 1)'
    <3>1. AllIndexed(p, j)'
      <4> SUFFICES ASSUME NEW i \in 1..Len(Through[p]), i <= j PROVE indexed'[Through[p][i]] = 1
        BY DEF AllIndexed
      <4>1. Through[p][i] \in Parts /\ (i <= j - 1 \/ i = j)
        BY <1>3
      <4> QED BY <1>1, <1>6, <2>3, <4>1 DEF AllIndexed, RouterTypes
    <3>2. CASE j = Len(Through[p])
      BY <3>1, <3>2
    <3>3. CASE j # Len(Through[p])
      <4>1. j + 1 \in 2..Len(Through[p]) /\ j + 1 \in 1..Len(Through[p]) /\ Through[p][j + 1] \in Parts
            /\ (j + 1) - 1 = j
        BY <1>3, <3>3
      <4>2. Through[p][j + 1] \in Inner(part)
        BY <2>3, <4>1 DEF Inner
      <4>3. entry'[Through[p][j + 1]] # "absent"
        BY <1>1, <1>4, <4>1, <4>2
      <4> QED BY <3>1, <4>1, <4>3
    <3> QED BY <3>2, <3>3
  <2> QED BY <2>1, <2>2, <2>3 DEF Frontier
<1>10. InTree'
  <2> SUFFICES ASSUME NEW p \in Procedures, Through[p] = <<>> \/ indexed'[Last(Through[p])] = 1 PROVE p \in tree'
    BY DEF InTree
  <2>1. CASE Through[p] # <<>> /\ Last(Through[p]) = part
    BY <1>1, <2>1
  <2>2. CASE Through[p] # <<>> /\ Last(Through[p]) # part
    <3>1. Through[p] \in Seq(Parts)
      BY <1>3, RouterAssumption DEF RouterAssumption
    <3>2. Last(Through[p]) \in Parts
      BY <2>2, <3>1 DEF Last
    <3> QED BY <1>1, <2>2, <3>2 DEF InTree, RouterTypes
  <2>3. CASE Through[p] = <<>>
    BY <1>1, <2>3 DEF InTree
  <2> QED BY <2>1, <2>2, <2>3
<1>11. Answered'
  BY <1>1 DEF Answered, RouterTypes, Awaits
<1>12. Passed'
  <2>1. ASSUME NEW m \in Matches, match'[m].state \in {"awaiting", "resumed"}
        PROVE  /\ match'[m].path = match[m].path /\ match'[m].at = match[m].at /\ match'[m].on = match[m].on
               /\ match[m].state \in {"awaiting", "resumed"}
               /\ match'[m].state = match[m].state \/ match[m].on = part
    BY <1>1, <2>1 DEF RouterTypes, Awaits
  <2>2. indexed'[part] = 1
    BY <1>1 DEF RouterTypes
  <2>3. ASSUME NEW m \in Matches, match'[m].state \in {"awaiting", "resumed"}, kind = "rpc"
        PROVE  /\ \A i \in 1..Len(Through[match[m].path]) :
                    i <= match[m].at - 1 => indexed'[Through[match[m].path][i]] = 1
               /\ match'[m].state = "resumed" => indexed'[match[m].on] = 1
    <3>1. /\ match[m].path \in Paths /\ match[m].at \in 1..Len(Through[match[m].path])
          /\ match[m].on = Through[match[m].path][match[m].at]
          /\ AllIndexed(match[m].path, match[m].at - 1)
          /\ match[m].state = "resumed" => indexed[match[m].on] = 1
      BY <2>1, <2>3 DEF Passed
    <3>2. match[m].on \in Parts
      BY <1>3, <3>1
    <3>3. \A i \in 1..Len(Through[match[m].path]) : Through[match[m].path][i] \in Parts
      BY <1>3, <3>1
    <3> QED BY <1>6, <2>1, <2>2, <2>3, <3>1, <3>2, <3>3 DEF AllIndexed
  <2> QED BY <1>1, <2>1, <2>3 DEF Passed, AllIndexed
<1> QED BY <1>2, <1>5, <1>8, <1>9, <1>10, <1>11, <1>12

LEMMA LoadFailsKeeps ==
  ASSUME RouterInv, NEW part \in Parts, LoadFails(part)
  PROVE  RouterInv'
<1> USE DEF RouterInv
<1>1. /\ entry[part] = "loading" /\ entry' = [entry EXCEPT ![part] = "pending"]
      /\ match' = [m \in Matches |-> IF Awaits(m, part) THEN [match[m] EXCEPT !.state = "failed"] ELSE match[m]]
      /\ UNCHANGED <<kind, tree, indexed>>
  BY DEF LoadFails, Told
<1>2. RouterTypes'
  BY <1>1 DEF RouterTypes, Awaits
<1>3. Once' /\ Above' /\ Frontier' /\ InTree'
  BY <1>1, <1>2, EntriesStay DEF RouterTypes
<1>4. Answered'
  BY <1>1 DEF Answered, RouterTypes, Awaits
<1>5. Passed'
  <2>1. ASSUME NEW m \in Matches, match'[m].state \in {"awaiting", "resumed"} PROVE match'[m] = match[m]
    BY <1>1, <2>1 DEF RouterTypes, Awaits
  <2>2. \A p, n : AllIndexed(p, n)' = AllIndexed(p, n)
    BY <1>1 DEF AllIndexed
  <2> QED BY <1>1, <2>1, <2>2 DEF Passed
<1> QED BY <1>2, <1>3, <1>4, <1>5

LEMMA StepKeeps == RouterInv /\ [RouterNext]_routerVars => RouterInv'
<1> SUFFICES ASSUME RouterInv, [RouterNext]_routerVars PROVE RouterInv'
  OBVIOUS
<1>1. ASSUME NEW m \in Matches, NEW path \in Paths, Match(m, path) PROVE RouterInv'
  <2>1. Through[path] \in Seq(Parts) /\ AllIndexed(path, 0)
    BY RouterAssumption DEF RouterAssumption, AllIndexed
  <2> QED BY <1>1, <2>1, WalkKeeps DEF Match
<1>2. ASSUME NEW m \in Matches, Resume(m) PROVE RouterInv'
  <2>1. match[m].state = "resumed" /\ Walk(m, match[m].path, match[m].at) /\ UNCHANGED <<kind, tree, indexed>>
    BY <1>2 DEF Resume
  <2>2. match[m].path \in Paths /\ match[m].at \in Nat
    BY <2>1 DEF RouterInv, RouterTypes, Passed
  <2>3. kind = "rpc" => AllIndexed(match[m].path, match[m].at)
    <3>1. Through[match[m].path] \in Seq(Parts)
      BY <2>2, RouterAssumption DEF RouterAssumption
    <3> QED BY <2>1, <2>2, <3>1 DEF RouterInv, Passed, AllIndexed
  <2> QED BY <2>1, <2>2, <2>3, WalkKeeps
<1>3. ASSUME NEW part \in Parts, Loaded(part) \/ LoadFails(part) PROVE RouterInv'
  BY <1>3, LoadedKeeps, LoadFailsKeeps
<1>4. CASE UNCHANGED routerVars
  BY <1>4 DEF routerVars, RouterInv, RouterTypes, Once, Above, Frontier, InTree, Passed, Answered, AllIndexed
<1> QED BY <1>1, <1>2, <1>3, <1>4 DEF RouterNext, LoadEnds

\* A request for a procedure is never told that there is none, and no part is
\* indexed twice, for all trees of lazy parts, both matchers, and any number of
\* requests and of failures (match, loadPendingLazyRouter of rpc-matcher.ts and
\* openapi-matcher.ts).
THEOREM NothingIsEverOverlooked == RouterSpec => []NothingIsOverlooked
<1>1. RouterInv => NothingIsOverlooked
  BY DEF RouterInv, RouterTypes, Answered, NothingIsOverlooked
<1> QED BY InitHolds, StepKeeps, <1>1, PTL DEF RouterSpec
=============================================================================
