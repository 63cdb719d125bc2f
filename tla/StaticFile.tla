------------------------------- MODULE StaticFile -------------------------------
(***************************************************************************)
(* Files that are served while they are replaced                            *)
(* (node/src/static-file-handler-plugin.ts): index and fallback files,       *)
(* precompressed sidecars, conditional requests and ranges, to a client that  *)
(* keeps what it got, asks whether it is still good and resumes what was cut. *)
(*                                                                         *)
(* A version of a file is its size and the time of its modification, of which *)
(* two make a second: two versions alike in both are one for this module, as   *)
(* they are for the plugin, whose etag is made of them.  A byte is the version *)
(* it is of and its place.  The file system, with whoever writes to it, and   *)
(* the client are external.  The URL's segments are resolved already; what of  *)
(* it matters is whether it ends with a slash.                              *)
(***************************************************************************)
EXTENDS Integers, Sequences, SequencesExt

CONSTANTS
  Directories, \* initial contents of the root: functions from paths to Absent, Folder or a version
  Encodings,   \* PRECOMPRESSED_ENCODINGS, in their order; the file itself has ""
  Absent, Folder,         \* what a path may be instead of a version
  Nothing, Unsatisfiable, \* no value; a range beyond the file
  MaxSize,     \* bound: bytes of a file
  MaxTime,     \* bound: times of modification
  MaxWrites,   \* bound: changes of the root
  MaxAsked     \* bound: requests

VARIABLES
  disk,     \* path -> what is there; a path is a name and an encoding
  writes,   \* number of changes, for its bound
  asked,    \* number of requests, for its bound
  request,  \* what the client asks
  stage,    \* of serve: "idle", "looking", "fallback", "negotiating", "opening" or "answered"
  found,    \* the path and the version that serve has
  answer,   \* the response, with the bytes of its body once the file has been read
  stored    \* what the client has: a version and bytes, Nothing at first

staticVars == <<disk, writes, asked, request, stage, found, answer, stored>>

Versions == [size : 0..MaxSize, mtime : 0..MaxTime]

\* Each path has a file, a directory or nothing; no validator is the one that is left out.
ASSUME StaticAssumption ==
  /\ MaxSize \in Nat /\ MaxTime \in Nat
  /\ \A contents \in Directories : contents \in [DOMAIN contents -> Versions \cup {Absent, Folder}]
  /\ Nothing \notin [tag : Versions, weak : BOOLEAN] \cup [second : Nat] \cup Nat
  /\ Unsatisfiable # Nothing

Second(time) == time \div 2
IsFile(entry) == entry \notin {Absent, Folder}
At(path) == IF path \in DOMAIN disk THEN disk[path] ELSE Absent

NoRequest == [ method |-> "GET", slash |-> FALSE, accepts |-> {}, match |-> Nothing, unmodified |-> Nothing,
               noneMatch |-> Nothing, modified |-> Nothing, range |-> Nothing, ifRange |-> Nothing ]
NoAnswer == [status |-> 0, tag |-> Nothing, start |-> 0, end |-> -1, bytes |-> <<>>]

StaticInit ==
  /\ disk \in Directories
  /\ writes = 0 /\ asked = 0 /\ stage = "idle"
  /\ request = NoRequest /\ found = Nothing /\ answer = NoAnswer /\ stored = Nothing

\* isPreconditionFailed.  A validator is a tag with its strength, or a second; "*", which
\* ties an answer to no version, is not sent.  An If-Match compares strongly.
IsPreconditionFailed(version) ==
  IF request.match # Nothing
    THEN request.match # [tag |-> version, weak |-> FALSE]
    ELSE request.unmodified # Nothing /\ Second(version.mtime) > request.unmodified

\* isRequestFresh: an If-None-Match compares weakly, and the date counts only without it.
IsRequestFresh(version) ==
  IF request.noneMatch # Nothing
    THEN request.noneMatch.tag = version
    ELSE request.modified # Nothing /\ Second(version.mtime) <= request.modified

RangeAnyway(version) == TRUE \* Mutant of IsRangeApplicable: If-Range is overlooked.
\* isRangeApplicable: exactly this tag, or exactly this second.
IsRangeApplicable(version) ==
  CASE request.ifRange = Nothing -> TRUE
    [] request.ifRange # Nothing /\ "tag" \in DOMAIN request.ifRange ->
         request.ifRange = [tag |-> version, weak |-> FALSE]
    [] OTHER -> request.ifRange.second = Second(version.mtime)

\* parseByteRange: the first and the last byte, Unsatisfiable or Nothing; a number
\* that is missing is -1.
Least(a, b) == IF a <= b THEN a ELSE b
Greatest(a, b) == IF a >= b THEN a ELSE b
ParseByteRange(first, last, size) ==
  CASE first = -1 /\ last = -1 -> Nothing
    [] first = -1 /\ last # -1 ->
         IF last = 0 \/ size = 0 THEN Unsatisfiable ELSE <<Greatest(0, size - last), size - 1>>
    [] OTHER ->
         LET end == IF last = -1 THEN size - 1 ELSE Least(last, size - 1) IN
         IF first >= size THEN Unsatisfiable ELSE IF end < first THEN Nothing ELSE <<first, end>>

StatusOnly(code, version) == [NoAnswer EXCEPT !.status = code, !.tag = version]

\* The rest of serve once the version is known: no await is left.
Respond(path, version) ==
  LET parsed == IF request.method = "GET" /\ request.range # Nothing /\ IsRangeApplicable(version)
                  THEN ParseByteRange(request.range[1], request.range[2], version.size) ELSE Nothing
      whole == [StatusOnly(200, version) EXCEPT !.end = version.size - 1]
      Over(response) == stage' = "answered" /\ answer' = response
      Opening(response) == /\ stage' = IF request.method = "HEAD" THEN "answered" ELSE "opening"
                           /\ answer' = response
  IN /\ found' = [path |-> path, version |-> version]
     /\ CASE IsPreconditionFailed(version) -> Over(StatusOnly(412, version))
          [] ~IsPreconditionFailed(version) /\ IsRequestFresh(version) -> Over(StatusOnly(304, version))
          [] OTHER -> CASE parsed = Unsatisfiable -> Over(StatusOnly(416, version))
                        [] parsed = Nothing -> Opening(whole)
                        [] OTHER -> Opening([whole EXCEPT !.status = 206, !.start = parsed[1], !.end = parsed[2]])

\* The end of the lookups: the sidecars are looked for next, if any is acceptable.
Found(path, version) ==
  IF request.accepts = {} THEN Respond(path, version)
  ELSE stage' = "negotiating" /\ found' = [path |-> path, version |-> version] /\ UNCHANGED answer

NotServed == stage' = "answered" /\ answer' = StatusOnly(404, Nothing) /\ UNCHANGED found
Moved == stage' = "answered" /\ answer' = StatusOnly(301, Nothing) /\ UNCHANGED found

\* lookup of what the URL names: a directory is redirected to its index file.
LookUp ==
  LET path == <<IF request.slash THEN "index" ELSE "page", "">>
      entry == At(path) IN
  /\ stage = "looking"
  /\ CASE IsFile(entry) -> Found(path, entry)
       [] entry = Folder /\ ~request.slash -> Moved
       [] OTHER -> stage' = "fallback" /\ UNCHANGED <<found, answer>>
  /\ UNCHANGED <<disk, writes, asked, request, stored>>

LookUpFallback ==
  LET path == <<"fallback", "">> IN
  /\ stage = "fallback"
  /\ IF IsFile(At(path)) THEN Found(path, At(path)) ELSE NotServed
  /\ UNCHANGED <<disk, writes, asked, request, stored>>

\* The first acceptable encoding that has a file, or the file itself as it was found.
Negotiate ==
  LET Sidecar(n) == <<found.path[1], Encodings[n]>>
      there == {n \in DOMAIN Encodings : Encodings[n] \in request.accepts /\ IsFile(At(Sidecar(n)))} IN
  /\ stage = "negotiating"
  /\ \/ there = {} /\ Respond(found.path, found.version)
     \/ \E n \in there : (\A m \in there : n <= m) /\ Respond(Sidecar(n), At(Sidecar(n)))
  /\ UNCHANGED <<disk, writes, asked, request, stored>>

\* createReadStream opens what the path is by now, and the client takes no more than
\* the content-length; the connection may be cut.  Of a file that was replaced after
\* its stat nothing can be said: its bytes are Nothing's.
Read(cut) ==
  LET now == At(found.path)
      last == IF IsFile(now) THEN Least(answer.end, now.size - 1) ELSE -1
      Byte(i) == [of |-> IF now = found.version THEN now ELSE Nothing, at |-> answer.start + i - 1] IN
  /\ stage = "opening"
  /\ cut <= Greatest(0, last - answer.start + 1)
  /\ answer' = [answer EXCEPT !.bytes = [i \in 1..cut |-> Byte(i)]]
  /\ stage' = "answered"
  /\ UNCHANGED <<disk, writes, asked, request, found, stored>>

\* Whoever publishes files: one is replaced, by a newer or an older one, or removed.
Write(path) ==
  /\ writes < MaxWrites
  /\ \E entry \in Versions \cup {Absent} : entry # disk[path] /\ disk' = [disk EXCEPT ![path] = entry]
  /\ writes' = writes + 1
  /\ UNCHANGED <<asked, request, stage, found, answer, stored>>

Ask(what) ==
  /\ stage = "idle" /\ asked < MaxAsked
  /\ stage' = "looking" /\ request' = what /\ asked' = asked + 1
  /\ UNCHANGED <<disk, writes, found, answer, stored>>

\* The client asks for a file, or for some bytes of it.
Ranges == {<<first, last>> : first \in -1..MaxSize, last \in -1..MaxSize}
Fetch(slash, accepts, range) ==
  /\ stored = Nothing
  /\ Ask([NoRequest EXCEPT !.slash = slash, !.accepts = accepts, !.range = range])

\* It asks whether what it has is still good, by the tag, by the date or by both.
Revalidate(method, weak, by) ==
  /\ stored # Nothing
  /\ Ask([NoRequest EXCEPT !.method = method, !.slash = stored.slash, !.accepts = stored.accepts,
            !.noneMatch = IF "tag" \in by THEN [tag |-> stored.tag, weak |-> weak] ELSE Nothing,
            !.modified = IF "date" \in by THEN Second(stored.tag.mtime) ELSE Nothing])

\* It asks for the rest of what was cut, provided that it is the rest of the same.
Resume(weak, by) ==
  /\ stored # Nothing /\ Len(stored.bytes) < stored.tag.size
  /\ LET validator == [tag |-> stored.tag, weak |-> weak]
         rest == [NoRequest EXCEPT !.slash = stored.slash, !.accepts = stored.accepts,
                                   !.range = <<Len(stored.bytes), -1>>] IN
     Ask(CASE by = "ifRange" -> [rest EXCEPT !.ifRange = validator]
           [] by = "second" -> [rest EXCEPT !.ifRange = [second |-> Second(stored.tag.mtime)]]
           [] by = "match" -> [rest EXCEPT !.match = validator]
           [] by = "unmodified" -> [rest EXCEPT !.unmodified = Second(stored.tag.mtime)])

\* How the bytes of the answer are tied to those that the client has.
Tie == CASE request.unmodified # Nothing -> "not newer"
         [] request.ifRange # Nothing /\ "second" \in DOMAIN request.ifRange -> "same second"
         [] OTHER -> "same"
Tied == [i \in DOMAIN answer.bytes |->
           [of |-> answer.bytes[i].of, at |-> answer.bytes[i].at,
            tie |-> IF answer.status = 200 THEN "same" ELSE Tie]]

\* The client takes the answer: it keeps a file, adds the rest to what it has and
\* drops what is gone or has changed.
Take ==
  /\ stage = "answered"
  /\ stored' =
       CASE request.method = "HEAD" \/ answer.status = 304 -> stored
         [] answer.status = 200 \/ (answer.status = 206 /\ stored = Nothing /\ answer.start = 0) ->
              [tag |-> answer.tag, bytes |-> Tied, slash |-> request.slash, accepts |-> request.accepts]
         [] answer.status = 206 /\ stored # Nothing -> [stored EXCEPT !.bytes = @ \o Tied]
         [] OTHER -> Nothing
  /\ stage' = "idle" /\ request' = NoRequest /\ answer' = NoAnswer /\ found' = Nothing
  /\ UNCHANGED <<disk, writes, asked>>

StaticNext ==
  \/ LookUp \/ LookUpFallback \/ Negotiate \/ Take
  \/ \E cut \in 0..MaxSize : Read(cut)
  \/ \E path \in DOMAIN disk : Write(path)
  \/ \E slash \in BOOLEAN, accepts \in SUBSET ToSet(Encodings), range \in Ranges \cup {Nothing} :
       Fetch(slash, accepts, range)
  \/ \E method \in {"GET", "HEAD"}, weak \in BOOLEAN, by \in {{"tag"}, {"date"}, {"tag", "date"}} :
       Revalidate(method, weak, by)
  \/ \E weak \in BOOLEAN, by \in {"ifRange", "second", "match", "unmodified"} : Resume(weak, by)

-----------------------------------------------------------------------------
(* What a client makes of the answers *)

\* A range lies within its file, and a response has the bytes of its range, in order
\* from the first.
RangesAreExact ==
  answer.status = 206 =>
    /\ 0 <= answer.start /\ answer.start <= answer.end /\ answer.end < answer.tag.size
    /\ \A i \in DOMAIN answer.bytes : answer.bytes[i].at = answer.start + i - 1

\* What the client keeps after a 304 is the file that is served now: by its tag exactly,
\* whatever date came with it, and by the date alone at least as new.
StillGood ==
  answer.status = 304 =>
    IF request.noneMatch # Nothing THEN answer.tag = stored.tag
    ELSE Second(answer.tag.mtime) <= Second(stored.tag.mtime)

\* The bytes that the client has put together, from responses that were cut and resumed
\* while the file was replaced, are the bytes of one version at their places; only
\* those that were resumed by a date may be of another, of that second or, with
\* If-Unmodified-Since, an older one, and of a file that was replaced between its stat
\* and its opening nothing is said.
DownloadIsOneVersion ==
  /\ RangesAreExact /\ StillGood
  /\ stored # Nothing => \A i \in DOMAIN stored.bytes :
       LET byte == stored.bytes[i] IN
       /\ byte.at = i - 1
       /\ byte.of # Nothing => CASE byte.tie = "same" -> byte.of = stored.tag
                                 [] byte.tie = "same second" -> Second(byte.of.mtime) = Second(stored.tag.mtime)
                                 [] byte.tie = "not newer" -> Second(byte.of.mtime) <= Second(stored.tag.mtime)
=============================================================================
