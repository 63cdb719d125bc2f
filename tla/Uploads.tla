--------------------------------- MODULE Uploads ---------------------------------
(***************************************************************************)
(* A request whose uploads are spooled to temporary files                    *)
(* (node/src/tmp-file-upload-handler-plugin.ts): the limits on its body, the *)
(* files in a directory of its own, and their removal, which waits for a     *)
(* response that streams.                                                   *)
(*                                                                         *)
(* A byte of the body is framing, of a field or of a file.  The file system, *)
(* the adapter, which reads the response or cancels it, and the procedure    *)
(* are external.                                                            *)
(***************************************************************************)
EXTENDS Integers, FiniteSets

CONSTANTS
  BodyLimits, \* maxBodySize: [memory, file, stream]
  MaxBody,    \* bound: bytes of a body
  MaxFiles    \* bound: files of a form

\* A kind of body without a limit has one that no body reaches.
ASSUME UploadAssumption == BodyLimits \in [memory : Nat, file : Nat, stream : Nat]

VARIABLES
  hint,      \* what the body is: "none", "form-data", "file", "json" or "octet-stream"
  counted,   \* bytes of it that limitStream has counted
  spent,     \* those that went to memory, to files and through a stream
  task,      \* "called", "reading", "handling", "streaming", "cleaning" or "over"
  piece,     \* the part that is read: "none", "field" or "file"
  tmpPath,   \* its file, NoPath before the first byte
  dir,       \* RequestTmpFiles.dir: "none", "made", "failed"
  count,     \* RequestTmpFiles.count
  onDisk,    \* the files of the request that exist
  input,     \* the files that the procedure has got
  body,      \* of the response: "none", "plain", "iterator" or "stream"
  pulling,   \* a read of it is under way: the procedure is at work
  cancelled, \* the adapter has cancelled it
  kept       \* history: the removal failed

uploadVars == <<hint, counted, spent, task, piece, tmpPath, dir, count, onDisk, input,
                body, pulling, cancelled, kept>>

NoPath == -1
Hints == {"none", "form-data", "file", "json", "octet-stream"}

UploadInit ==
  /\ hint \in Hints
  /\ counted = 0 /\ spent = [memory |-> 0, file |-> 0, stream |-> 0]
  /\ task = "called" /\ piece = "none" /\ tmpPath = NoPath
  /\ dir = "none" /\ count = 0 /\ onDisk = {} /\ input = {}
  /\ body = "none" /\ pulling = FALSE /\ cancelled = FALSE /\ kept = FALSE

\* Where a body of this kind goes, and the most it may have in all.
Category == CASE hint = "file" -> "file" [] hint = "json" -> "memory" [] hint = "octet-stream" -> "stream"
TotalLimit == IF hint = "form-data" THEN BodyLimits.memory + BodyLimits.file ELSE BodyLimits[Category]

\* An answer that does not stream: the interceptor cleans up, then returns it.
AnswerNow == task' = "cleaning" /\ body' = "plain" /\ piece' = "none"

\* next without a match, or an error before the body is wanted: it is not resolved.
NotResolved ==
  /\ task = "called"
  /\ AnswerNow
  /\ UNCHANGED <<hint, counted, spent, tmpPath, dir, count, onDisk, input, pulling, cancelled, kept>>

\* resolveBody.  A stream is read as the procedure goes; what an adapter cannot
\* give as a stream it has read itself (spoolFileBody, parseMultipartBody).
ResolveBody(declared, isStream) ==
  /\ task = "called"
  /\ IF hint = "none" THEN task' = "handling" /\ UNCHANGED <<piece, body>>
     ELSE IF declared > TotalLimit THEN AnswerNow
     ELSE /\ task' = IF ~isStream \/ hint = "octet-stream" THEN "handling" ELSE "reading"
          /\ UNCHANGED <<piece, body>>
  /\ hint' = IF isStream THEN hint ELSE "none"
  /\ UNCHANGED <<counted, spent, tmpPath, dir, count, onDisk, input, pulling, cancelled, kept>>

\* limitStream: one more byte, or PAYLOAD_TOO_LARGE.
FitsInAll == counted + 1 <= TotalLimit
Refused == AnswerNow /\ UNCHANGED <<counted, spent, tmpPath, dir, count, onDisk>>

\* write of a part: its own limit, counted before the chunk is taken.
FitsIn(category) == spent[category] + 1 <= BodyLimits[category]

\* allocate: the first file makes the directory, which fails for all of them.
Allocate ==
  /\ dir' = "made" /\ count' = count + 1
  /\ tmpPath' = count
AllocateFails ==
  /\ dir' = IF dir = "none" THEN "failed" ELSE dir
  /\ UNCHANGED <<count, tmpPath>>

\* spoolFileBody: the file has its path before the first byte.
BeginFile(works) ==
  /\ task = "reading" /\ hint = "file" /\ piece = "none"
  /\ IF works THEN Allocate /\ piece' = "file" /\ UNCHANGED <<task, body>> ELSE AllocateFails /\ AnswerNow
  /\ UNCHANGED <<hint, counted, spent, onDisk, input, pulling, cancelled, kept>>

\* A byte that is framing, or of a JSON body.
ReadFraming ==
  /\ task = "reading" /\ hint \in {"form-data", "json"} /\ counted < MaxBody
  /\ IF FitsInAll
     THEN /\ counted' = counted + 1
          /\ spent' = IF hint = "json" THEN [spent EXCEPT !.memory = @ + 1] ELSE spent
          /\ UNCHANGED <<task, body, piece, tmpPath, dir, count, onDisk>>
     ELSE Refused
  /\ UNCHANGED <<hint, input, pulling, cancelled, kept>>

\* onPart of a form: a field or a file begins.
BeginPart(p) ==
  /\ task = "reading" /\ hint = "form-data" /\ piece = "none"
  /\ p = "file" => count < MaxFiles
  /\ piece' = p /\ tmpPath' = NoPath
  /\ UNCHANGED <<hint, counted, spent, task, dir, count, onDisk, input, body, pulling, cancelled, kept>>

\* A byte of a field, kept in memory.
WriteField ==
  /\ task = "reading" /\ piece = "field" /\ counted < MaxBody
  /\ IF FitsInAll /\ FitsIn("memory")
     THEN /\ counted' = counted + 1 /\ spent' = [spent EXCEPT !.memory = @ + 1]
          /\ UNCHANGED <<task, body, piece, tmpPath, dir, count, onDisk>>
     ELSE Refused
  /\ UNCHANGED <<hint, input, pulling, cancelled, kept>>

\* A byte of a file, appended to its file, or an error of the file system.
WriteFile(works) ==
  /\ task = "reading" /\ piece = "file" /\ counted < MaxBody
  /\ IF ~(FitsInAll /\ FitsIn("file")) THEN Refused
     ELSE /\ counted' = counted + 1 /\ spent' = [spent EXCEPT !.file = @ + 1]
          /\ IF tmpPath = NoPath
             THEN IF works THEN Allocate ELSE AllocateFails
             ELSE UNCHANGED <<dir, count, tmpPath>>
          /\ IF works
             THEN onDisk' = onDisk \cup {tmpPath'} /\ UNCHANGED <<task, body, piece>>
             ELSE AnswerNow /\ UNCHANGED onDisk
  /\ UNCHANGED <<hint, input, pulling, cancelled, kept>>

\* end of a part: seal makes sure that the file exists, and opens it.
EndPart(works) ==
  /\ task = "reading" /\ piece # "none"
  /\ IF piece = "field" THEN piece' = "none" /\ UNCHANGED <<task, body, tmpPath, dir, count, onDisk, input>>
     ELSE /\ IF tmpPath = NoPath
             THEN IF works THEN Allocate ELSE AllocateFails
             ELSE UNCHANGED <<dir, count, tmpPath>>
          /\ IF works
             THEN /\ onDisk' = onDisk \cup {tmpPath'} /\ input' = input \cup {tmpPath'}
                  /\ IF hint = "file" THEN task' = "handling" ELSE UNCHANGED task
                  /\ piece' = "none" /\ UNCHANGED body
             ELSE AnswerNow /\ UNCHANGED <<onDisk, input>>
  /\ UNCHANGED <<hint, counted, spent, pulling, cancelled, kept>>

\* The body ends, as it should or because it is malformed or cut off.
EndBody(complete) ==
  /\ task = "reading" /\ (hint = "file" => piece = "file")
  /\ IF complete THEN piece = "none" /\ task' = "handling" /\ UNCHANGED <<body, piece>> ELSE AnswerNow
  /\ UNCHANGED <<hint, counted, spent, tmpPath, dir, count, onDisk, input, pulling, cancelled, kept>>

\* The procedure reads a body that is a stream: at its limit it gets an error.
ReadStream ==
  /\ hint = "octet-stream" /\ FitsInAll /\ counted < MaxBody
  /\ task = "handling" \/ (task = "streaming" /\ pulling)
  /\ counted' = counted + 1 /\ spent' = [spent EXCEPT !.stream = @ + 1]
  /\ UNCHANGED <<hint, task, piece, tmpPath, dir, count, onDisk, input, body, pulling, cancelled, kept>>

\* Mutant of Deferred: a stream is forgotten.
DeferredForIterators(b) == b = "iterator" /\ dir # "none"
\* A response that streams rides its files' removal on its end (tmpFiles.inUse).
Deferred(b) == b \in {"iterator", "stream"} /\ dir # "none"

\* The procedure answers; an error is an answer that does not stream.
RespondWith(b) ==
  /\ task = "handling"
  /\ body' = b
  /\ task' = IF Deferred(b) THEN "streaming" ELSE "cleaning"
  /\ UNCHANGED <<hint, counted, spent, piece, tmpPath, dir, count, onDisk, input, pulling, cancelled, kept>>

\* cleanup: what cannot be removed stays, and the request goes on.
CleanUp(works) ==
  /\ task = "cleaning"
  /\ works \/ dir # "none"
  /\ task' = IF body \in {"iterator", "stream"} /\ ~Deferred(body) THEN "streaming" ELSE "over"
  /\ onDisk' = IF works THEN {} ELSE onDisk
  /\ kept' = (kept \/ ~works)
  /\ UNCHANGED <<hint, counted, spent, piece, tmpPath, dir, count, input, body, pulling, cancelled>>

\* The adapter reads the response; the procedure goes on with it.
ReadResponse ==
  /\ task = "streaming" /\ ~pulling /\ ~cancelled
  /\ pulling' = TRUE
  /\ UNCHANGED <<hint, counted, spent, task, piece, tmpPath, dir, count, onDisk, input, body, cancelled, kept>>

\* wrapAsyncIterator, wrapReadableStream: a read ends, with the end or an error
\* of the body, after which onFinish removes the files, or with neither.
ReadEnds(last) ==
  /\ pulling
  /\ pulling' = FALSE
  /\ task' = IF task = "streaming" /\ (last \/ cancelled) THEN (IF Deferred(body) THEN "cleaning" ELSE "over") ELSE task
  /\ UNCHANGED <<hint, counted, spent, piece, tmpPath, dir, count, onDisk, input, body, cancelled, kept>>

\* The client goes away, and the adapter cancels the response.  return of a
\* generator waits for the read that is under way; cancel of a stream does not.
Cancel ==
  /\ task = "streaming" /\ ~cancelled
  /\ cancelled' = TRUE
  /\ task' = IF pulling /\ body = "iterator" THEN task
             ELSE IF Deferred(body) THEN "cleaning" ELSE "over"
  /\ UNCHANGED <<hint, counted, spent, piece, tmpPath, dir, count, onDisk, input, body, pulling, kept>>

UploadNext ==
  \/ NotResolved
  \/ \E declared \in 0..MaxBody, isStream \in BOOLEAN : ResolveBody(declared, isStream)
  \/ ReadFraming \/ WriteField \/ ReadStream
  \/ \E p \in {"field", "file"} : BeginPart(p)
  \/ \E works \in BOOLEAN : BeginFile(works) \/ WriteFile(works) \/ EndPart(works) \/ CleanUp(works)
  \/ \E complete \in BOOLEAN : EndBody(complete)
  \/ \E b \in {"plain", "iterator", "stream"} : RespondWith(b)
  \/ ReadResponse \/ (\E last \in BOOLEAN : ReadEnds(last)) \/ Cancel

----------------------------------------------------------------------------

\* The files are there as long as the procedure can want them, while it is called
\* and while it goes on with a response that streams; only a stream that is
\* cancelled in the middle of a read loses them under its hands.  When the request
\* is over nothing is left of them, whatever failed on the way, except a removal
\* that failed itself.  And no more than its limit went to memory or to files
\* (init, resolveBody, RequestTmpFiles).
FilesServeTheRequest ==
  /\ task = "handling" \/ pulling => input \subseteq onDisk \/ (body = "stream" /\ cancelled)
  /\ task = "over" => onDisk = {} \/ kept
  /\ \A category \in DOMAIN spent : spent[category] <= BodyLimits[category]
=============================================================================
