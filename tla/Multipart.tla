------------------------------- MODULE Multipart -------------------------------
(***************************************************************************)
(* parseMultipart (node/src/multipart.ts): a form is read part by part from  *)
(* a stream whose chunks may break anywhere, in a delimiter, a line or a     *)
(* header, and what is certain of a body goes to its writer at once.         *)
(*                                                                         *)
(* A byte is a symbol; the boundary is "B", and a header block is one symbol *)
(* that says what parsePartHeaders makes of it, followed by its length.      *)
(***************************************************************************)
EXTENDS Integers, Sequences, SequencesExt

CONSTANTS
  Forms,         \* the forms that are sent: [preamble, parts, epilogue]
  MaxPartHeader, \* MAX_PART_HEADER_SIZE
  MaxChunk       \* bound: the longest chunk, but for one with all the rest

VARIABLES
  form,     \* the form that is sent: its parts are [line, header, body]
  received, \* how many of its bytes have arrived
  source,   \* the stream: "open" or "ended", maybe too soon
  buffer,   \* what is not settled yet
  state,    \* "preamble", "delimiter-end", "headers" or "body"
  busy,     \* process is at work on the buffer
  outcome,  \* "none", "done" or "thrown"
  parts     \* what onPart and the writers got: [header, body, ended]

multipartVars == <<form, received, source, buffer, state, busy, outcome, parts>>

Crlf == <<"cr", "lf">>
delimiter == Crlf \o <<"-", "-", "B">>

\* The line after a boundary, and the headers of a part.
GoodLines == {"bare", "padded"}
LineBytes(line) ==
  CASE line = "bare" -> Crlf
    [] line = "padded" -> <<"sp">> \o Crlf
    [] line = "broken" -> <<"sp", "x">> \o Crlf
GoodHeaders == {"file", "field", "long"}
HeaderBytes(header) ==
  CASE header = "missing" -> Crlf
    [] header = "long" -> <<header>> \o [i \in 1..MaxPartHeader |-> "x"] \o Crlf \o Crlf
    [] OTHER -> <<header>> \o Crlf \o Crlf

\* The bytes of a part, from its boundary to the line break before the next, and of a form.
PartBytes(p) == <<"-", "-", "B">> \o LineBytes(p.line) \o HeaderBytes(p.header) \o p.body \o Crlf
Bytes(f) ==
  f.preamble \o FlattenSeq([i \in 1..Len(f.parts) |-> PartBytes(f.parts[i])]) \o
  <<"-", "-", "B", "-", "-">> \o f.epilogue

\* indexOf: where the needle begins in b, -1 if it is not there.
IndexOf(needle, b) ==
  LET at == {i \in 0..Len(b) - Len(needle) : SubSeq(b, i + 1, i + Len(needle)) = needle}
  IN  IF at = {} THEN -1 ELSE CHOOSE i \in at : \A j \in at : i <= j
Drop(b, n) == SubSeq(b, n + 1, Len(b))

\* A preamble, if there is one, ends with a line break, and no delimiter is part of one
\* or of a body.
ASSUME FormAssumption ==
  /\ MaxPartHeader \in Nat /\ MaxPartHeader >= 4 /\ MaxChunk \in Nat
  /\ \A f \in Forms :
       /\ f.preamble \in Seq(STRING) /\ f.epilogue \in Seq(STRING)
       /\ SubSeq(Crlf \o f.preamble, Len(f.preamble) + 1, Len(f.preamble) + 2) = Crlf
       /\ IndexOf(delimiter, Crlf \o f.preamble) = -1
       /\ f.parts \in Seq([line : GoodLines \cup {"broken"}, body : Seq(STRING),
                           header : GoodHeaders \cup {"missing", "malformed"}])
       /\ \A n \in 1..Len(f.parts) : IndexOf(delimiter, f.parts[n].body) = -1

MultipartInit ==
  /\ form \in Forms
  /\ received = 0 /\ source = "open"
  /\ buffer = Crlf                  \* the opening boundary needs no line before it
  /\ state = "preamble" /\ busy = FALSE /\ outcome = "none"
  /\ parts = <<>>

\* A chunk arrives and is appended; after the close delimiter it is ignored.
ChunkArrives(n) ==
  /\ ~busy /\ source = "open" /\ outcome # "thrown"
  /\ n <= Len(Bytes(form)) - received
  /\ received' = received + n
  /\ IF outcome = "done"
     THEN UNCHANGED <<buffer, busy>>
     ELSE buffer' = buffer \o SubSeq(Bytes(form), received + 1, received + n) /\ busy' = TRUE
  /\ UNCHANGED <<form, source, state, outcome, parts>>

\* The stream ends, as a whole or because the client goes away.
SourceEnds ==
  /\ ~busy /\ source = "open" /\ outcome # "thrown"
  /\ source' = "ended"
  /\ outcome' = IF outcome = "done" THEN "done" ELSE "thrown"
  /\ UNCHANGED <<form, received, buffer, state, busy, parts>>

Written(bytes) == [parts EXCEPT ![Len(parts)].body = @ \o bytes]

\* Mutant of Settled: keeps one byte too few.
SettledTooMuch(b) == Len(b) - Len(delimiter) + 2
\* How many bytes cannot belong to a delimiter that is still to come.
Settled(b) == Len(b) - Len(delimiter) + 1

\* process in a preamble or a body without a delimiter: it waits for more.
KeepUnsettled ==
  /\ busy /\ state \in {"preamble", "body"} /\ IndexOf(delimiter, buffer) = -1
  /\ IF Settled(buffer) > 0
     THEN /\ parts' = IF state = "body" THEN Written(SubSeq(buffer, 1, Settled(buffer))) ELSE parts
          /\ buffer' = Drop(buffer, Settled(buffer))
     ELSE UNCHANGED <<parts, buffer>>
  /\ busy' = FALSE
  /\ UNCHANGED <<form, received, source, state, outcome>>

\* process at a delimiter: the body before it is complete.
Delimit ==
  /\ busy /\ state \in {"preamble", "body"}
  /\ LET index == IndexOf(delimiter, buffer)
     IN  /\ index # -1
         /\ parts' = IF state = "body"
                     THEN [Written(SubSeq(buffer, 1, index)) EXCEPT ![Len(parts)].ended = TRUE]
                     ELSE parts
         /\ buffer' = Drop(buffer, index + Len(delimiter))
  /\ state' = "delimiter-end"
  /\ UNCHANGED <<form, received, source, busy, outcome>>

Throw ==
  /\ outcome' = "thrown" /\ busy' = FALSE
  /\ UNCHANGED <<buffer, state, parts>>
Wait == busy' = FALSE /\ UNCHANGED <<buffer, state, outcome, parts>>

\* process after a delimiter: the end of the form, or padding and a line break.
EndDelimiter ==
  /\ busy /\ state = "delimiter-end"
  /\ LET padding == {i \in 0..Len(buffer) : \A j \in 1..i : buffer[j] = "sp"}
         index == CHOOSE i \in padding : \A j \in padding : j <= i
     IN  CASE Len(buffer) < 2 -> Wait
           [] IsPrefix(<<"-", "-">>, buffer) ->
                outcome' = "done" /\ buffer' = <<>> /\ busy' = FALSE /\ UNCHANGED <<state, parts>>
           [] OTHER ->
                IF index + 1 >= Len(buffer) THEN Wait
                ELSE IF SubSeq(buffer, index + 1, index + 2) # Crlf THEN Throw
                ELSE /\ buffer' = Drop(buffer, index + 2) /\ state' = "headers"
                     /\ UNCHANGED <<busy, outcome, parts>>
  /\ UNCHANGED <<form, received, source>>

\* process at the headers of a part, and parsePartHeaders; onPart makes its writer.
ReadHeaders ==
  /\ busy /\ state = "headers"
  /\ LET headerEnd == IndexOf(Crlf \o Crlf, buffer)
     IN  IF IsPrefix(Crlf, buffer) THEN Throw
         ELSE IF headerEnd = -1 THEN (IF Len(buffer) > MaxPartHeader THEN Throw ELSE Wait)
         ELSE IF buffer[1] \notin GoodHeaders THEN Throw
         ELSE /\ parts' = Append(parts, [header |-> buffer[1], body |-> <<>>, ended |-> FALSE])
              /\ buffer' = Drop(buffer, headerEnd + 4)
              /\ state' = "body"
              /\ UNCHANGED <<busy, outcome>>
  /\ UNCHANGED <<form, received, source>>

MultipartNext ==
  \/ \E n \in 1..MaxChunk \cup {Len(Bytes(form)) - received} : n > 0 /\ ChunkArrives(n)
  \/ SourceEnds
  \/ KeepUnsettled \/ Delimit \/ EndDelimiter \/ ReadHeaders

----------------------------------------------------------------------------

\* However a form is cut into chunks, what the writers got of it at any time is a
\* beginning of its parts, without a byte of a delimiter and none held back when
\* one ends; it is accepted if and only if all of it came and each part is well
\* formed.  Only headers beyond the limit may be refused or not, by how they come
\* (parseMultipart, process).
FormIsReadWhole ==
  LET wellFormed == SelectInSeq(form.parts, LAMBDA p :
                      p.line \notin GoodLines \/ p.header \notin GoodHeaders)
      good == IF wellFormed = 0 THEN Len(form.parts) ELSE wellFormed - 1
  IN  /\ Len(parts) <= good
      /\ \A i \in 1..Len(parts) :
           /\ parts[i].header = form.parts[i].header
           /\ IsPrefix(parts[i].body, form.parts[i].body)
           /\ parts[i].ended => parts[i].body = form.parts[i].body
           /\ i < Len(parts) => parts[i].ended
      /\ outcome = "done" =>
           good = Len(form.parts) /\ Len(parts) = good /\ \A i \in 1..good : parts[i].ended
      /\ outcome = "thrown" =>
           source = "ended" \/ good < Len(form.parts) \/ \E i \in 1..good : form.parts[i].header = "long"
      /\ source = "ended" /\ outcome = "thrown" /\ ~busy =>
           received < Len(Bytes(form)) \/ good < Len(form.parts)
=============================================================================
