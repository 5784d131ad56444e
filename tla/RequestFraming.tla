--------------------------- MODULE RequestFraming ---------------------------
(***************************************************************************)
(* How `handle` gets requests out of the bytes of a connection:            *)
(* read_control, take_request and parse_request.  The client sends a       *)
(* script of requests, with or without a body, and interleaved RTCP        *)
(* frames; TCP cuts it anywhere.                                           *)
(*                                                                         *)
(* The bytes are tokens <<kind, value>> of one byte each: "dollar" and     *)
(* "byte" for a frame, "start" (a request line), "header", "clen" (a       *)
(* Content-Length header), "badlen" (one that is not a number), "junk" (a  *)
(* line that is not UTF-8) and "crlf".  Two "crlf" in a row end the        *)
(* headers.  No cut falls inside a line or a CRLF: take_request searches   *)
(* the whole buffer again after every read, and forgets nothing it saw.    *)
(***************************************************************************)
EXTENDS Integers, Sequences, SequencesExt

CONSTANTS
  Scripts,      \* what clients send: sequences of messages
  MaxRequest,   \* MAX_REQUEST_BYTES
  Chunk,        \* bytes read at once, 4096
  Radix         \* number of values of a byte

\* The largest request has room for the head of a frame.
ASSUME SizesAssumption ==
  MaxRequest \in Nat /\ MaxRequest >= 4 /\ Chunk \in Nat \ {0} /\ Radix \in Nat \ {0}

VARIABLES
  script,   \* what the client sends
  at,       \* bytes of it that were read
  input,    \* input
  taken,    \* the requests handed to the loop
  state     \* "open", "refused" (by an error of take_request) or "gone" (the client left)

framingVars == <<script, at, input, taken, state>>
-----------------------------------------------------------------------------
(* What a client sends. *)

Line == {"start", "header", "clen", "badlen", "junk"} \X Nat
Token == Line \cup ({"dollar", "byte", "crlf"} \X Nat)

Crlf == <<"crlf", 0>>
Dollar == <<"dollar", 0>>

\* header_value: the first Content-Length counts, and there may be none.
ContentLength(lines) ==
  LET lengths == {i \in DOMAIN lines : lines[i][1] = "clen"}
  IN  IF lengths = {} THEN 0 ELSE lines[Min(lengths)][2]

\* All lines are UTF-8, and the first Content-Length, if there is one, is a number.
Readable(lines) ==
  \A i \in DOMAIN lines :
    /\ lines[i][1] # "junk"
    /\ lines[i][1] = "badlen" => \E j \in 1 .. i - 1 : lines[j][1] = "clen"

\* An interleaved RTCP frame, or a request: its lines and its body.
Frames == [kind : {"frame"}, body : Seq(Token)]
Requests == [kind : {"request"}, lines : Seq(Line), body : Seq(Token)]

\* The body of a request is as long as its Content-Length says, if that says anything.
ClientMessage ==
  Frames \cup {r \in Requests : Readable(r.lines) => Len(r.body) = ContentLength(r.lines)}

ASSUME ScriptsAssumption == Scripts \subseteq Seq(ClientMessage)

\* The head of a request: every line ends with a CRLF, and an empty line ends the head.
HeadBytes(lines) ==
  FlattenSeq([i \in DOMAIN lines |-> <<lines[i], Crlf>>]) \o <<Crlf>>

Bytes(m) ==
  CASE m.kind = "frame" ->
         <<Dollar, <<"byte", 1>>, <<"byte", Len(m.body) \div Radix>>, <<"byte", Len(m.body) % Radix>>>>
           \o m.body
    [] m.kind = "request" -> HeadBytes(m.lines) \o m.body

ClientBytes == FlattenSeq([i \in DOMAIN script |-> Bytes(script[i])])
-----------------------------------------------------------------------------
(* take_request and parse_request *)

\* The position of the last byte of the headers, 0 if they are not complete.
HeaderEnd(bytes) ==
  LET ends == {i \in 2 .. Len(bytes) : bytes[i - 1] = Crlf /\ bytes[i] = Crlf}
  IN  IF ends = {} THEN 0 ELSE Min(ends)

\* The lines of the headers, which a CRLF ends.
Lines(bytes) ==
  FlattenSeq([i \in 1 .. HeaderEnd(bytes) |-> IF bytes[i] = Crlf THEN <<>> ELSE <<bytes[i]>>])

\* Variant: a body is left in the input.
NoBody(lines) == 0

BodyLength(lines) == ContentLength(lines)

\* A request line, then well-formed headers, none of them twice.
Parses(lines) ==
  /\ lines # <<>> /\ lines[1][1] = "start"
  /\ \A i \in 2 .. Len(lines) :
       /\ lines[i][1] \in {"header", "clen"}
       /\ \A j \in 2 .. i - 1 : lines[j] # lines[i] /\ {lines[i][1], lines[j][1]} # {"clen"}

\* Variant: a message waits for the byte that follows it.
Outnumbers(bytes, size) == Len(bytes) > size

Holds(bytes, size) == Len(bytes) >= size

Result(what, request, rest) == [what |-> what, request |-> request, rest |-> rest]

FrameLength(bytes, i) == 4 + bytes[i + 2][2] * Radix + bytes[i + 3][2]

\* A frame at i that the loop drains: not too large, and complete.
FrameAt(bytes, i) ==
  /\ i + 3 <= Len(bytes) /\ bytes[i] = Dollar
  /\ FrameLength(bytes, i) <= MaxRequest
  /\ Holds(bytes, i - 1 + FrameLength(bytes, i))

\* Where the loop stands when it has drained the frames in front of the input.
AfterFrames(bytes) ==
  LET After[i \in 1 .. Len(bytes) + 1] ==
        IF FrameAt(bytes, i) THEN After[i + FrameLength(bytes, i)] ELSE i
  IN  After[1]

\* What the loop finds when no frame is left to drain: the request, if it is complete.
Answer[bytes \in Seq(Token)] ==
  LET More == Result("none", 0, bytes)
      Refused == Result("error", 0, bytes)
      end == HeaderEnd(bytes)
      total == end + BodyLength(Lines(bytes))
  IN  IF bytes # <<>> /\ bytes[1] = Dollar
        THEN IF Len(bytes) >= 4 /\ FrameLength(bytes, 1) > MaxRequest THEN Refused ELSE More
      ELSE IF end = 0 THEN IF Len(bytes) >= MaxRequest THEN Refused ELSE More
      ELSE IF ~Readable(Lines(bytes)) \/ total > MaxRequest THEN Refused
      ELSE IF ~Holds(bytes, total) THEN More
      ELSE IF bytes[1] # Crlf /\ Parses(Lines(bytes))
        THEN Result("request", bytes[1][2], SubSeq(bytes, total + 1, Len(bytes)))
      ELSE Refused

\* Frames are dropped; the first request is taken once it is complete.  `rest` is
\* what is left of the input.
TakeRequest[bytes \in Seq(Token)] ==
  Answer[SubSeq(bytes, AfterFrames(bytes), Len(bytes))]
-----------------------------------------------------------------------------
FramingInit ==
  /\ script \in Scripts
  /\ at = 0 /\ input = <<>> /\ taken = <<>> /\ state = "open"

\* What a call of take_request on bytes does to the connection.
Take(bytes) ==
  LET result == TakeRequest[bytes]
  IN  /\ input' = result.rest
      /\ taken' = IF result.what = "request" THEN Append(taken, result.request) ELSE taken
      /\ state' = IF result.what = "error" THEN "refused" ELSE state

Pending == TakeRequest[input].what

\* read_control without a read: a request is complete in what was read before.
TakeBuffered ==
  /\ state = "open" /\ Pending \in {"request", "error"}
  /\ Take(input)
  /\ UNCHANGED <<script, at>>

\* read_control with a read of n bytes; 0 of them when it would block.
Read(n) ==
  /\ state = "open" /\ Pending = "none"
  /\ n <= Chunk /\ at + n <= Len(ClientBytes)
  /\ at' = at + n
  /\ Take(TakeRequest[input].rest \o SubSeq(ClientBytes, at + 1, at + n))
  /\ UNCHANGED script

\* The read finds the connection closed.
Disconnected ==
  /\ state = "open" /\ Pending = "none"
  /\ state' = "gone"
  /\ input' = TakeRequest[input].rest
  /\ UNCHANGED <<script, at, taken>>

FramingNext == TakeBuffered \/ (\E n \in 0 .. Chunk : Read(n)) \/ Disconnected

FramingSpec == FramingInit /\ [][FramingNext]_framingVars
-----------------------------------------------------------------------------
(* What the script means, whatever the cuts. *)

Proper(m) ==
  /\ Len(Bytes(m)) <= MaxRequest
  /\ m.kind = "request" => Parses(m.lines)

\* The messages before the first one that must be refused.
Understood ==
  LET bad == {i \in DOMAIN script : ~Proper(script[i])}
  IN  IF bad = {} THEN script ELSE SubSeq(script, 1, Min(bad) - 1)

\* The value of the request line tells the requests apart.
Wanted ==
  FlattenSeq([i \in DOMAIN Understood |->
    IF Understood[i].kind = "request" THEN <<Understood[i].lines[1][2]>> ELSE <<>>])

FramingTypeOK ==
  /\ script \in Scripts
  /\ at \in 0 .. Len(ClientBytes)
  /\ input \in Seq(Token)
  /\ state \in {"open", "refused", "gone"}

\* The requests the loop sees do not depend on how the stream was cut: they are those
\* of the script, in order, and neither the body of a request nor an RTCP frame is
\* taken for one.  A connection is refused only for a message that is malformed or
\* too large, and never before every request in front of it was served.
CutsDoNotMatter ==
  /\ IsPrefix(taken, Wanted)
  /\ state = "refused" => taken = Wanted /\ Understood # script

\* However much a client pipelines, a connection buffers less than the largest
\* request and one read.
InputIsBounded == Len(input) < MaxRequest + Chunk

\* Everything a client sent and that can be understood is served, and a message that
\* must be refused is: no cut leaves bytes in the input that wait for more.
EverythingIsServed ==
  <>(state # "open" \/ (taken = Wanted /\ Understood = script))
=============================================================================
