---------------------------- MODULE MCRtspWire -----------------------------
(***************************************************************************)
(* A small instance of RtspWire.  A request may have a body that looks     *)
(* like the end of its headers or like the start of a frame, and a frame   *)
(* may contain what ends the headers of a request.                         *)
(***************************************************************************)
EXTENDS RtspWire

Request(lines, body) == [kind |-> "request", lines |-> lines, body |-> body]
Frame(body) == [kind |-> "frame", body |-> body]

\* The largest of these have exactly MaxRequest = 7 bytes.
ProperMessages == {
  Request(<<<<"start", 1>>>>, <<>>),
  Request(<<<<"start", 2>>, <<"clen", 2>>>>, <<Crlf, Crlf>>),
  Request(<<<<"start", 3>>, <<"clen", 1>>>>, <<Dollar>>),
  Frame(<<>>),
  Frame(<<Crlf, Crlf, Dollar>>)}

\* Too large a frame, body or head; a header twice; no request line; a head that is not
\* UTF-8, and a Content-Length that is not a number, both before a body.
ImproperMessages == {
  Frame(<<Crlf, Crlf, Crlf, Crlf>>),
  Request(<<<<"start", 4>>, <<"clen", 3>>>>, <<Crlf, Crlf, Dollar>>),
  Request(<<<<"start", 5>>, <<"header", 1>>, <<"header", 2>>, <<"header", 3>>>>, <<>>),
  Request(<<<<"start", 6>>, <<"header", 1>>, <<"header", 1>>>>, <<>>),
  Request(<<<<"header", 1>>>>, <<>>),
  Request(<<<<"start", 7>>, <<"junk", 1>>>>, <<Crlf>>),
  Request(<<<<"start", 8>>, <<"badlen", 1>>>>, <<Crlf, Dollar>>)}

Messages == ProperMessages \cup ImproperMessages

MCScripts ==
  {<<>>} \cup [1 .. 1 -> Messages] \cup [1 .. 2 -> Messages]
    \cup {<<a, b, c>> : a \in ProperMessages, b \in ProperMessages, c \in Messages}

\* A NAL unit of n bytes with header h: no start code inside, no zero at its end.
Nal(h, n) == [i \in 1 .. n |-> CASE i = 1 -> h [] i = n /\ n > 1 -> 2 [] OTHER -> i % 3]

\* With Mtu = 5 a fragment carries 3 bytes: 7 bytes fill two fragments exactly, and 5
\* need none.  The lengths 1 and 5 in front of a unit read as start codes, 5 also at the
\* front of a buffer.
MCUnits == {<<Nal(1, 1)>>, <<Nal(2, 7)>>, <<Nal(1, 5), Nal(2, 6)>>, <<Nal(2, 8), Nal(1, 2)>>}

MCStarts == {0, SeqRange - 2}
=============================================================================
