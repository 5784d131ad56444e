----------------------------- MODULE MediaPath -----------------------------
(***************************************************************************)
(* The way of an access unit from the encoder's buffer to a viewer's       *)
(* screen: the platform splits the buffer into NAL units, `handle` sends   *)
(* them as RTP packets with Delivery::send_rtp, and a client puts the      *)
(* units together again.  Over TCP the packets share the connection with   *)
(* RTCP reports and with responses; over UDP they may be lost, reordered   *)
(* or duplicated.  The broadcaster in between is module Broadcaster.       *)
(***************************************************************************)
EXTENDS NalUnits

CONSTANTS
  Units,      \* the access units an encoder may make, as sequences of NAL units
  MaxUnits,   \* how many of them it makes
  SeqRange,   \* RTP sequence numbers are counted modulo SeqRange (2^16)
  Starts,     \* the sequence numbers the connection may start with
  LinkLimit,  \* writes the connection holds before it blocks
  NoNumber    \* no sequence number, no timestamp

ASSUME SeqRangeAssumption == SeqRange \in Nat /\ SeqRange > 1 /\ Starts \subseteq 0 .. SeqRange - 1
ASSUME LimitsAssumption == MaxUnits \in Nat /\ LinkLimit \in Nat \ {0}
ASSUME NoNumberAssumption == NoNumber \notin Nat

\* What H.264 asks of a NAL unit: a header, no start code inside, no zero at its end.
ASSUME UnitsAssumption ==
  \A u \in Units : u \in Seq(Seq(Byte)) /\ u # <<>> /\ \A k \in DOMAIN u :
    /\ u[k] # <<>> /\ u[k][1] # 0 /\ u[k][Len(u[k])] # 0
    /\ StartCodes(u[k]) = {}

VARIABLES
  platform,   \* "mac", "windows" or "android"
  carrier,    \* "tcp" or "udp"
  made,       \* the access units the encoder has made
  due,        \* what is still to be sent before the next pass of the loop
  half,       \* the `$` prefix of Head(due) has been written
  sequence,   \* sequence
  open,       \* handle() has not returned
  link,       \* TCP: what was written and not yet read; UDP: datagrams in flight
  parser,     \* TCP: what the client expects next: "message", "body", or it is "torn" or "lost"
  client,     \* the unit the client is putting together
  shown       \* the units it has shown

mediaVars == <<platform, carrier, made, due, half, sequence, open, link, parser, client, shown>>
clientVars == <<parser, client, shown>>
fixed == <<platform, carrier>>

MediaInit ==
  /\ platform \in {"mac", "windows", "android"}
  /\ carrier \in {"tcp", "udp"}
  /\ made = <<>> /\ due = <<>> /\ half = FALSE
  /\ sequence \in Starts
  /\ open = TRUE
  /\ link = IF carrier = "tcp" THEN <<>> ELSE {}
  /\ parser = "message"
  /\ client = [expected |-> NoNumber, pts |-> NoNumber, whole |-> TRUE, nal |-> <<>>, unit |-> <<>>]
  /\ shown = <<>>
-----------------------------------------------------------------------------
(* The encoder's buffer. *)

\* The four bytes of a length.
BigEndian(n) ==
  LET Digit(unit) == (n \div unit) % Base
  IN  <<Digit(Base * Base * Base), Digit(Base * Base), Digit(Base), Digit(1)>>

Prefixed(format, unit, k) ==
  CASE format = "avcc" -> BigEndian(Len(unit[k])) \o unit[k]
    [] format = "short" -> ShortCode \o unit[k]
    [] format \in {"long", "padded"} -> LongCode \o unit[k]
    [] format = "mixed" -> (IF k = 1 THEN LongCode ELSE ShortCode) \o unit[k]
    [] format = "bare" -> unit[k]

Buffer(format, unit) ==
  FlattenSeq([k \in DOMAIN unit |-> Prefixed(format, unit, k)])
    \o (IF format = "padded" THEN <<0, 0>> ELSE <<>>)

\* The length in front of a NAL unit reads as a start code: alone, if it is 1 or 256 to
\* 511 or ends in 0, 0, 1, or with the header behind it, if it ends in two zeros.
ReadsAsCode(nal) ==
  \/ Len(nal) \div Base = 1 \/ Len(nal) % (Base * Base * Base) = 1
  \/ Len(nal) % (Base * Base) = 0 /\ nal[1] = 1

\* At the front of a buffer it looks like Annex B or like a bare unit.
OpensOtherwise(nal) ==
  \/ Len(nal) = 1 \/ Len(nal) \div Base = 1
  \/ Len(nal) \div (Base * Base * Base) \in Headers

\* An access unit fits AVCC when every length fits four bytes and the platform cannot
\* take it for another format: Windows looks for start codes everywhere in a buffer,
\* Android at its front, and macOS knows no other format.
FitsAvcc(unit) ==
  /\ \A k \in DOMAIN unit : Len(unit[k]) < Base * Base * Base * Base
  /\ platform = "windows" => \A k \in DOMAIN unit : ~ReadsAsCode(unit[k])
  /\ platform = "android" => ~OpensOtherwise(unit[1])

FormatsOf(system) ==
  CASE system = "mac" -> {"avcc"}
    [] system = "windows" -> {"avcc", "short", "long", "mixed"}
    [] system = "android" -> {"avcc", "short", "long", "mixed", "padded", "bare"}

Formats(unit) ==
  {f \in FormatsOf(platform) :
     /\ f = "avcc" => FitsAvcc(unit)
     /\ f = "bare" => Len(unit) = 1 /\ unit[1][1] \in Headers}

Message(kind) == [kind |-> kind]
-----------------------------------------------------------------------------
(* The tail of handle's loop. *)

\* Variant: the index of a NAL unit, counted from zero, is compared with their number.
MarkerNeverComes(nals, pts) ==
  FlattenSeq([n \in DOMAIN nals |->
    LET payloads == Packetize(nals[n]) IN
    [k \in DOMAIN payloads |->
      [kind |-> "rtp", pts |-> pts, payload |-> payloads[k],
       marker |-> n - 1 = Len(nals) /\ k = Len(payloads)]]])

\* The packets of a unit, still without sequence numbers.
Packets(nals, pts) ==
  FlattenSeq([n \in DOMAIN nals |->
    LET payloads == Packetize(nals[n]) IN
    [k \in DOMAIN payloads |->
      [kind |-> "rtp", pts |-> pts, payload |-> payloads[k],
       marker |-> n = Len(nals) /\ k = Len(payloads)]]])

Idle == open /\ due = <<>>

\* recv_timeout() yields the next unit.
TakeUnit(u, format) ==
  /\ Idle /\ Len(made) < MaxUnits
  /\ format \in Formats(u)
  /\ made' = Append(made, u)
  /\ due' = Packets(Split(platform, Buffer(format, u)), Len(made) + 1)
  /\ UNCHANGED <<fixed, half, sequence, open, link, clientVars>>

\* A response, and an RTCP report once something has been sent: with UDP neither
\* travels on the way of the media.
SendOther(kind) ==
  /\ Idle /\ carrier = "tcp"
  /\ kind = "report" => made # <<>>
  /\ due' = <<Message(kind)>>
  /\ UNCHANGED <<fixed, made, half, sequence, open, link, clientVars>>

Numbered(message) ==
  IF message.kind = "rtp"
    THEN [kind |-> "rtp", seq |-> sequence, pts |-> message.pts,
          marker |-> message.marker, payload |-> message.payload]
    ELSE message

\* The message at the head of due is out.
Sent ==
  /\ due' = Tail(due) /\ half' = FALSE
  /\ sequence' = IF Head(due).kind = "rtp" THEN (sequence + 1) % SeqRange ELSE sequence

\* send_rtp and send_rtcp over TCP are two writes; a response is one.
WritePrefix ==
  /\ carrier = "tcp" /\ due # <<>> /\ Head(due).kind # "response" /\ ~half
  /\ Len(link) < LinkLimit
  /\ link' = Append(link, Message("prefix"))
  /\ half' = TRUE
  /\ UNCHANGED <<fixed, made, due, sequence, open, clientVars>>

WriteBody ==
  /\ carrier = "tcp" /\ due # <<>> /\ (half \/ Head(due).kind = "response")
  /\ Len(link) < LinkLimit
  /\ link' = Append(link, Numbered(Head(due)))
  /\ Sent
  /\ UNCHANGED <<fixed, made, open, clientVars>>

\* Variant: a failed write is not an error of the connection.
WriteIsForgotten ==
  /\ carrier = "tcp" /\ due # <<>>
  /\ due' = Tail(due) /\ half' = FALSE
  /\ link' \in {link, Append(link, Message("torn"))}
  /\ UNCHANGED <<fixed, made, sequence, open, clientVars>>

\* A write fails or meets its deadline, with none or some of its bytes written.
WriteFails ==
  /\ carrier = "tcp" /\ due # <<>>
  /\ open' = FALSE /\ due' = <<>> /\ half' = FALSE
  /\ link' \in {link, Append(link, Message("torn"))}
  /\ UNCHANGED <<fixed, made, sequence, clientVars>>

\* send_to over UDP.
SendDatagram ==
  /\ carrier = "udp" /\ due # <<>>
  /\ \/ link' = link \cup {Numbered(Head(due))} /\ Sent /\ UNCHANGED open
     \/ open' = FALSE /\ due' = <<>> /\ UNCHANGED <<link, half, sequence>>
  /\ UNCHANGED <<fixed, made, clientVars>>
-----------------------------------------------------------------------------
(* A client that follows RFC 6184. *)

\* More than half the range behind what is expected.
Late(p) ==
  client.expected # NoNumber /\ (p.seq - client.expected) % SeqRange >= SeqRange \div 2

\* A packet is missing before p; without an RTP-Info header a UDP client cannot
\* tell whether its first packet is the first one sent.
Gap(p) == IF client.expected = NoNumber THEN carrier = "udp" ELSE p.seq # client.expected

Receive(p) ==
  LET pay == p.payload
      fresh == p.pts # client.pts
      partial == IF fresh \/ Gap(p) THEN <<>> ELSE client.nal
      broken == IF pay.first THEN partial # <<>> ELSE partial = <<>>
      whole == ~Gap(p) /\ ~broken /\ (fresh \/ client.whole)
      nal == (IF pay.first THEN <<pay.header>> ELSE partial) \o pay.data
      before == IF fresh THEN <<>> ELSE client.unit
      unit == IF pay.last THEN Append(before, nal) ELSE before
  IN  /\ client' = [expected |-> (p.seq + 1) % SeqRange,
                    pts |-> IF p.marker THEN NoNumber ELSE p.pts,
                    whole |-> whole \/ p.marker,
                    nal |-> IF pay.last \/ ~whole THEN <<>> ELSE nal,
                    unit |-> IF p.marker \/ ~whole THEN <<>> ELSE unit]
      /\ shown' = IF p.marker /\ whole THEN Append(shown, [pts |-> p.pts, nals |-> unit])
                  ELSE shown

Parse(m) ==
  CASE parser = "message" /\ m.kind = "prefix" -> "body"
    [] parser = "message" /\ m.kind = "response" -> "message"
    [] parser = "body" /\ m.kind \in {"rtp", "report"} -> "message"
    [] parser \in {"message", "body"} /\ m.kind = "torn" -> "torn"
    [] OTHER -> "lost"

ReadStream ==
  /\ carrier = "tcp" /\ link # <<>>
  /\ link' = Tail(link)
  /\ parser' = Parse(Head(link))
  /\ IF Head(link).kind = "rtp" /\ parser = "body" THEN Receive(Head(link))
     ELSE UNCHANGED <<client, shown>>
  /\ UNCHANGED <<fixed, made, due, half, sequence, open>>

ReceiveDatagram(p) ==
  /\ link' \in {link, link \ {p}}
  /\ IF Late(p) THEN UNCHANGED <<client, shown>> ELSE Receive(p)
  /\ UNCHANGED <<fixed, made, due, half, sequence, open, parser>>

Lose(p) ==
  /\ link' = link \ {p}
  /\ UNCHANGED <<fixed, made, due, half, sequence, open, clientVars>>
-----------------------------------------------------------------------------
Datagrams == IF carrier = "udp" THEN link ELSE {}

MediaNext ==
  \/ \E u \in Units : \E f \in Formats(u) : TakeUnit(u, f)
  \/ \E kind \in {"response", "report"} : SendOther(kind)
  \/ WritePrefix \/ WriteBody \/ WriteFails \/ SendDatagram
  \/ ReadStream
  \/ \E p \in Datagrams : ReceiveDatagram(p) \/ Lose(p)

MediaSpec == MediaInit /\ [][MediaNext]_mediaVars
-----------------------------------------------------------------------------
\* Types; and no payload, fragmented or not, is larger than the MTU.
MediaTypeOK ==
  /\ made \in Seq(Units) /\ Len(made) <= MaxUnits
  /\ \A k \in DOMAIN due : due[k].kind = "rtp" => Size(due[k].payload) <= Mtu
  /\ half \in BOOLEAN /\ open \in BOOLEAN
  /\ sequence \in 0 .. SeqRange - 1
  /\ parser \in {"message", "body", "torn", "lost"}
  /\ shown \in Seq([pts : 1 .. MaxUnits, nals : Seq(Seq(Byte))])

\* The packets of all the units made so far.
Stream == FlattenSeq([n \in DOMAIN made |-> Packets(made[n], n)])

\* What a viewer shows is what the encoder made: every unit it takes for complete has
\* exactly the NAL units the encoder put into one buffer, in whatever format, and
\* units are shown in order, over TCP without exception, however fragments were lost,
\* reordered or duplicated and wherever the sequence number wrapped.  Over UDP a client
\* knows a packet that is late, or a gap, for less than half the range of numbers.
ShownIsMade ==
  carrier = "tcp" \/ Len(Stream) <= SeqRange - SeqRange \div 2 =>
    /\ \A k \in DOMAIN shown : shown[k].pts <= Len(made) /\ shown[k].nals = made[shown[k].pts]
    /\ \A k \in 2 .. Len(shown) : shown[k - 1].pts < shown[k].pts
    /\ carrier = "tcp" => \A k \in DOMAIN shown : shown[k].pts = k

\* A client never takes the inside of a packet for a message: whether the deadline strikes
\* between a prefix and its packet or inside either, a frame of which only a part was
\* written is the last thing on the connection.
FramesStayWhole == parser # "lost"

\* Over TCP every unit reaches the screen, unless a write failed: every unit ends in
\* a packet with the marker and every fragmented NAL unit in one with the end bit.
TcpShowsEveryUnit ==
  \A n \in 1 .. MaxUnits : carrier = "tcp" /\ Len(made) = n ~> ~open \/ Len(shown) >= n
=============================================================================
