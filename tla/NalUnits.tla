------------------------------ MODULE NalUnits ------------------------------
(***************************************************************************)
(* From the buffer an encoder hands over to RTP payloads: the split_h264   *)
(* of the Android bridge and of the Windows pipeline, the split_avcc of    *)
(* the macOS pipeline, and packetize_h264 of camrtsp-rtp.                  *)
(*                                                                         *)
(* A buffer is a sequence of bytes in base Base instead of 256, so that    *)
(* the four-byte lengths of AVCC overflow their bytes at small sizes.  The *)
(* first byte of a NAL unit is its header.                                 *)
(***************************************************************************)
EXTENDS Integers, Sequences, SequencesExt

CONSTANTS
  Base,    \* number of values of a byte
  Headers, \* first bytes of a NAL unit of type 1 to 23 with the forbidden bit clear
  Mtu      \* RTP_MTU, in bytes

ASSUME BaseAssumption == Base \in Nat /\ Base > 2
ASSUME HeadersAssumption == Headers \subseteq 1 .. Base - 1
ASSUME MtuAssumption == Mtu \in Nat /\ Mtu > 2

Byte == 0 .. Base - 1

ShortCode == <<0, 0, 1>>
LongCode == <<0, 0, 0, 1>>

Opens(bytes, i, code) == IsPrefix(code, SubSeq(bytes, i, Len(bytes)))

\* Length of the start code at i, 0 if there is none.
PrefixAt(bytes, i) ==
  IF Opens(bytes, i, LongCode) THEN 4 ELSE IF Opens(bytes, i, ShortCode) THEN 3 ELSE 0

StartCodes(bytes) == {i \in DOMAIN bytes : PrefixAt(bytes, i) > 0}

\* The parts that are not empty.
NonEmpty(parts) ==
  FlattenSeq([k \in DOMAIN parts |-> IF parts[k] = <<>> THEN <<>> ELSE <<parts[k]>>])

\* What lies between the start codes at the positions in marks, without the empty pieces.
Between(bytes, marks) ==
  LET End(i) == Min({j \in marks : j > i} \cup {Len(bytes) + 1}) - 1
      Piece(i) == SubSeq(bytes, i + PrefixAt(bytes, i), End(i))
  IN  NonEmpty([i \in DOMAIN bytes |-> IF i \in marks THEN Piece(i) ELSE <<>>])

\* The zeros at the end are removed.
TrimZeros(nal) ==
  SubSeq(nal, 1, Min({n \in 0 .. Len(nal) : \A i \in n + 1 .. Len(nal) : nal[i] = 0}))

Length32(bytes, i) ==
  ((bytes[i] * Base + bytes[i + 1]) * Base + bytes[i + 2]) * Base + bytes[i + 3]

\* The length-prefixed units of a buffer and how the walk over them ended: at the
\* last byte ("exact"), in a length ("short") or in a unit ("truncated").
Avcc(bytes) ==
  LET Walk[o \in 1 .. Len(bytes) + 1] ==
        IF o > Len(bytes) THEN [units |-> <<>>, end |-> "exact"]
        ELSE IF o + 3 > Len(bytes) THEN [units |-> <<>>, end |-> "short"]
        ELSE LET next == o + 4 + Length32(bytes, o)
             IN  IF next > Len(bytes) + 1 THEN [units |-> <<>>, end |-> "truncated"]
                 ELSE [units |-> <<SubSeq(bytes, o + 4, next - 1)>> \o Walk[next].units,
                       end |-> Walk[next].end]
  IN  Walk[1]

\* macOS: what comes before a truncated unit is kept.
SplitMac(bytes) == Avcc(bytes).units

\* Windows: every match of either start code counts, anywhere in the buffer.  The
\* long code at i also matches as a short one at i + 1, which leaves nothing for i.
SplitWindows(bytes) ==
  IF StartCodes(bytes) # {} THEN Between(bytes, StartCodes(bytes))
  ELSE IF Avcc(bytes).end = "truncated" THEN <<>> ELSE Avcc(bytes).units

\* Android: Annex B when the buffer opens with a start code, trailing zeros removed;
\* one bare unit when it opens with a NAL header; AVCC otherwise, all or nothing.
SplitAndroid(bytes) ==
  LET found == StartCodes(bytes)
      marks == {i \in found : i = 1 \/ PrefixAt(bytes, i - 1) # 4}
      units == Between(bytes, marks)
  IN  IF 1 \in found
        THEN NonEmpty([k \in DOMAIN units |-> TrimZeros(units[k])])
      ELSE IF bytes # <<>> /\ bytes[1] \in Headers THEN <<bytes>>
      ELSE IF Avcc(bytes).end = "exact" /\ \A k \in DOMAIN Avcc(bytes).units :
                                              Avcc(bytes).units[k] # <<>>
        THEN Avcc(bytes).units ELSE <<>>

Split(platform, bytes) ==
  CASE platform = "mac" -> SplitMac(bytes)
    [] platform = "windows" -> SplitWindows(bytes)
    [] platform = "android" -> SplitAndroid(bytes)
-----------------------------------------------------------------------------
\* A payload: a whole NAL unit, or an FU-A fragment of one whose start and end bits
\* are `first` and `last`; `header` is the header of the NAL unit.
Payload(fragment, nal, first, last, data) ==
  [fragment |-> fragment, header |-> nal[1], first |-> first, last |-> last, data |-> data]

\* Bytes of the payload: the FU indicator and header, or the NAL header, come first.
Size(payload) == Len(payload.data) + IF payload.fragment THEN 2 ELSE 1

\* Variant: room is left for one of the two bytes that precede a fragment's data.
FragmentTooLarge == Mtu - 1

FragmentSize == Mtu - 2

\* Variant: the size of the unit counts its header, which no fragment carries.
EndsLate(nal, i) == i * FragmentSize >= Len(nal)

EndsAt(nal, i) == i * FragmentSize >= Len(nal) - 1

\* packetize_h264
Packetize(nal) ==
  LET count == (Len(nal) + FragmentSize - 2) \div FragmentSize
      Data(i) == SubSeq(nal, 2 + (i - 1) * FragmentSize,
                        IF i = count THEN Len(nal) ELSE 1 + i * FragmentSize)
  IN  IF nal = <<>> THEN <<>>
      ELSE IF Len(nal) <= Mtu THEN <<Payload(FALSE, nal, TRUE, TRUE, Tail(nal))>>
      ELSE [i \in 1 .. count |-> Payload(TRUE, nal, i = 1, EndsAt(nal, i), Data(i))]
=============================================================================
