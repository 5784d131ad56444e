---------------------------- MODULE AccessUnits ----------------------------
(***************************************************************************)
(* The values that travel from the capture pipeline to a viewer            *)
(* (camrtsp-core's EncodedAccessUnit and CodecConfig), abstracted to what  *)
(* the broadcaster and the viewers tell apart.                             *)
(***************************************************************************)
EXTENDS Naturals, Sequences

CONSTANTS
  Sps, Pps,      \* the sequence and picture parameter sets an encoder may use
  NoCodec,       \* `codec: None`
  NoUnit,        \* no access unit taken yet
  PtsRange       \* publication numbers are counted modulo PtsRange

ASSUME PtsRangeAssumption == PtsRange \in Nat \ {0}
NalTypes == {"sps", "pps", "idr", "slice"}

\* CodecConfig: only its parameter sets matter to the broadcaster.
Codec == [sps : Sps, pps : Pps]

ASSUME NoCodecAssumption == NoCodec \notin Codec

\* `codec` records the configuration in force when the unit was published.
Unit == [pts : 0 .. PtsRange - 1, keyframe : BOOLEAN,
         codec : Codec \cup {NoCodec}, nals : Seq(NalTypes)]

ASSUME NoUnitAssumption == NoUnit \notin Unit

NextPts(p) == (p + 1) % PtsRange

Has(nals, type) == \E i \in DOMAIN nals : nals[i] = type

\* Both parameter sets come before the first picture of the unit.
SetsLead(nals) ==
  \A type \in {"sps", "pps"} :
    \E i \in DOMAIN nals :
      /\ nals[i] = type
      /\ \A j \in 1 .. i : nals[j] \notin {"idr", "slice"}

\* A unit a decoder can start from: a keyframe that, once a codec is known,
\* carries its own parameter sets.
RecoveryPoint(u) == u.keyframe /\ (u.codec = NoCodec \/ SetsLead(u.nals))

\* A unit that depends on prev and on nothing a viewer has missed.
Follows(prev, u) ==
  /\ prev # NoUnit
  /\ u.pts = NextPts(prev.pts)
  /\ prev.codec \in {NoCodec, u.codec}

\* What a viewer whose newest unit is prev may be given next.
Decodable(prev, u) == RecoveryPoint(u) \/ Follows(prev, u)
=============================================================================
