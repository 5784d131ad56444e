-------------------------- MODULE BroadcasterProofs --------------------------
(***************************************************************************)
(* The broadcaster's invariants, for any number of viewers, any queue      *)
(* capacity and any codec, and its refinement of ViewerFeed.               *)
(***************************************************************************)
EXTENDS Broadcaster, SequenceTheorems, TLAPS

USE PtsRangeAssumption, MaxQueuedAssumption

\* The publication counter stays in its range.
LEMMA NextPtsInRange ==
  ASSUME NEW p \in 0 .. PtsRange - 1
  PROVE  NextPts(p) \in 0 .. PtsRange - 1
BY DEF NextPts

\* Putting a parameter set in front keeps the sequence and its other NALs.
LEMMA Prefixed ==
  ASSUME NEW nals \in Seq(NalTypes), NEW type \in NalTypes
  PROVE  /\ <<type>> \o nals \in Seq(NalTypes)
         /\ Len(<<type>> \o nals) = Len(nals) + 1
         /\ (<<type>> \o nals)[1] = type
         /\ \A i \in 1 .. Len(nals) : (<<type>> \o nals)[i + 1] = nals[i]
         /\ DOMAIN (<<type>> \o nals) = 1 .. Len(nals) + 1
<1>1. <<type>> \in Seq(NalTypes) /\ Len(<<type>>) = 1 /\ <<type>>[1] = type
  OBVIOUS
<1> DEFINE longer == <<type>> \o nals
<1>2. /\ longer \in Seq(NalTypes)
      /\ Len(longer) = 1 + Len(nals)
      /\ \A i \in 1 .. 1 + Len(nals) :
           longer[i] = IF i <= 1 THEN <<type>>[i] ELSE nals[i - 1]
  BY <1>1, ConcatProperties
<1>3. Len(nals) \in Nat
  BY LenProperties
<1>4. longer[1] = type
  BY <1>1, <1>2, <1>3
<1>5. ASSUME NEW i \in 1 .. Len(nals)
      PROVE  longer[i + 1] = nals[i]
  BY <1>2, <1>3
<1>6. DOMAIN longer = 1 .. Len(nals) + 1
  BY <1>2, <1>3, LenProperties
<1> QED
  BY <1>2, <1>3, <1>4, <1>5, <1>6

\* Every set of NALs before the first picture of the unit.
LEMMA SampleSets ==
  ASSUME NEW sample \in Samples, NEW type \in {"sps", "pps"}, Has(sample.nals, type)
  PROVE  \E i \in DOMAIN sample.nals :
           /\ sample.nals[i] = type
           /\ \A j \in 1 .. i : sample.nals[j] \notin {"idr", "slice"}
<1>1. PICK i \in DOMAIN sample.nals : sample.nals[i] = type
  BY DEF Has
<1>2. sample.nals \in Seq(NalTypes)
  BY SamplesAssumption
<1>3. DOMAIN sample.nals = 1 .. Len(sample.nals) /\ Len(sample.nals) \in Nat
  BY <1>2, LenProperties
<1>4. ASSUME NEW j \in 1 .. i
      PROVE  sample.nals[j] \notin {"idr", "slice"}
  <2>1. j \in DOMAIN sample.nals /\ ~(i < j)
    BY <1>3
  <2> QED
    BY <1>1, <2>1, InBandAssumption
<1> QED
  BY <1>1, <1>4

\* The parameter sets that publish() inserts lead the unit, whichever of the two
\* the sample brought in band.
LEMMA SetsInserted ==
  ASSUME NEW sample \in Samples
  PROVE  /\ WithParameterSets(sample.nals) \in Seq(NalTypes)
         /\ SetsLead(WithParameterSets(sample.nals))
<1> DEFINE nals == sample.nals
           Leads(type, ns) == \E i \in DOMAIN ns : /\ ns[i] = type
                                                   /\ \A j \in 1 .. i : ns[j] \notin {"idr", "slice"}
           withPps == IF Has(nals, "pps") THEN nals ELSE <<"pps">> \o nals
           withBoth == IF Has(withPps, "sps") THEN withPps ELSE <<"sps">> \o withPps
<1>1. nals \in Seq(NalTypes)
  BY SamplesAssumption
<1>2. ASSUME NEW ns \in Seq(NalTypes), NEW new \in {"sps", "pps"}
      PROVE  /\ <<new>> \o ns \in Seq(NalTypes)
             /\ Leads(new, <<new>> \o ns)
             /\ \A type \in {"sps", "pps"} : Leads(type, ns) => Leads(type, <<new>> \o ns)
             /\ \A type \in {"sps", "pps"} :
                  Has(<<new>> \o ns, type) => type = new \/ Has(ns, type)
  <2> DEFINE longer == <<new>> \o ns
  <2>1. /\ longer \in Seq(NalTypes)
        /\ longer[1] = new
        /\ \A i \in 1 .. Len(ns) : longer[i + 1] = ns[i]
        /\ DOMAIN longer = 1 .. Len(ns) + 1
    BY Prefixed DEF NalTypes
  <2>2. Len(ns) \in Nat /\ DOMAIN ns = 1 .. Len(ns)
    BY LenProperties
  <2> HIDE DEF longer
  <2>3. Leads(new, longer)
    <3>1. 1 \in DOMAIN longer /\ \A j \in 1 .. 1 : longer[j] \notin {"idr", "slice"}
      BY <2>1, <2>2
    <3> QED
      BY <2>1, <3>1
  <2>4. ASSUME NEW type \in {"sps", "pps"}, Leads(type, ns)
        PROVE  Leads(type, longer)
    <3>1. PICK i \in DOMAIN ns : /\ ns[i] = type
                                 /\ \A j \in 1 .. i : ns[j] \notin {"idr", "slice"}
      BY <2>4
    <3>2. i + 1 \in DOMAIN longer /\ longer[i + 1] = type
      BY <2>1, <2>2, <3>1
    <3>3. ASSUME NEW j \in 1 .. i + 1
          PROVE  longer[j] \notin {"idr", "slice"}
      <4>1. CASE j = 1
        BY <2>1, <4>1
      <4>2. CASE j # 1
        <5>1. j - 1 \in 1 .. i /\ j - 1 \in 1 .. Len(ns)
          BY <4>2, <2>2
        <5>2. longer[(j - 1) + 1] = ns[j - 1] /\ (j - 1) + 1 = j
          BY <5>1, <2>1
        <5> QED
          BY <5>1, <5>2, <3>1
      <4> QED
        BY <4>1, <4>2
    <3> QED
      BY <3>2, <3>3
  <2>5. ASSUME NEW type \in {"sps", "pps"}, Has(longer, type)
        PROVE  type = new \/ Has(ns, type)
    <3>1. PICK i \in DOMAIN longer : longer[i] = type
      BY <2>5 DEF Has
    <3>2. CASE i = 1
      BY <2>1, <3>1, <3>2
    <3>3. CASE i # 1
      <4>1. i - 1 \in 1 .. Len(ns) /\ (i - 1) + 1 = i
        BY <2>1, <2>2, <3>3
      <4> QED
        BY <4>1, <2>1, <2>2, <3>1 DEF Has
    <3> QED
      BY <3>2, <3>3
  <2> QED
    BY <2>1, <2>3, <2>4, <2>5 DEF longer
<1>3. \A type \in {"sps", "pps"} : Has(nals, type) => Leads(type, nals)
  BY SampleSets
<1> HIDE DEF Leads
<1>4. /\ withPps \in Seq(NalTypes)
      /\ Leads("pps", withPps)
      /\ Has(withPps, "sps") => Leads("sps", withPps)
  <2>1. CASE Has(nals, "pps")
    BY <1>1, <1>3, <2>1
  <2>2. CASE ~Has(nals, "pps")
    BY <1>1, <1>2, <1>3, <2>2
  <2> QED
    BY <2>1, <2>2
<1> HIDE DEF withPps
<1>5. withBoth \in Seq(NalTypes) /\ Leads("pps", withBoth) /\ Leads("sps", withBoth)
  <2>1. CASE Has(withPps, "sps")
    BY <1>4, <2>1
  <2>2. CASE ~Has(withPps, "sps")
    BY <1>2, <1>4, <2>2
  <2> QED
    BY <2>1, <2>2
<1>6. WithParameterSets(nals) = withBoth
  BY DEF WithParameterSets, withPps
<1> QED
  BY <1>5, <1>6 DEF SetsLead, Leads
-----------------------------------------------------------------------------
\* What publish() makes of a sample: a unit, numbered next, complete as a keyframe.
LEMMA PreparedUnit ==
  ASSUME TypeOK, NEW sample \in Samples
  PROVE  /\ Prepared(sample) \in Unit
         /\ Prepared(sample).pts = NextPts(pts)
         /\ Prepared(sample).codec = codec
         /\ Prepared(sample).keyframe = IsKeyframe(sample)
         /\ Prepared(sample).keyframe => RecoveryPoint(Prepared(sample))
<1>1. sample \in [keyframe : BOOLEAN, nals : Seq(NalTypes)]
  BY SamplesAssumption
<1>2. IsKeyframe(sample) \in BOOLEAN
  BY <1>1 DEF IsKeyframe, Has
<1>3. NextPts(pts) \in 0 .. PtsRange - 1
  BY NextPtsInRange DEF TypeOK
<1>4. codec \in Codec \cup {NoCodec}
  BY DEF TypeOK
<1>5. /\ WithParameterSets(sample.nals) \in Seq(NalTypes)
      /\ SetsLead(WithParameterSets(sample.nals))
  BY SetsInserted
<1>6. Prepared(sample).nals \in Seq(NalTypes)
  BY <1>1, <1>5 DEF Prepared
<1>7. Prepared(sample) \in Unit
  BY <1>2, <1>3, <1>4, <1>6 DEF Prepared, Unit
<1>8. Prepared(sample).keyframe => RecoveryPoint(Prepared(sample))
  BY <1>5 DEF Prepared, RecoveryPoint
<1> QED
  BY <1>7, <1>8 DEF Prepared

\* Taking the head of a queue leaves a shorter queue of the same kind.
LEMMA Taken ==
  ASSUME NEW q \in Seq(Unit), q # <<>>
  PROVE  /\ Head(q) \in Unit
         /\ Head(q) = q[1]
         /\ Tail(q) \in Seq(Unit)
         /\ Len(q) \in Nat \ {0}
         /\ Len(Tail(q)) = Len(q) - 1
         /\ \A i \in 1 .. Len(q) - 1 : Tail(q)[i] = q[i + 1]
<1>1. /\ Head(q) \in Unit
      /\ Tail(q) \in Seq(Unit)
      /\ Len(Tail(q)) = Len(q) - 1
      /\ \A i \in 1 .. Len(Tail(q)) : Tail(q)[i] = q[i + 1]
  BY HeadTailProperties
<1>2. Len(q) \in Nat \ {0}
  BY EmptySeq
<1>3. Head(q) = q[1]
  OBVIOUS
<1> QED
  BY <1>1, <1>2, <1>3

\* What the closure of publish() does to a client's queue.
LEMMA Delivered ==
  ASSUME TypeOK, NEW c \in Subs, Deliver(c)
  PROVE  /\ queue' \in [Subs -> Seq(Unit)]
         /\ waiting' \in [Subs -> BOOLEAN]
         /\ \A s \in Subs \ {c} : queue'[s] = queue[s] /\ waiting'[s] = waiting[s]
         /\ waiting'[c] = ((waiting[c] \/ Overflowing(c)) /\ ~unit.keyframe)
         /\ unit \in Unit
         /\ \E kept \in {queue[c], <<>>} :
              /\ kept = IF Overflowing(c) THEN <<>> ELSE queue[c]
              /\ kept \in Seq(Unit)
              /\ Len(kept) \in Nat /\ Len(kept) < MaxQueued
              /\ queue'[c] = IF waiting'[c] THEN kept ELSE Append(kept, unit)
<1>1. queue \in [Subs -> Seq(Unit)] /\ waiting \in [Subs -> BOOLEAN] /\ unit \in Unit
  BY DEF TypeOK, Deliver
<1>2. Len(queue[c]) \in Nat /\ Len(queue[c]) <= MaxQueued
  BY <1>1, LenProperties DEF TypeOK
<1>3. <<>> \in Seq(Unit) /\ Len(<<>>) = 0
  BY EmptySeq
<1> DEFINE kept == IF Overflowing(c) THEN <<>> ELSE queue[c]
<1>4. kept \in Seq(Unit) /\ Len(kept) \in Nat /\ Len(kept) < MaxQueued
  BY <1>1, <1>2, <1>3 DEF Overflowing
<1>5. /\ waiting' = [waiting EXCEPT ![c] = StillWaiting(c)]
      /\ queue' = [queue EXCEPT ![c] = IF waiting'[c] THEN kept ELSE Append(kept, unit)]
  BY DEF Deliver
<1>6. Overflowing(c) \in BOOLEAN /\ unit.keyframe \in BOOLEAN
  BY <1>1 DEF Overflowing, Unit
<1>7. /\ waiting' \in [Subs -> BOOLEAN]
      /\ waiting'[c] = ((waiting[c] \/ Overflowing(c)) /\ ~unit.keyframe)
      /\ \A s \in Subs \ {c} : waiting'[s] = waiting[s]
  BY <1>1, <1>5, <1>6 DEF StillWaiting
<1>8. Append(kept, unit) \in Seq(Unit)
  BY <1>1, <1>4, AppendProperties
<1> HIDE DEF kept
<1>9. /\ queue' \in [Subs -> Seq(Unit)]
      /\ queue'[c] = IF waiting'[c] THEN kept ELSE Append(kept, unit)
      /\ \A s \in Subs \ {c} : queue'[s] = queue[s]
  BY <1>1, <1>4, <1>5, <1>8
<1>10. kept \in {queue[c], <<>>}
  BY DEF kept
<1> QED
  BY <1>1, <1>4, <1>7, <1>9, <1>10 DEF kept

\* Each step keeps the types and the queue bound.
LEMMA TypeStep ==
  ASSUME TypeOK, [Next]_vars
  PROVE  TypeOK'
<1> USE DEF TypeOK
<1>e. <<>> \in Seq(Unit) /\ Len(<<>>) = 0
  BY EmptySeq
<1>1. ASSUME NEW s \in Subs, Subscribe(s) PROVE TypeOK'
  <2>1. clients' \subseteq Subs /\ alive' \in [Subs -> BOOLEAN]
    BY <1>1 DEF Subscribe
  <2>2. queue' \in [Subs -> Seq(Unit)] /\ waiting' \in [Subs -> BOOLEAN]
    <3>1. queue' = [c \in Subs |-> IF alive[c] THEN queue[c] ELSE <<>>]
      BY <1>1 DEF Subscribe
    <3>2. waiting' = [c \in Subs |-> alive[c] => waiting[c]]
      BY <1>1 DEF Subscribe
    <3>3. \A c \in Subs : (alive[c] => waiting[c]) \in BOOLEAN
      OBVIOUS
    <3> QED
      BY <3>1, <3>2, <3>3, <1>e
  <2>3. \A t \in Subs : Len(queue'[t]) <= MaxQueued
    BY <1>1, <1>e DEF Subscribe
  <2>4. todo' = {} /\ holder' = "free"
    BY <1>1 DEF Subscribe, lockVars
  <2> QED
    BY <1>1, <2>1, <2>2, <2>3, <2>4 DEF Subscribe, lockVars
<1>2. ASSUME NEW s \in Subs, Take(s) PROVE TypeOK'
  <2>1. /\ Head(queue[s]) \in Unit
        /\ Tail(queue[s]) \in Seq(Unit)
        /\ Len(queue[s]) \in Nat \ {0}
        /\ Len(Tail(queue[s])) = Len(queue[s]) - 1
    BY <1>2, Taken DEF Take
  <2>2. queue' \in [Subs -> Seq(Unit)] /\ last' \in [Subs -> Unit \cup {NoUnit}]
    BY <1>2, <2>1 DEF Take
  <2>3. \A t \in Subs : Len(queue'[t]) <= MaxQueued
    BY <1>2, <2>1 DEF Take
  <2> QED
    BY <1>2, <2>2, <2>3 DEF Take, lockVars
<1>3. ASSUME NEW s \in Subs, Drop(s) PROVE TypeOK'
  BY <1>3 DEF Drop, lockVars
<1>4. ASSUME NEW sample \in Samples, Publish(sample) PROVE TypeOK'
  <2>1. unit' \in Unit /\ holder' = "publish" /\ todo' = clients /\ request' = FALSE
    BY <1>4, PreparedUnit DEF Publish
  <2>2. pts' \in 0 .. PtsRange - 1
    BY <1>4, NextPtsInRange DEF Publish
  <2> QED
    BY <1>4, <2>1, <2>2 DEF Publish, subscriberVars
<1>5. ASSUME NEW c \in Subs, Deliver(c) PROVE TypeOK'
  <2>1. queue' \in [Subs -> Seq(Unit)] /\ waiting' \in [Subs -> BOOLEAN]
    BY <1>5, Delivered
  <2>2. \A t \in Subs : Len(queue'[t]) <= MaxQueued
    <3>1. Len(queue'[c]) <= MaxQueued
      <4>1. PICK kept \in {queue[c], <<>>} :
              /\ kept \in Seq(Unit) /\ unit \in Unit
              /\ Len(kept) \in Nat /\ Len(kept) < MaxQueued
              /\ queue'[c] = IF waiting'[c] THEN kept ELSE Append(kept, unit)
        BY <1>5, Delivered
      <4>2. Len(Append(kept, unit)) = Len(kept) + 1
        BY <4>1, AppendProperties
      <4> QED
        BY <4>1, <4>2
    <3>2. \A t \in Subs \ {c} : queue'[t] = queue[t]
      BY <1>5, Delivered
    <3> QED
      BY <3>1, <3>2
  <2>3. request' \in BOOLEAN
    BY <1>5 DEF Deliver, Overflowing
  <2> QED
    BY <1>5, <2>1, <2>2, <2>3 DEF Deliver
<1>6. ASSUME NEW c \in Subs, Evict(c) PROVE TypeOK'
  BY <1>6, <1>e DEF Evict
<1>7. ASSUME NEW c \in Subs, ClearClient(c) PROVE TypeOK'
  BY <1>7, <1>e DEF ClearClient
<1>8. CASE PublishDone
  BY <1>8 DEF PublishDone, subscriberVars
<1>9. ASSUME NEW new \in Codec, SetCodecConfig(new) PROVE TypeOK'
  BY <1>9 DEF SetCodecConfig, subscriberVars, lockVars
<1>10. ASSUME NEW new \in Codec, ChangeCodecConfig(new) PROVE TypeOK'
  BY <1>10 DEF ChangeCodecConfig, subscriberVars
<1>11. CASE ConfigDone
  BY <1>11 DEF ConfigDone, subscriberVars
<1>12. ASSUME NEW accepted \in Accepts, TakeKeyframeRequest(accepted) PROVE TypeOK'
  BY <1>12 DEF TakeKeyframeRequest, subscriberVars, lockVars
<1>13. CASE UNCHANGED vars
  BY <1>13 DEF vars
<1> QED
  BY <1>1, <1>2, <1>3, <1>4, <1>5, <1>6, <1>7, <1>8, <1>9, <1>10, <1>11, <1>12, <1>13
     DEF Next
-----------------------------------------------------------------------------
\* A viewer's chain survives a step that leaves its queue and newest unit alone.
LEMMA ChainKept ==
  ASSUME DecodeChain, NEW s \in Subs, alive[s], queue'[s] = queue[s], last'[s] = last[s]
  PROVE  \A i \in 1 .. Len(queue'[s]) : Decodable(Before(s, i)', queue'[s][i])
BY DEF DecodeChain, Before

\* recv_timeout(): the head becomes the newest unit the rest of the queue follows.
LEMMA ChainTaken ==
  ASSUME TypeOK, DecodeChain, NEW s \in Subs, Take(s)
  PROVE  \A i \in 1 .. Len(queue'[s]) : Decodable(Before(s, i)', queue'[s][i])
<1>1. /\ Head(queue[s]) = queue[s][1]
      /\ Len(queue[s]) \in Nat \ {0}
      /\ Len(Tail(queue[s])) = Len(queue[s]) - 1
      /\ \A i \in 1 .. Len(queue[s]) - 1 : Tail(queue[s])[i] = queue[s][i + 1]
  BY Taken DEF TypeOK, Take
<1>2. queue'[s] = Tail(queue[s]) /\ last'[s] = Head(queue[s])
  BY DEF TypeOK, Take
<1>3. \A i \in 1 .. Len(queue[s]) : Decodable(Before(s, i), queue[s][i])
  BY DEF DecodeChain, Take
<1>4. ASSUME NEW i \in 1 .. Len(queue'[s])
      PROVE  Decodable(Before(s, i)', queue'[s][i])
  <2>1. i \in 1 .. Len(queue[s]) - 1 /\ i + 1 \in 1 .. Len(queue[s]) /\ i + 1 # 1
    BY <1>1, <1>2
  <2>2. queue'[s][i] = queue[s][i + 1]
    BY <1>1, <1>2, <2>1
  <2>3. Before(s, i + 1) = queue[s][i]
    BY <2>1 DEF Before
  <2>4. Before(s, i)' = queue[s][i]
    <3>1. CASE i = 1
      BY <1>1, <1>2, <3>1 DEF Before
    <3>2. CASE i # 1
      <4>1. i - 1 \in 1 .. Len(queue[s]) - 1 /\ (i - 1) + 1 = i
        BY <2>1, <3>2
      <4>2. queue'[s][i - 1] = queue[s][i]
        BY <1>1, <1>2, <4>1
      <4> QED
        BY <3>2, <4>2 DEF Before
    <3> QED
      BY <3>1, <3>2
  <2> QED
    BY <1>3, <2>1, <2>2, <2>3, <2>4
<1> QED
  BY <1>4

\* publish(): what is appended is a recovery point or follows the newest unit.
LEMMA ChainDelivered ==
  ASSUME IInv, NEW c \in Subs, Deliver(c)
  PROVE  \A i \in 1 .. Len(queue'[c]) : Decodable(Before(c, i)', queue'[c][i])
<1>1. PICK kept \in {queue[c], <<>>} :
        /\ kept = IF Overflowing(c) THEN <<>> ELSE queue[c]
        /\ kept \in Seq(Unit)
        /\ Len(kept) \in Nat
        /\ queue'[c] = IF waiting'[c] THEN kept ELSE Append(kept, unit)
  BY Delivered DEF IInv
<1>2. /\ unit \in Unit /\ last'[c] = last[c] /\ alive[c]
      /\ waiting'[c] = ((waiting[c] \/ Overflowing(c)) /\ ~unit.keyframe)
      /\ c \in todo /\ holder = "publish"
  BY Delivered DEF IInv, Deliver
<1>3. /\ Append(kept, unit)[Len(kept) + 1] = unit
      /\ Len(Append(kept, unit)) = Len(kept) + 1
      /\ \A i \in 1 .. Len(kept) : Append(kept, unit)[i] = kept[i]
  BY <1>1, <1>2, AppendProperties
<1>4. /\ unit.pts = pts /\ unit.codec = codec
      /\ unit.keyframe => RecoveryPoint(unit)
  BY <1>2 DEF IInv, UnitIsCurrent
<1>5. Len(<<>>) = 0
  BY EmptySeq
<1>6. \A i \in 1 .. Len(kept) : Decodable(IF i = 1 THEN last[c] ELSE kept[i - 1], kept[i])
  BY <1>1, <1>2, <1>5 DEF IInv, DecodeChain, Before
<1>7. CASE waiting'[c]
  BY <1>1, <1>2, <1>6, <1>7 DEF Before
<1>8. CASE ~waiting'[c]
  <2>1. queue'[c] = Append(kept, unit)
    BY <1>1, <1>8
  <2>2. ASSUME NEW i \in 1 .. Len(kept)
        PROVE  Decodable(Before(c, i)', queue'[c][i])
    <3>1. queue'[c][i] = kept[i]
      BY <1>3, <2>1
    <3>2. i # 1 => queue'[c][i - 1] = kept[i - 1]
      BY <1>1, <1>3, <2>1
    <3> QED
      BY <1>2, <1>6, <3>1, <3>2 DEF Before
  <2>3. Decodable(Before(c, Len(kept) + 1)', unit)
    <3>1. CASE unit.keyframe
      BY <1>4, <3>1 DEF Decodable
    <3>2. CASE ~unit.keyframe
      <4>1. ~waiting[c] /\ kept = queue[c]
        BY <1>1, <1>2, <1>8, <3>2
      <4>2. /\ Newest(c) # NoUnit
            /\ Newest(c).codec \in {NoCodec, codec}
            /\ pts = NextPts(Newest(c).pts)
        BY <1>2, <4>1 DEF IInv, NewestIsCurrent
      <4>3. Before(c, Len(kept) + 1)' = Newest(c)
        <5>1. CASE kept = <<>>
          BY <1>2, <1>5, <4>1, <5>1 DEF Before, Newest
        <5>2. CASE kept # <<>>
          <6>1. Len(kept) \in 1 .. Len(kept) /\ Len(kept) + 1 # 1 /\ (Len(kept) + 1) - 1 = Len(kept)
            BY <1>1, <5>2, EmptySeq
          <6>2. queue'[c][Len(kept)] = kept[Len(kept)]
            BY <1>3, <2>1, <6>1
          <6> QED
            BY <4>1, <5>2, <6>1, <6>2 DEF Before, Newest
        <5> QED
          BY <5>1, <5>2
      <4> QED
        BY <1>4, <4>2, <4>3 DEF Decodable, Follows
    <3> QED
      BY <3>1, <3>2
  <2>4. \A i \in 1 .. Len(queue'[c]) : i \in 1 .. Len(kept) \/ i = Len(kept) + 1
    BY <1>1, <1>3, <2>1
  <2>5. queue'[c][Len(kept) + 1] = unit
    BY <1>3, <2>1
  <2> QED
    BY <2>2, <2>3, <2>4, <2>5
<1> QED
  BY <1>7, <1>8

\* Each step keeps what viewers may take decodable.
LEMMA ChainStep ==
  ASSUME IInv, [Next]_vars
  PROVE  DecodeChain'
<1> SUFFICES ASSUME NEW s \in Subs, alive'[s]
             PROVE  \A i \in 1 .. Len(queue'[s]) : Decodable(Before(s, i)', queue'[s][i])
  BY DEF DecodeChain
<1>t. TypeOK /\ DecodeChain
  BY DEF IInv
<1>k. (alive[s] /\ queue'[s] = queue[s] /\ last'[s] = last[s]) =>
        \A i \in 1 .. Len(queue'[s]) : Decodable(Before(s, i)', queue'[s][i])
  BY <1>t, ChainKept
<1>e. queue'[s] = <<>> => \A i \in 1 .. Len(queue'[s]) : Decodable(Before(s, i)', queue'[s][i])
  BY EmptySeq
<1>1. ASSUME NEW t \in Subs, Subscribe(t)
      PROVE  queue'[s] = <<>> \/ (alive[s] /\ queue'[s] = queue[s] /\ last'[s] = last[s])
  BY <1>1, <1>t DEF Subscribe, TypeOK
<1>2. ASSUME NEW t \in Subs, Take(t), t # s
      PROVE  alive[s] /\ queue'[s] = queue[s] /\ last'[s] = last[s]
  BY <1>2, <1>t DEF Take, TypeOK
<1>3. ASSUME NEW t \in Subs, Drop(t)
      PROVE  alive[s] /\ queue'[s] = queue[s] /\ last'[s] = last[s]
  BY <1>3, <1>t DEF Drop, TypeOK
<1>4. ASSUME NEW c \in Subs, Deliver(c), c # s
      PROVE  alive[s] /\ queue'[s] = queue[s] /\ last'[s] = last[s]
  BY <1>4, <1>t, Delivered DEF Deliver
<1>5. ASSUME NEW c \in Subs, Evict(c)
      PROVE  alive[s] /\ queue'[s] = queue[s] /\ last'[s] = last[s]
  BY <1>5, <1>t DEF Evict, TypeOK
<1>6. ASSUME NEW c \in Subs, ClearClient(c)
      PROVE  queue'[s] = <<>> \/ (alive[s] /\ queue'[s] = queue[s] /\ last'[s] = last[s])
  BY <1>6, <1>t DEF ClearClient, TypeOK
<1>7. ASSUME \/ \E sample \in Samples : Publish(sample)
             \/ PublishDone
             \/ \E new \in Codec : SetCodecConfig(new) \/ ChangeCodecConfig(new)
             \/ ConfigDone
             \/ \E accepted \in Accepts : TakeKeyframeRequest(accepted)
             \/ UNCHANGED vars
      PROVE  alive[s] /\ queue'[s] = queue[s] /\ last'[s] = last[s]
  BY <1>7 DEF Publish, PublishDone, SetCodecConfig, ChangeCodecConfig, ConfigDone,
              TakeKeyframeRequest, subscriberVars, vars
<1>8. Take(s) => \A i \in 1 .. Len(queue'[s]) : Decodable(Before(s, i)', queue'[s][i])
  BY <1>t, ChainTaken
<1>9. Deliver(s) => \A i \in 1 .. Len(queue'[s]) : Decodable(Before(s, i)', queue'[s][i])
  BY ChainDelivered
<1> QED
  BY <1>k, <1>e, <1>1, <1>2, <1>3, <1>4, <1>5, <1>6, <1>7, <1>8, <1>9 DEF Next
-----------------------------------------------------------------------------
\* The newest unit of s depends on its queue and on what it took last.
LEMMA NewestKept ==
  ASSUME NEW s, queue'[s] = queue[s], last'[s] = last[s]
  PROVE  Newest(s)' = Newest(s)
BY DEF Newest

\* Taking a unit does not change which one is the newest.
LEMMA NewestTaken ==
  ASSUME TypeOK, NEW s \in Subs, Take(s)
  PROVE  Newest(s)' = Newest(s)
<1>1. /\ queue[s] # <<>>
      /\ Head(queue[s]) = queue[s][1]
      /\ Tail(queue[s]) \in Seq(Unit)
      /\ Len(queue[s]) \in Nat \ {0}
      /\ Len(Tail(queue[s])) = Len(queue[s]) - 1
      /\ \A i \in 1 .. Len(queue[s]) - 1 : Tail(queue[s])[i] = queue[s][i + 1]
  BY Taken DEF TypeOK, Take
<1>2. queue'[s] = Tail(queue[s]) /\ last'[s] = Head(queue[s])
  BY DEF TypeOK, Take
<1>3. Newest(s) = queue[s][Len(queue[s])]
  BY <1>1 DEF Newest
<1>4. CASE Tail(queue[s]) = <<>>
  <2>1. Len(<<>>) = 0
    BY EmptySeq
  <2>2. Len(queue[s]) = 1
    <3>1. Len(Tail(queue[s])) = 0
      BY <1>4, <2>1, Zenon
    <3>2. Len(Tail(queue[s])) = Len(queue[s]) - 1 /\ Len(queue[s]) \in Nat
      BY <1>1
    <3> QED
      BY <3>1, <3>2
  <2> QED
    BY <1>1, <1>2, <1>3, <1>4, <2>2 DEF Newest
<1>5. CASE Tail(queue[s]) # <<>>
  <2>1. Len(queue[s]) - 1 \in 1 .. Len(queue[s]) - 1 /\ (Len(queue[s]) - 1) + 1 = Len(queue[s])
    BY <1>1, <1>5, EmptySeq
  <2>2. Tail(queue[s])[Len(Tail(queue[s]))] = queue[s][Len(queue[s])]
    BY <1>1, <2>1
  <2> QED
    BY <1>2, <1>3, <1>5, <2>2 DEF Newest
<1> QED
  BY <1>4, <1>5

\* publish(): the unit it appends is the newest of the client.
LEMMA NewestDelivered ==
  ASSUME TypeOK, NEW c \in Subs, Deliver(c), ~waiting'[c]
  PROVE  Newest(c)' = unit
<1>1. PICK kept \in {queue[c], <<>>} :
        kept \in Seq(Unit) /\ unit \in Unit /\ Len(kept) \in Nat /\ queue'[c] = Append(kept, unit)
  BY Delivered
<1>2. /\ Append(kept, unit) # <<>>
      /\ Len(Append(kept, unit)) = Len(kept) + 1
      /\ Append(kept, unit)[Len(kept) + 1] = unit
  BY <1>1, AppendProperties
<1> QED
  BY <1>1, <1>2 DEF Newest

\* Each step keeps a viewer that is not waiting up to date.
LEMMA NewestStep ==
  ASSUME IInv, [Next]_vars
  PROVE  NewestIsCurrent'
<1> DEFINE Current(s) ==
             /\ Newest(s) # NoUnit
             /\ Newest(s).codec \in {NoCodec, codec}
             /\ IF holder = "publish" /\ s \in todo
                  THEN pts = NextPts(Newest(s).pts)
                  ELSE pts = Newest(s).pts
<1> SUFFICES ASSUME NEW s \in Subs, alive'[s], ~waiting'[s]
             PROVE  Current(s)'
  BY DEF NewestIsCurrent
<1>t. TypeOK
  BY DEF IInv
<1>i. alive[s] /\ ~waiting[s] => Current(s)
  BY DEF IInv, NewestIsCurrent
\* A step that touches neither s, the codec nor the publication.
<1>k. ASSUME alive[s], ~waiting[s], queue'[s] = queue[s], last'[s] = last[s],
             codec' = codec, pts' = pts, holder' = holder, s \in todo' <=> s \in todo
      PROVE  Current(s)'
  <2>1. Newest(s)' = Newest(s)
    BY <1>k, NewestKept
  <2> QED
    BY <1>i, <1>k, <2>1
<1>1. ASSUME NEW t \in Subs, Subscribe(t) PROVE Current(s)'
  <2>1. alive[s] /\ ~waiting[s] /\ queue'[s] = queue[s]
    BY <1>1, <1>t DEF Subscribe, TypeOK
  <2> QED
    BY <1>1, <1>k, <2>1 DEF Subscribe, lockVars
<1>2. ASSUME NEW t \in Subs, Take(t) PROVE Current(s)'
  <2>1. CASE t = s
    <3>1. Newest(s)' = Newest(s)
      BY <1>2, <1>t, <2>1, NewestTaken
    <3> QED
      BY <1>2, <1>i, <3>1 DEF Take, lockVars
  <2>2. CASE t # s
    <3>1. queue'[s] = queue[s] /\ last'[s] = last[s]
      BY <1>2, <1>t, <2>2 DEF Take, TypeOK
    <3> QED
      BY <1>2, <1>k, <3>1 DEF Take, lockVars
  <2> QED
    BY <2>1, <2>2
<1>3. ASSUME NEW t \in Subs, Drop(t) PROVE Current(s)'
  <2>1. alive[s] /\ last'[s] = last[s]
    BY <1>3, <1>t DEF Drop, TypeOK
  <2> QED
    BY <1>3, <1>k, <2>1 DEF Drop, lockVars
<1>4. ASSUME NEW sample \in Samples, Publish(sample) PROVE Current(s)'
  <2>1. Newest(s)' = Newest(s)
    BY <1>4, NewestKept DEF Publish, subscriberVars
  <2>2. alive[s] /\ ~waiting[s] /\ s \in todo' /\ holder' = "publish" /\ holder = "free"
    BY <1>4 DEF Publish, subscriberVars, IInv, ViewersAreClients
  <2>3. pts' = NextPts(pts) /\ codec' = codec
    BY <1>4 DEF Publish
  <2> QED
    BY <1>i, <2>1, <2>2, <2>3
<1>5. ASSUME NEW c \in Subs, Deliver(c) PROVE Current(s)'
  <2>1. CASE c = s
    <3>1. Newest(s)' = unit /\ s \notin todo'
      BY <1>5, <1>t, <2>1, NewestDelivered DEF Deliver
    <3>2. unit # NoUnit
      BY <1>5, <1>t, NoUnitAssumption DEF Deliver, TypeOK
    <3>3. unit.pts = pts /\ unit.codec = codec
      BY <1>5 DEF Deliver, IInv, UnitIsCurrent
    <3> QED
      BY <1>5, <3>1, <3>2, <3>3 DEF Deliver
  <2>2. CASE c # s
    <3>1. queue'[s] = queue[s] /\ waiting'[s] = waiting[s]
      BY <1>5, <1>t, <2>2, Delivered
    <3> QED
      BY <1>5, <1>k, <2>2, <3>1 DEF Deliver
  <2> QED
    BY <2>1, <2>2
<1>6. ASSUME NEW c \in Subs, Evict(c) PROVE Current(s)'
  <2>1. c # s /\ queue'[s] = queue[s] /\ waiting'[s] = waiting[s]
    BY <1>6, <1>t DEF Evict, TypeOK
  <2> QED
    BY <1>6, <1>k, <2>1 DEF Evict
<1>7. ASSUME NEW c \in Subs, ClearClient(c) PROVE Current(s)'
  <2>1. c # s /\ queue'[s] = queue[s] /\ waiting'[s] = waiting[s]
    BY <1>7, <1>t DEF ClearClient, TypeOK
  <2> QED
    BY <1>7, <1>k, <2>1 DEF ClearClient
<1>8. CASE PublishDone
  <2>1. Newest(s)' = Newest(s)
    BY <1>8, NewestKept DEF PublishDone, subscriberVars
  <2> QED
    BY <1>8, <1>i, <2>1 DEF PublishDone, subscriberVars
<1>9. ASSUME NEW new \in Codec, SetCodecConfig(new) PROVE Current(s)'
  <2>1. Newest(s)' = Newest(s)
    BY <1>9, NewestKept DEF SetCodecConfig, subscriberVars
  <2> QED
    BY <1>9, <1>i, <2>1 DEF SetCodecConfig, subscriberVars, lockVars
<1>10. ASSUME NEW new \in Codec, ChangeCodecConfig(new) PROVE Current(s)'
  <2>1. Newest(s)' = Newest(s)
    BY <1>10, NewestKept DEF ChangeCodecConfig, subscriberVars
  <2> QED
    BY <1>10, <1>i, <2>1 DEF ChangeCodecConfig, subscriberVars
<1>11. CASE ConfigDone
  <2>1. s \in clients \ todo /\ waiting[s]
    BY <1>11 DEF ConfigDone, subscriberVars, IInv, ViewersAreClients, VisitedStartOver
  <2> QED
    BY <1>11, <2>1 DEF ConfigDone, subscriberVars
<1>12. ASSUME NEW accepted \in Accepts, TakeKeyframeRequest(accepted) PROVE Current(s)'
  BY <1>12, <1>k DEF TakeKeyframeRequest, subscriberVars, lockVars
<1>13. CASE UNCHANGED vars
  BY <1>13, <1>k DEF vars
<1> QED
  BY <1>1, <1>2, <1>3, <1>4, <1>5, <1>6, <1>7, <1>8, <1>9, <1>10, <1>11, <1>12, <1>13
     DEF Next
-----------------------------------------------------------------------------
\* Each step keeps the queues free of units of another codec.
LEMMA QueuesStep ==
  ASSUME IInv, [Next]_vars
  PROVE  QueuesMatchCodec'
<1> SUFFICES ASSUME NEW s \in Subs, NEW i \in 1 .. Len(queue'[s])
             PROVE  queue'[s][i].codec \in {NoCodec, codec'}
  BY DEF QueuesMatchCodec
<1>t. TypeOK
  BY DEF IInv
<1>i. \A t \in Subs : \A j \in 1 .. Len(queue[t]) : queue[t][j].codec \in {NoCodec, codec}
  BY DEF IInv, QueuesMatchCodec
<1>e. queue'[s] # <<>>
  <2>1. Len(<<>>) = 0
    BY EmptySeq
  <2> QED
    BY <2>1
<1>k. ASSUME queue'[s] = queue[s], codec' = codec
      PROVE  queue'[s][i].codec \in {NoCodec, codec'}
  BY <1>i, <1>k
<1>1. ASSUME NEW t \in Subs, Subscribe(t) PROVE queue'[s][i].codec \in {NoCodec, codec'}
  BY <1>1, <1>t, <1>e, <1>k DEF Subscribe
<1>2. ASSUME NEW t \in Subs, Take(t) PROVE queue'[s][i].codec \in {NoCodec, codec'}
  <2>1. CASE t = s
    <3>1. queue'[s] = Tail(queue[s]) /\ codec' = codec
      BY <1>2, <1>t, <2>1 DEF Take, TypeOK
    <3>2. /\ Len(queue[s]) \in Nat \ {0}
          /\ Len(Tail(queue[s])) = Len(queue[s]) - 1
          /\ \A j \in 1 .. Len(queue[s]) - 1 : Tail(queue[s])[j] = queue[s][j + 1]
      BY <1>2, <1>t, <2>1, Taken DEF Take, TypeOK
    <3>3. i + 1 \in 1 .. Len(queue[s]) /\ queue'[s][i] = queue[s][i + 1]
      BY <3>1, <3>2
    <3> QED
      BY <1>i, <3>1, <3>3
  <2>2. CASE t # s
    BY <1>2, <1>t, <1>k, <2>2 DEF Take, TypeOK
  <2> QED
    BY <2>1, <2>2
<1>3. ASSUME NEW c \in Subs, Deliver(c) PROVE queue'[s][i].codec \in {NoCodec, codec'}
  <2>1. codec' = codec /\ unit.codec = codec
    BY <1>3 DEF Deliver, IInv, UnitIsCurrent
  <2>2. CASE c = s
    <3>1. PICK kept \in {queue[s], <<>>} :
            /\ kept \in Seq(Unit) /\ unit \in Unit /\ Len(kept) \in Nat
            /\ queue'[s] = IF waiting'[s] THEN kept ELSE Append(kept, unit)
      BY <1>3, <1>t, <2>2, Delivered
    <3>2. \A j \in 1 .. Len(kept) : kept[j].codec \in {NoCodec, codec}
      <4>1. Len(<<>>) = 0
        BY EmptySeq
      <4> QED
        BY <1>i, <3>1, <4>1
    <3>3. /\ Append(kept, unit)[Len(kept) + 1] = unit
          /\ Len(Append(kept, unit)) = Len(kept) + 1
          /\ \A j \in 1 .. Len(kept) : Append(kept, unit)[j] = kept[j]
      BY <3>1, AppendProperties
    <3>4. CASE waiting'[s]
      BY <2>1, <3>1, <3>2, <3>4
    <3>5. CASE ~waiting'[s]
      <4>1. i \in 1 .. Len(kept) \/ i = Len(kept) + 1
        BY <3>1, <3>3, <3>5
      <4> QED
        BY <2>1, <3>1, <3>2, <3>3, <3>5, <4>1
    <3> QED
      BY <3>4, <3>5
  <2>3. CASE c # s
    BY <1>3, <1>t, <1>k, <2>1, <2>3, Delivered
  <2> QED
    BY <2>2, <2>3
<1>4. ASSUME NEW c \in Subs, Evict(c) \/ ClearClient(c)
      PROVE  queue'[s][i].codec \in {NoCodec, codec'}
  BY <1>4, <1>t, <1>e, <1>k DEF Evict, ClearClient, TypeOK
<1>5. ASSUME NEW new \in Codec, SetCodecConfig(new)
      PROVE  queue'[s][i].codec \in {NoCodec, codec'}
  BY <1>5, <1>i DEF SetCodecConfig, subscriberVars
<1>6. CASE ConfigDone
  <2>1. queue[s] = <<>>
    BY <1>6 DEF ConfigDone, IInv, VisitedStartOver, NoOrphanQueue
  <2> QED
    BY <1>6, <1>e, <2>1 DEF ConfigDone, subscriberVars
<1>7. ASSUME \/ \E t \in Subs : Drop(t)
             \/ \E sample \in Samples : Publish(sample)
             \/ PublishDone
             \/ \E new \in Codec : ChangeCodecConfig(new)
             \/ \E accepted \in Accepts : TakeKeyframeRequest(accepted)
             \/ UNCHANGED vars
      PROVE  queue'[s][i].codec \in {NoCodec, codec'}
  BY <1>7, <1>k DEF Drop, Publish, PublishDone, ChangeCodecConfig, TakeKeyframeRequest,
                    subscriberVars, vars
<1> QED
  BY <1>1, <1>2, <1>3, <1>4, <1>5, <1>6, <1>7 DEF Next

\* Each step keeps a keyframe owed to every viewer that waits for one.
LEMMA OwedStep ==
  ASSUME IInv, [Next]_vars
  PROVE  WaitingIsOwedAKeyframe'
<1> SUFFICES ASSUME NEW s \in Subs, alive'[s], waiting'[s]
             PROVE  KeyframeOwed(s)'
  BY DEF WaitingIsOwedAKeyframe
<1>t. TypeOK
  BY DEF IInv
<1>i. alive[s] /\ waiting[s] => KeyframeOwed(s)
  BY DEF IInv, WaitingIsOwedAKeyframe
<1>1. ASSUME NEW t \in Subs, Subscribe(t) PROVE KeyframeOwed(s)'
  BY <1>1 DEF Subscribe, KeyframeOwed
<1>2. ASSUME NEW t \in Subs, Take(t) PROVE KeyframeOwed(s)'
  BY <1>2, <1>i DEF Take, KeyframeOwed, lockVars
<1>3. ASSUME NEW t \in Subs, Drop(t) PROVE KeyframeOwed(s)'
  <2>1. alive[s]
    BY <1>3, <1>t DEF Drop, TypeOK
  <2> QED
    BY <1>3, <1>i, <2>1 DEF Drop, KeyframeOwed, lockVars
<1>4. ASSUME NEW sample \in Samples, Publish(sample) PROVE KeyframeOwed(s)'
  <2>1. alive[s] /\ waiting[s] /\ s \in todo' /\ holder' = "publish"
    BY <1>4 DEF Publish, subscriberVars, IInv, ViewersAreClients
  <2>2. CASE IsKeyframe(sample)
    <3>1. unit'.keyframe
      BY <1>4, <1>t, <2>2, PreparedUnit DEF Publish
    <3> QED
      BY <2>1, <3>1 DEF KeyframeOwed
  <2>3. CASE ~IsKeyframe(sample)
    <3>1. keyframeRequested \/ encoder # "idle"
      BY <1>4, <1>i, <1>t, <2>1 DEF Publish, KeyframeOwed, TypeOK
    <3> QED
      BY <1>4, <2>3, <3>1 DEF Publish, KeyframeOwed
  <2> QED
    BY <2>2, <2>3
<1>5. ASSUME NEW c \in Subs, Deliver(c) PROVE KeyframeOwed(s)'
  <2>1. CASE c = s
    <3>1. ~unit.keyframe /\ (waiting[s] \/ Overflowing(s))
      BY <1>5, <1>t, <2>1, Delivered
    <3>2. CASE Overflowing(s)
      BY <1>5, <2>1, <3>2 DEF Deliver, KeyframeOwed
    <3>3. CASE waiting[s]
      BY <1>5, <1>i, <2>1, <3>1, <3>3 DEF Deliver, KeyframeOwed
    <3> QED
      BY <3>1, <3>2, <3>3
  <2>2. CASE c # s
    <3>1. alive[s] /\ waiting[s]
      BY <1>5, <1>t, <2>2, Delivered DEF Deliver
    <3> QED
      BY <1>5, <1>i, <2>2, <3>1 DEF Deliver, KeyframeOwed
  <2> QED
    BY <2>1, <2>2
<1>6. ASSUME NEW c \in Subs, Evict(c) PROVE KeyframeOwed(s)'
  <2>1. c # s /\ alive[s] /\ waiting[s]
    BY <1>6, <1>t DEF Evict, TypeOK
  <2> QED
    BY <1>6, <1>i, <2>1 DEF Evict, KeyframeOwed
<1>7. ASSUME NEW c \in Subs, ClearClient(c) PROVE KeyframeOwed(s)'
  BY <1>7 DEF ClearClient, KeyframeOwed
<1>8. CASE PublishDone
  BY <1>8, <1>i DEF PublishDone, KeyframeOwed, subscriberVars
<1>9. ASSUME NEW new \in Codec, SetCodecConfig(new) PROVE KeyframeOwed(s)'
  BY <1>9, <1>i DEF SetCodecConfig, KeyframeOwed, subscriberVars, lockVars
<1>10. ASSUME NEW new \in Codec, ChangeCodecConfig(new) PROVE KeyframeOwed(s)'
  BY <1>10 DEF ChangeCodecConfig, KeyframeOwed
<1>11. CASE ConfigDone
  BY <1>11 DEF ConfigDone, KeyframeOwed
<1>12. ASSUME NEW accepted \in Accepts, TakeKeyframeRequest(accepted) PROVE KeyframeOwed(s)'
  BY <1>12 DEF TakeKeyframeRequest, KeyframeOwed
<1>13. CASE UNCHANGED vars
  BY <1>13, <1>i DEF vars, KeyframeOwed
<1> QED
  BY <1>1, <1>2, <1>3, <1>4, <1>5, <1>6, <1>7, <1>8, <1>9, <1>10, <1>11, <1>12, <1>13
     DEF Next
-----------------------------------------------------------------------------
\* Each step keeps the live viewers among the clients.
LEMMA ClientsStep ==
  ASSUME TypeOK, ViewersAreClients, [Next]_vars
  PROVE  ViewersAreClients'
<1> USE DEF TypeOK, ViewersAreClients
<1>1. ASSUME NEW s \in Subs, Subscribe(s) PROVE ViewersAreClients'
  BY <1>1 DEF Subscribe
<1>2. ASSUME NEW s \in Subs, Drop(s) PROVE ViewersAreClients'
  BY <1>2 DEF Drop
<1>3. ASSUME NEW c \in Subs, Evict(c) PROVE ViewersAreClients'
  BY <1>3 DEF Evict
<1>4. ASSUME \/ \E s \in Subs : Take(s) \/ Deliver(s) \/ ClearClient(s)
             \/ \E sample \in Samples : Publish(sample)
             \/ PublishDone
             \/ \E new \in Codec : SetCodecConfig(new) \/ ChangeCodecConfig(new)
             \/ ConfigDone
             \/ \E accepted \in Accepts : TakeKeyframeRequest(accepted)
             \/ UNCHANGED vars
      PROVE  ViewersAreClients'
  BY <1>4 DEF Take, Deliver, ClearClient, Publish, PublishDone, SetCodecConfig,
              ChangeCodecConfig, ConfigDone, TakeKeyframeRequest, subscriberVars, vars
<1> QED
  BY <1>1, <1>2, <1>3, <1>4 DEF Next

\* Each step keeps the unit in delivery the newest publication.
LEMMA UnitStep ==
  ASSUME IInv, [Next]_vars
  PROVE  UnitIsCurrent'
<1>i. TypeOK /\ UnitIsCurrent
  BY DEF IInv
<1>1. ASSUME NEW sample \in Samples, Publish(sample) PROVE UnitIsCurrent'
  <2>1. unit' = Prepared(sample) /\ pts' = NextPts(pts) /\ codec' = codec
    BY <1>1 DEF Publish
  <2>2. /\ unit'.pts = pts' /\ unit'.codec = codec'
        /\ unit'.keyframe => RecoveryPoint(unit')
    BY <1>i, <2>1, PreparedUnit
  <2> QED
    BY <2>2 DEF UnitIsCurrent, RecoveryPoint
<1>2. ASSUME UNCHANGED <<unit, pts, codec, holder>> PROVE UnitIsCurrent'
  BY <1>i, <1>2 DEF UnitIsCurrent, RecoveryPoint
<1>3. ASSUME holder' # "publish" PROVE UnitIsCurrent'
  BY <1>3 DEF UnitIsCurrent
<1>4. ASSUME \/ \E s \in Subs : \/ Subscribe(s) \/ Take(s) \/ Drop(s)
                                \/ Deliver(s) \/ Evict(s) \/ ClearClient(s)
             \/ \E accepted \in Accepts : TakeKeyframeRequest(accepted)
             \/ UNCHANGED vars
      PROVE  UNCHANGED <<unit, pts, codec, holder>>
  BY <1>4 DEF Subscribe, Take, Drop, Deliver, Evict, ClearClient, TakeKeyframeRequest,
              lockVars, vars
<1>5. ASSUME \/ PublishDone
             \/ \E new \in Codec : SetCodecConfig(new) \/ ChangeCodecConfig(new)
             \/ ConfigDone
      PROVE  holder' # "publish"
  BY <1>5 DEF PublishDone, SetCodecConfig, ChangeCodecConfig, ConfigDone, lockVars
<1> QED
  BY <1>1, <1>2, <1>3, <1>4, <1>5 DEF Next

\* Each step keeps the clients that set_codec_config() has visited empty.
LEMMA VisitedStep ==
  ASSUME IInv, [Next]_vars
  PROVE  VisitedStartOver'
<1>i. TypeOK /\ VisitedStartOver
  BY DEF IInv
<1>1. ASSUME NEW s \in Subs, Take(s) PROVE VisitedStartOver'
  BY <1>1, <1>i DEF Take, VisitedStartOver, TypeOK, lockVars
<1>2. ASSUME NEW s \in Subs, Drop(s) PROVE VisitedStartOver'
  BY <1>2, <1>i DEF Drop, VisitedStartOver, lockVars
<1>3. ASSUME NEW c \in Subs, ClearClient(c) PROVE VisitedStartOver'
  BY <1>3, <1>i DEF ClearClient, VisitedStartOver, TypeOK
<1>4. ASSUME NEW new \in Codec, ChangeCodecConfig(new) PROVE VisitedStartOver'
  BY <1>4 DEF ChangeCodecConfig, VisitedStartOver, subscriberVars
<1>5. ASSUME \/ \E s \in Subs : Subscribe(s) \/ Deliver(s) \/ Evict(s)
             \/ \E sample \in Samples : Publish(sample)
             \/ PublishDone
             \/ \E new \in Codec : SetCodecConfig(new)
             \/ ConfigDone
      PROVE  holder' # "config"
  BY <1>5 DEF Subscribe, Deliver, Evict, Publish, PublishDone, SetCodecConfig, ConfigDone,
              lockVars
<1>6. ASSUME NEW accepted \in Accepts, TakeKeyframeRequest(accepted) PROVE holder' # "config"
  BY <1>6 DEF TakeKeyframeRequest, lockVars
<1>7. CASE UNCHANGED vars
  BY <1>7, <1>i DEF vars, VisitedStartOver
<1>8. holder' # "config" => VisitedStartOver'
  BY DEF VisitedStartOver
<1> QED
  BY <1>1, <1>2, <1>3, <1>4, <1>5, <1>6, <1>7, <1>8 DEF Next

\* Each step keeps the queues of former clients empty.
LEMMA OrphanStep ==
  ASSUME IInv, [Next]_vars
  PROVE  NoOrphanQueue'
<1>i. TypeOK /\ NoOrphanQueue /\ ViewersAreClients
  BY DEF IInv
<1> USE DEF NoOrphanQueue
<1>1. ASSUME NEW s \in Subs, Subscribe(s) PROVE NoOrphanQueue'
  <2>1. ASSUME NEW t \in Subs \ clients' PROVE queue'[t] = <<>>
    <3>1. ~alive[t]
      BY <1>1, <1>i DEF Subscribe, ViewersAreClients
    <3> QED
      BY <1>1, <3>1 DEF Subscribe
  <2> QED
    BY <2>1
<1>2. ASSUME NEW s \in Subs, Take(s) PROVE NoOrphanQueue'
  <2>1. s \in clients /\ clients' = clients
    BY <1>2, <1>i DEF Take, ViewersAreClients
  <2> QED
    BY <1>2, <1>i, <2>1 DEF Take, TypeOK
<1>3. ASSUME NEW c \in Subs, Deliver(c) PROVE NoOrphanQueue'
  <2>1. c \in clients /\ clients' = clients
    BY <1>3, <1>i DEF Deliver, TypeOK
  <2> QED
    BY <1>3, <1>i, <2>1, Delivered
<1>4. ASSUME NEW c \in Subs, Evict(c) PROVE NoOrphanQueue'
  BY <1>4, <1>i DEF Evict, TypeOK
<1>5. ASSUME NEW c \in Subs, ClearClient(c) PROVE NoOrphanQueue'
  BY <1>5, <1>i DEF ClearClient, TypeOK
<1>6. ASSUME \/ \E s \in Subs : Drop(s)
             \/ \E sample \in Samples : Publish(sample)
             \/ PublishDone
             \/ \E new \in Codec : SetCodecConfig(new) \/ ChangeCodecConfig(new)
             \/ ConfigDone
             \/ \E accepted \in Accepts : TakeKeyframeRequest(accepted)
             \/ UNCHANGED vars
      PROVE  NoOrphanQueue'
  BY <1>6, <1>i DEF Drop, Publish, PublishDone, SetCodecConfig, ChangeCodecConfig, ConfigDone,
                    TakeKeyframeRequest, subscriberVars, vars
<1> QED
  BY <1>1, <1>2, <1>3, <1>4, <1>5, <1>6 DEF Next
-----------------------------------------------------------------------------
\* The inductive invariant holds in every reachable state.
THEOREM Invariance == Spec => []IInv
<1>1. Init => IInv
  <2>1. Init => TypeOK
    <3>1. <<>> \in Seq(Unit) /\ Len(<<>>) = 0
      BY EmptySeq
    <3>2. 0 \in 0 .. PtsRange - 1 /\ 0 <= MaxQueued
      OBVIOUS
    <3> QED
      BY <3>1, <3>2 DEF Init, TypeOK
  <2>2. Init => QueuesMatchCodec
    <3>1. Len(<<>>) = 0
      BY EmptySeq
    <3> QED
      BY <3>1 DEF Init, QueuesMatchCodec
  <2>3. Init => /\ DecodeChain /\ WaitingIsOwedAKeyframe /\ ViewersAreClients
                /\ NewestIsCurrent /\ UnitIsCurrent /\ VisitedStartOver /\ NoOrphanQueue
    BY DEF Init, DecodeChain, WaitingIsOwedAKeyframe, ViewersAreClients, NewestIsCurrent,
           UnitIsCurrent, VisitedStartOver, NoOrphanQueue
  <2> QED
    BY <2>1, <2>2, <2>3 DEF IInv
<1>2. IInv /\ [Next]_vars => IInv'
  <2> SUFFICES ASSUME IInv, [Next]_vars
               PROVE  IInv'
    OBVIOUS
  <2>1. TypeOK' /\ ViewersAreClients'
    BY TypeStep, ClientsStep DEF IInv
  <2>2. DecodeChain' /\ QueuesMatchCodec' /\ WaitingIsOwedAKeyframe'
    BY ChainStep, QueuesStep, OwedStep
  <2>3. NewestIsCurrent' /\ UnitIsCurrent' /\ VisitedStartOver' /\ NoOrphanQueue'
    BY NewestStep, UnitStep, VisitedStep, OrphanStep
  <2> QED
    BY <2>1, <2>2, <2>3 DEF IInv
<1> QED
  BY <1>1, <1>2, PTL DEF Spec

\* For any number of viewers, samples and codec changes: a viewer never takes a
\* unit whose references it has missed.
THEOREM ChainHolds == Spec => []DecodeChain
<1>1. IInv => DecodeChain
  BY DEF IInv
<1> QED
  BY <1>1, Invariance, PTL

\* No queue ever mixes units of two configurations.
THEOREM QueuesHold == Spec => []QueuesMatchCodec
<1>1. IInv => QueuesMatchCodec
  BY DEF IInv
<1> QED
  BY <1>1, Invariance, PTL

\* The shared request flag never forgets a waiting viewer.
THEOREM OwedHolds == Spec => []WaitingIsOwedAKeyframe
<1>1. IInv => WaitingIsOwedAKeyframe
  BY DEF IInv
<1> QED
  BY <1>1, Invariance, PTL

\* No queue ever exceeds MAX_QUEUED_ACCESS_UNITS, and no purge removes a live viewer.
THEOREM BroadcasterHolds == Spec => []BroadcasterInv
<1>1. IInv => BroadcasterInv
  BY DEF IInv, BroadcasterInv
<1> QED
  BY <1>1, Invariance, PTL
-----------------------------------------------------------------------------
\* ViewerFeed's vocabulary is the broadcaster's.
LEMMA SameVocabulary ==
  /\ Feed!Unit = Unit
  /\ \A prev, u : Feed!Decodable(prev, u) <=> Decodable(prev, u)
BY DEF Feed!Unit, Unit, Feed!Codec, Codec, Feed!NalTypes, NalTypes,
       Feed!Decodable, Decodable, Feed!RecoveryPoint, RecoveryPoint,
       Feed!SetsLead, SetsLead, Feed!Follows, Follows, Feed!NextPts, NextPts

\* Every step of the broadcaster is a step of the viewer feed or a stutter.
LEMMA FeedStep ==
  ASSUME IInv, [Next]_vars
  PROVE  [Feed!Next]_Feed!feedVars
<1>t. TypeOK
  BY DEF IInv
<1> USE DEF Feed!feedVars, Feed!Next
<1>1. ASSUME NEW s \in Subs, Subscribe(s) PROVE [Feed!Next]_Feed!feedVars
  <2>1. {t \in Subs : alive'[t]} = {t \in Subs : alive[t]} \cup {s}
    BY <1>1, <1>t DEF Subscribe, TypeOK
  <2>2. Feed!Join(s)
    BY <1>1, <2>1 DEF Feed!Join, Subscribe
  <2> QED
    BY <2>2
<1>2. ASSUME NEW s \in Subs, Drop(s) PROVE [Feed!Next]_Feed!feedVars
  <2>1. {t \in Subs : alive'[t]} = {t \in Subs : alive[t]} \ {s}
    BY <1>2, <1>t DEF Drop, TypeOK
  <2>2. Feed!Leave(s)
    BY <1>2, <2>1 DEF Feed!Leave, Drop
  <2> QED
    BY <2>2
<1>3. ASSUME NEW s \in Subs, Take(s) PROVE [Feed!Next]_Feed!feedVars
  <2>1. /\ Head(queue[s]) \in Unit /\ Head(queue[s]) = queue[s][1]
        /\ Len(queue[s]) \in Nat \ {0}
    BY <1>3, <1>t, Taken DEF Take, TypeOK
  <2>2. Decodable(last[s], Head(queue[s]))
    <3>1. 1 \in 1 .. Len(queue[s]) /\ Before(s, 1) = last[s]
      BY <2>1 DEF Before
    <3> QED
      BY <1>3, <2>1, <3>1 DEF Take, IInv, DecodeChain
  <2>3. last' = [last EXCEPT ![s] = Head(queue[s])] /\ last'[s] = Head(queue[s])
    BY <1>3, <1>t DEF Take, TypeOK
  <2>4. {t \in Subs : alive'[t]} = {t \in Subs : alive[t]} /\ alive[s]
    BY <1>3 DEF Take
  <2>5. Feed!Receive(s)
    <3>1. Head(queue[s]) \in Feed!Unit /\ Feed!Decodable(last[s], Head(queue[s]))
      BY <2>1, <2>2, SameVocabulary
    <3>2. s \in {t \in Subs : alive[t]}
      BY <2>4
    <3> DEFINE taken == Head(queue[s])
    <3> HIDE DEF taken
    <3>3. taken \in {last'[s]} /\ last' = [last EXCEPT ![s] = taken]
      BY <2>3 DEF taken
    <3>4. taken \in Feed!Unit /\ Feed!Decodable(last[s], taken)
      BY <3>1 DEF taken
    <3> QED
      BY <2>4, <3>2, <3>3, <3>4 DEF Feed!Receive
  <2> QED
    BY <2>5
<1>4. ASSUME \/ \E s \in Subs : Deliver(s) \/ Evict(s) \/ ClearClient(s)
             \/ \E sample \in Samples : Publish(sample)
             \/ PublishDone
             \/ \E new \in Codec : SetCodecConfig(new) \/ ChangeCodecConfig(new)
             \/ ConfigDone
             \/ \E accepted \in Accepts : TakeKeyframeRequest(accepted)
             \/ UNCHANGED vars
      PROVE  [Feed!Next]_Feed!feedVars
  <2>1. UNCHANGED <<alive, last>>
    BY <1>4 DEF Deliver, Evict, ClearClient, Publish, PublishDone, SetCodecConfig,
                ChangeCodecConfig, ConfigDone, TakeKeyframeRequest, subscriberVars, vars
  <2> QED
    BY <2>1
<1> QED
  BY <1>1, <1>2, <1>3, <1>4 DEF Next

\* The broadcaster, with its bounded queues and its locks taken step by step,
\* implements the feed of decodable units.
THEOREM ImplementsFeed == Spec => FeedSpec
<1>1. Init => Feed!Init
  BY DEF Init, Feed!Init
<1>2. IInv /\ [Next]_vars => [Feed!Next]_Feed!feedVars
  BY FeedStep
<1> QED
  BY <1>1, <1>2, Invariance, PTL DEF Spec, FeedSpec, Feed!Spec
=============================================================================
