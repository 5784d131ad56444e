--------------------------- MODULE MftEncoderProofs ---------------------------
(***************************************************************************)
(* The invariants of the Windows encoders, for an event channel, a         *)
(* transform's depth and a delay of any size.                              *)
(***************************************************************************)
EXTENDS MftEncoder, FiniteSetTheorems, FunctionTheorems, SequenceTheorems, TLAPS

USE SizesAssumption, DelayAssumption

\* Announcements are counted one by one: none in an empty queue, one more when one is
\* appended, one less when the head is taken.
LEMMA CountType ==
  ASSUME NEW S, NEW seq \in Seq(S), NEW what
  PROVE  /\ Count(what, seq) \in Nat
         /\ IsFiniteSet({i \in DOMAIN seq : seq[i] = what})
         /\ seq = <<>> => Count(what, seq) = 0
<1>1. DOMAIN seq = 1 .. Len(seq) /\ Len(seq) \in Nat
  BY LenProperties
<1>2. IsFiniteSet(1 .. Len(seq))
  BY <1>1, FS_Interval
<1>3. {i \in DOMAIN seq : seq[i] = what} \in SUBSET (1 .. Len(seq))
  BY <1>1
<1>4. IsFiniteSet({i \in DOMAIN seq : seq[i] = what})
  BY <1>2, <1>3, FS_Subset
<1>5. CASE seq = <<>>
  <2>1. {i \in DOMAIN seq : seq[i] = what} = {}
    BY <1>5
  <2> QED
    BY <1>4, <2>1, FS_EmptySet DEF Count
<1> QED
  BY <1>4, <1>5, FS_CardinalityType DEF Count

LEMMA CountAppend ==
  ASSUME NEW S, NEW seq \in Seq(S), NEW e \in S, NEW what
  PROVE  Count(what, Append(seq, e)) = Count(what, seq) + IF e = what THEN 1 ELSE 0
<1> DEFINE longer == Append(seq, e)
           old == {i \in DOMAIN seq : seq[i] = what}
           new == {i \in DOMAIN longer : longer[i] = what}
<1>1. DOMAIN seq = 1 .. Len(seq) /\ Len(seq) \in Nat
  BY LenProperties
<1>2. /\ longer \in Seq(S) /\ Len(longer) = Len(seq) + 1
      /\ \A i \in 1 .. Len(seq) : longer[i] = seq[i]
      /\ longer[Len(seq) + 1] = e
  BY AppendProperties
<1>3. DOMAIN longer = 1 .. Len(seq) + 1
  BY <1>2, LenProperties
<1>4. IsFiniteSet(old) /\ Cardinality(old) \in Nat
  BY CountType DEF Count
<1> HIDE DEF longer
<1>c. Count(what, longer) = Cardinality(new) /\ Count(what, seq) = Cardinality(old)
  BY DEF Count
<1> HIDE DEF old, new
<1>5. CASE e = what
  <2>1. new = old \cup {Len(seq) + 1} /\ Len(seq) + 1 \notin old
    BY <1>1, <1>2, <1>3, <1>5 DEF old, new
  <2>2. Cardinality(new) = Cardinality(old) + 1
    BY <1>4, <2>1, FS_AddElement DEF old
  <2> QED
    BY <1>5, <1>c, <2>2 DEF longer
<1>6. CASE e # what
  <2>1. new = old
    BY <1>1, <1>2, <1>3, <1>6 DEF old, new
  <2> QED
    BY <1>4, <1>6, <1>c, <2>1 DEF longer, old
<1> QED
  BY <1>5, <1>6

LEMMA CountTail ==
  ASSUME NEW S, NEW seq \in Seq(S), seq # <<>>, NEW what
  PROVE  Count(what, Tail(seq)) = Count(what, seq) - IF Head(seq) = what THEN 1 ELSE 0
<1> DEFINE rest == Tail(seq)
           old == {i \in DOMAIN seq : seq[i] = what}
           later == old \ {1}
           new == {i \in DOMAIN rest : rest[i] = what}
           shift == [i \in new |-> i + 1]
<1>1. DOMAIN seq = 1 .. Len(seq) /\ Len(seq) \in Nat \ {0}
  BY LenProperties, EmptySeq
<1>2. /\ rest \in Seq(S) /\ Len(rest) = Len(seq) - 1
      /\ \A i \in 1 .. Len(seq) - 1 : rest[i] = seq[i + 1]
      /\ Head(seq) = seq[1]
  BY <1>1, HeadTailProperties
<1>3. DOMAIN rest = 1 .. Len(seq) - 1
  BY <1>2, LenProperties
<1>4. IsFiniteSet(old) /\ Cardinality(old) \in Nat
  BY CountType DEF Count
<1>5. IsFiniteSet(new)
  BY <1>2, CountType
<1> HIDE DEF rest
<1>c. Count(what, rest) = Cardinality(new) /\ Count(what, seq) = Cardinality(old)
  BY DEF Count
<1>6. shift \in Bijection(new, later)
  <2>1. ASSUME NEW i \in new PROVE i + 1 \in later
    BY <1>1, <1>2, <1>3
  <2>2. ASSUME NEW j \in later PROVE \E i \in new : shift[i] = j
    <3>1. j - 1 \in new /\ (j - 1) + 1 = j
      BY <1>1, <1>2, <1>3
    <3>2. shift[j - 1] = j
      BY <3>1
    <3> QED
      BY <3>1, <3>2
  <2>3. ASSUME NEW i \in new, NEW j \in new, shift[i] = shift[j] PROVE i = j
    BY <1>3, <2>3
  <2>4. shift \in [new -> later]
    BY <2>1
  <2> HIDE DEF shift, new, later
  <2> QED
    BY <2>2, <2>3, <2>4, Fun_IsBij
<1>7. IsFiniteSet(later) /\ Cardinality(later) = Cardinality(new)
  BY <1>5, <1>6, FS_Bijection DEF ExistsBijection
<1>8. Cardinality(later) = IF 1 \in old THEN Cardinality(old) - 1 ELSE Cardinality(old)
  BY <1>4, FS_RemoveElement
<1>9. 1 \in old <=> Head(seq) = what
  BY <1>1, <1>2
<1> HIDE DEF old, new, later
<1> QED
  BY <1>4, <1>7, <1>8, <1>9, <1>c DEF rest
-----------------------------------------------------------------------------
(* The hardware encoder. *)

HardInv == TypeOK /\ InputIsInvited /\ OutputsAreAnnounced

LEMMA NoneLeft ==
  ASSUME NEW n \in Nat, n <= 0
  PROVE  n = 0
OBVIOUS

\* How many announcements of a kind are on their way, in its three places.
LEMMA InFlightIs ==
  ASSUME TypeOK, NEW what
  PROVE  /\ Count(what, posted) \in Nat /\ Count(what, events) \in Nat
         /\ InFlight(what) \in Nat
         /\ InFlight(what) = Count(what, posted)
                               + (IF callback = "taken" /\ event = what THEN 1 ELSE 0)
                               + Count(what, events)
<1>1. Count(what, posted) \in Nat /\ Count(what, events) \in Nat
  BY CountType DEF TypeOK
<1> QED
  BY <1>1 DEF InFlight, Coming

\* The same of the next state.
LEMMA InFlightNext ==
  ASSUME TypeOK', NEW what
  PROVE  /\ Count(what, posted') \in Nat /\ Count(what, events') \in Nat
         /\ InFlight(what)' \in Nat
         /\ InFlight(what)' = Count(what, posted')
                                + (IF callback' = "taken" /\ event' = what THEN 1 ELSE 0)
                                + Count(what, events')
<1>1. Count(what, posted') \in Nat /\ Count(what, events') \in Nat
  BY CountType DEF TypeOK
<1>2. /\ InFlight(what)' \in Nat
      /\ InFlight(what)' = Count(what, posted)'
                             + (IF callback' = "taken" /\ event' = what THEN 1 ELSE 0)
                             + Count(what, events)'
  BY <1>1 DEF InFlight, Coming, Count
<1> QED
  BY <1>1, <1>2 DEF Count

\* The head of a queue that is not empty, and what is left behind it.
LEMMA Popped ==
  ASSUME NEW S, NEW seq \in Seq(S), seq # <<>>
  PROVE  /\ Head(seq) \in S /\ Tail(seq) \in Seq(S)
         /\ Len(seq) \in Nat \ {0} /\ Len(Tail(seq)) = Len(seq) - 1
BY HeadTailProperties, EmptySeq

\* Every step keeps the types, the limit of the channel and the depth of the transform.
LEMMA HardTypeStep ==
  ASSUME TypeOK, Next
  PROVE  TypeOK'
<1>t. /\ Len(held) \in Nat /\ Len(ready) \in Nat /\ Len(events) \in Nat
      /\ "NeedInput" \in Announcement /\ "HaveOutput" \in Announcement
      /\ "Other" \in Announcement /\ "Failure" \in Announcement
  BY LenProperties DEF TypeOK, Announcement
<1> USE DEF TypeOK, transformVars, callbackVars, historyVars
<1>1. ASSUME NEW what \in Announcement, Announce(what) PROVE posted' \in Seq(Announcement)
  BY <1>1, AppendProperties DEF Announce
<1>2. CASE AskForInput
  BY <1>t, <1>1, <1>2 DEF AskForInput, Announce
<1>3. CASE Encode
  <2>1. held # <<>>
    <3>1. Len(held) > 0
      BY <1>t, <1>3 DEF Encode
    <3> QED
      BY <3>1, EmptySeq
  <2>2. held' \in Seq(BOOLEAN) /\ ready' \in Seq(BOOLEAN)
    BY <1>3, <2>1, Popped, AppendProperties DEF Encode
  <2> QED
    BY <1>t, <1>1, <1>3, <2>2 DEF Encode, Announce
<1>4. CASE Disturb
  BY <1>t, <1>1, <1>4 DEF Disturb, Announce
<1>5. CASE InvokeStopped \/ InvokeRearms \/ InvokeRearmFails
  BY <1>5 DEF InvokeStopped, InvokeRearms, InvokeRearmFails
<1>6. CASE InvokeTakes
  BY <1>6, Popped DEF InvokeTakes
<1>7. ASSUME HasRoom, NEW what \in Announcement
      PROVE  /\ Append(events, what) \in Seq(Announcement)
             /\ Len(Append(events, what)) <= EventLimit
  BY <1>t, <1>7, AppendProperties DEF HasRoom
<1>8. CASE InvokeSends
  <2>1. CASE event = "Other" \/ HasRoom
    <3>1. events' \in Seq(Announcement) /\ Len(events') <= EventLimit
      BY <1>7, <1>8, <2>1 DEF InvokeSends
    <3>2. alarmed' \in BOOLEAN
      BY <1>8, <2>1 DEF InvokeSends
    <3> QED
      BY <1>8, <2>1, <3>1, <3>2 DEF InvokeSends
  <2>2. CASE ~(event = "Other" \/ HasRoom)
    BY <1>8, <2>2 DEF InvokeSends
  <2> QED
    BY <2>1, <2>2
<1>9. CASE InvokeReportsOverflow
  BY <1>t, <1>7, <1>9 DEF InvokeReportsOverflow
<1>10. CASE RequestKeyframe \/ Consume \/ DropFrame \/ InputRejected \/ Flushed \/ Shutdown \/ Closed
  BY <1>10 DEF RequestKeyframe, Consume, DropFrame, InputRejected, Flushed, Shutdown, Closed
<1>11. ASSUME events # <<>>, events' = Tail(events)
       PROVE  events' \in Seq(Announcement) /\ Len(events') <= EventLimit
  BY <1>t, <1>11, Popped
<1>12. CASE PumpNeedInput
  BY <1>11, <1>12 DEF PumpNeedInput
<1>13. CASE PumpHaveOutput
  <2>1. ready' = ready \/ (ready # <<>> /\ ready' = Tail(ready))
    BY <1>13, Zenon DEF PumpHaveOutput
  <2>2. ready' \in Seq(BOOLEAN)
    BY <2>1, Popped
  <2>3. owed' \in BOOLEAN
    BY <1>13 DEF PumpHaveOutput, PublishEncodedSample
  <2>4. worker' \in {"idle", "pump", "flush", "drain", "closed"}
    BY <1>13 DEF PumpHaveOutput, Abandon
  <2>5. lost' \subseteq Announcement
    BY <1>t, <1>13 DEF PumpHaveOutput
  <2>6. /\ events # <<>> /\ events' = Tail(events)
        /\ UNCHANGED <<credit, held, forced, callbackVars, needs_input, alarmed>>
    BY <1>13, Zenon DEF PumpHaveOutput
  <2> QED
    BY <1>11, <2>2, <2>3, <2>4, <2>5, <2>6
<1>14. CASE PumpFailure
  BY <1>11, <1>14 DEF PumpFailure, Abandon
<1>15. CASE InputAccepted
  <2>1. held' \in Seq(BOOLEAN) /\ credit' \in 0 .. Depth
    BY <1>15, AppendProperties DEF InputAccepted
  <2>2. forced' \in BOOLEAN /\ needs_input' \in BOOLEAN
    BY <1>15 DEF InputAccepted
  <2> QED
    BY <1>15, <2>1, <2>2 DEF InputAccepted
<1> QED
  BY <1>2, <1>3, <1>4, <1>5, <1>6, <1>8, <1>9, <1>10, <1>12, <1>13, <1>14, <1>15
     DEF Next, Transform, Invoke, Worker, Pump

\* A sum stays below its bound when it grows no more than the bound does.
LEMMA Balance ==
  ASSUME NEW flag \in Int, NEW flag1 \in Int, NEW way \in Int, NEW way1 \in Int,
         NEW bound \in Int, NEW bound1 \in Int,
         (flag1 - flag) + (way1 - way) <= bound1 - bound,
         flag + way <= bound
  PROVE  flag1 + way1 <= bound1
OBVIOUS

Flag == IF needs_input THEN 1 ELSE 0

LEMMA CountTypes ==
  ASSUME HardInv, TypeOK'
  PROVE  /\ InFlight("NeedInput") \in Int /\ InFlight("NeedInput")' \in Int
         /\ InFlight("HaveOutput") \in Int /\ InFlight("HaveOutput")' \in Int
         /\ credit \in Int /\ credit' \in Int
         /\ Len(ready) \in Int /\ Len(ready') \in Int
         /\ Flag \in Int /\ Flag' \in Int
<1>1. InFlight("NeedInput") \in Int /\ InFlight("HaveOutput") \in Int
  BY InFlightIs DEF HardInv
<1>2. InFlight("NeedInput")' \in Int /\ InFlight("HaveOutput")' \in Int
  BY InFlightNext
<1>3. credit \in Int /\ credit' \in Int
  BY DEF HardInv, TypeOK
<1>4. Len(ready) \in Int /\ Len(ready') \in Int
  BY LenProperties DEF HardInv, TypeOK
<1>5. Flag \in Int /\ Flag' \in Int
  BY DEF Flag
<1> QED
  BY <1>1, <1>2, <1>3, <1>4, <1>5

\* One way to keep both counts: what is on its way changes as much as what it stands for.
LEMMA CountsKept ==
  ASSUME HardInv, TypeOK',
         (Flag' - Flag) + (InFlight("NeedInput")' - InFlight("NeedInput")) <= credit' - credit,
         "HaveOutput" \notin lost' =>
            /\ "HaveOutput" \notin lost
            /\ InFlight("HaveOutput")' - InFlight("HaveOutput") = Len(ready') - Len(ready)
  PROVE  HardInv'
<1>1. Flag + InFlight("NeedInput") <= credit
  BY DEF HardInv, InputIsInvited, Flag
<1>2. Flag' + InFlight("NeedInput")' <= credit'
  BY <1>1, CountTypes, Balance
<1>3. InputIsInvited'
  BY <1>2 DEF InputIsInvited, Flag
<1>4. OutputsAreAnnounced'
  BY CountTypes DEF HardInv, OutputsAreAnnounced
<1> QED
  BY <1>3, <1>4 DEF HardInv

\* The transform announces what it asks for and what it has finished.
LEMMA TransformStep ==
  ASSUME HardInv, TypeOK', Transform
  PROVE  HardInv'
<1>t. TypeOK
  BY DEF HardInv
<1>1. ASSUME NEW what \in Announcement, Announce(what), NEW w
      PROVE  InFlight(w)' = InFlight(w) + IF what = w THEN 1 ELSE 0
  <2>1. posted \in Seq(Announcement) /\ posted' = Append(posted, what)
    BY <1>t, <1>1 DEF Announce, TypeOK
  <2>2. Count(w, posted') = Count(w, posted) + IF what = w THEN 1 ELSE 0
    BY <2>1, CountAppend
  <2> QED
    BY <1>t, <1>1, <2>2, InFlightIs, InFlightNext DEF Announce
<1>2. ASSUME NEW what \in Announcement, Announce(what)
      PROVE  Flag' = Flag /\ lost' = lost
  BY <1>2 DEF Announce, historyVars, Flag
<1>3. CASE AskForInput
  <2>1. /\ InFlight("NeedInput")' = InFlight("NeedInput") + 1
        /\ InFlight("HaveOutput")' = InFlight("HaveOutput")
    BY <1>1, <1>3, CountTypes DEF AskForInput, Announcement
  <2>2. Flag' = Flag /\ lost' = lost /\ credit' = credit + 1 /\ ready' = ready
    BY <1>2, <1>3 DEF AskForInput, Announcement
  <2> QED
    BY <2>1, <2>2, CountTypes, CountsKept
<1>4. CASE Encode
  <2>1. /\ InFlight("NeedInput")' = InFlight("NeedInput")
        /\ InFlight("HaveOutput")' = InFlight("HaveOutput") + 1
    BY SMTT(60), <1>1, <1>4, CountTypes DEF Encode, Announcement
  <2>2. Flag' = Flag /\ lost' = lost /\ credit' = credit
    BY <1>2, <1>4 DEF Encode, Announcement
  <2>3. Len(ready') = Len(ready) + 1
    <3>1. Len(held) > 0 /\ held \in Seq(BOOLEAN)
      BY <1>t, <1>4, LenProperties DEF Encode, TypeOK
    <3>2. Head(held) \in BOOLEAN
      BY <3>1, Popped, EmptySeq
    <3> QED
      BY <1>t, <1>4, <3>2, AppendProperties DEF Encode, TypeOK
  <2> QED
    BY <2>1, <2>2, <2>3, CountTypes, CountsKept
<1>5. CASE Disturb
  <2>1. PICK what \in {"Other", "Failure"} : Announce(what)
    BY <1>5 DEF Disturb
  <2>2. /\ InFlight("NeedInput")' = InFlight("NeedInput")
        /\ InFlight("HaveOutput")' = InFlight("HaveOutput")
    BY <1>1, <2>1, CountTypes DEF Announcement
  <2>3. Flag' = Flag /\ lost' = lost /\ credit' = credit /\ ready' = ready
    BY <1>2, <1>5, <2>1 DEF Disturb, Announcement
  <2> QED
    BY <2>2, <2>3, CountTypes, CountsKept
<1> QED
  BY <1>3, <1>4, <1>5 DEF Transform

\* The callback moves an announcement on, or drops it and remembers that it did.
LEMMA InvokeStep ==
  ASSUME HardInv, TypeOK', Invoke
  PROVE  HardInv'
<1>t. TypeOK
  BY DEF HardInv
<1>1. ASSUME \A w \in {"NeedInput", "HaveOutput"} : InFlight(w)' = InFlight(w),
             UNCHANGED <<credit, ready, needs_input, lost>>
      PROVE  HardInv'
  <2>1. Flag' = Flag
    BY <1>1 DEF Flag
  <2> QED
    BY <1>1, <2>1, CountTypes, CountsKept
<1> USE DEF transformVars, callbackVars, historyVars
<1>2. CASE InvokeStopped \/ InvokeRearms \/ InvokeRearmFails
  <2>1. \A w \in {"NeedInput", "HaveOutput"} : InFlight(w)' = InFlight(w)
    BY <1>t, <1>2, InFlightIs, InFlightNext DEF InvokeStopped, InvokeRearms, InvokeRearmFails
  <2> QED
    BY <1>1, <1>2, <2>1 DEF InvokeStopped, InvokeRearms, InvokeRearmFails
<1>3. CASE InvokeTakes
  <2>1. ASSUME NEW w PROVE InFlight(w)' = InFlight(w)
    <3>1. /\ posted \in Seq(Announcement) /\ posted # <<>> /\ posted' = Tail(posted)
          /\ event' = Head(posted) /\ callback = "armed" /\ callback' = "taken"
          /\ events' = events
      BY <1>t, <1>3 DEF InvokeTakes, TypeOK
    <3>2. Count(w, posted') = Count(w, posted) - IF Head(posted) = w THEN 1 ELSE 0
      BY <3>1, CountTail
    <3>3. InFlight(w) = Count(w, posted) + 0 + Count(w, events)
      BY <1>t, <3>1, InFlightIs
    <3>4. InFlight(w)' = Count(w, posted') + (IF Head(posted) = w THEN 1 ELSE 0) + Count(w, events)
      BY <3>1, InFlightNext
    <3>5. Count(w, posted) \in Nat /\ Count(w, posted') \in Nat /\ Count(w, events) \in Nat
      BY <1>t, InFlightIs, InFlightNext
    <3>6. CASE Head(posted) = w
      BY <3>2, <3>3, <3>4, <3>5, <3>6
    <3>7. CASE Head(posted) # w
      BY <3>2, <3>3, <3>4, <3>5, <3>7
    <3> QED
      BY <3>6, <3>7
  <2> QED
    BY <1>1, <1>3, <2>1 DEF InvokeTakes
<1>4. CASE InvokeSends
  <2>1. CASE event = "Other"
    <3>1. \A w \in {"NeedInput", "HaveOutput"} : InFlight(w)' = InFlight(w)
      BY <1>t, <1>4, <2>1, InFlightIs, InFlightNext DEF InvokeSends
    <3> QED
      BY <1>1, <1>4, <2>1, <3>1 DEF InvokeSends
  <2>2. CASE event # "Other" /\ HasRoom
    <3>1. ASSUME NEW w PROVE InFlight(w)' = InFlight(w)
      <4>1. /\ events \in Seq(Announcement) /\ event \in Announcement
            /\ events' = Append(events, event) /\ callback = "taken" /\ callback' = "rearm"
            /\ posted' = posted
        BY <1>t, <1>4, <2>2 DEF InvokeSends, TypeOK
      <4>2. Count(w, events') = Count(w, events) + IF event = w THEN 1 ELSE 0
        BY <4>1, CountAppend
      <4>3. InFlight(w) = Count(w, posted) + (IF event = w THEN 1 ELSE 0) + Count(w, events)
        BY <1>t, <4>1, InFlightIs
      <4>4. InFlight(w)' = Count(w, posted) + 0 + Count(w, events')
        BY <4>1, InFlightNext
      <4>5. Count(w, posted) \in Nat /\ Count(w, events') \in Nat /\ Count(w, events) \in Nat
        BY <1>t, InFlightIs, InFlightNext
      <4>6. CASE event = w
        BY <4>2, <4>3, <4>4, <4>5, <4>6
      <4>7. CASE event # w
        BY <4>2, <4>3, <4>4, <4>5, <4>7
      <4> QED
        BY <4>6, <4>7
    <3> QED
      BY <1>1, <1>4, <2>2, <3>1 DEF InvokeSends
  <2>3. CASE event # "Other" /\ ~HasRoom
    <3>1. /\ UNCHANGED <<posted, events, event, credit, needs_input, ready>>
          /\ lost' = lost \cup {event}
          /\ callback = "taken" /\ callback' \in {"rearm", "full"}
      BY <1>4, <2>3 DEF InvokeSends
    <3>2. \A w \in {"NeedInput", "HaveOutput"} :
            InFlight(w)' = InFlight(w) - IF event = w THEN 1 ELSE 0
      BY <1>t, <3>1, InFlightIs, InFlightNext
    <3>3. InFlight("NeedInput")' <= InFlight("NeedInput")
      BY <3>2, CountTypes
    <3>4. "HaveOutput" \notin lost' =>
            /\ "HaveOutput" \notin lost
            /\ InFlight("HaveOutput")' = InFlight("HaveOutput")
      BY <3>1, <3>2, CountTypes
    <3>5. Flag' = Flag
      BY <3>1 DEF Flag
    <3> QED
      BY <3>1, <3>3, <3>4, <3>5, CountTypes, CountsKept
  <2> QED
    BY <2>1, <2>2, <2>3
<1>5. CASE InvokeReportsOverflow
  <2>1. ASSUME NEW w \in {"NeedInput", "HaveOutput"} PROVE InFlight(w)' = InFlight(w)
    <3>1. events \in Seq(Announcement) /\ "Failure" \in Announcement /\ w # "Failure"
      BY <1>t DEF TypeOK, Announcement
    <3>2. Count(w, Append(events, "Failure")) = Count(w, events) + 0
      BY <3>1, CountAppend
    <3>3. Count(w, events) \in Nat
      BY <1>t, InFlightIs
    <3>4. Count(w, events') = Count(w, events)
      <4>1. CASE HasRoom
        <5>1. events' = Append(events, "Failure")
          BY <1>5, <4>1 DEF InvokeReportsOverflow
        <5> QED
          BY <3>2, <3>3, <5>1
      <4>2. CASE ~HasRoom
        BY <1>5, <4>2 DEF InvokeReportsOverflow
      <4> QED
        BY <4>1, <4>2
    <3> QED
      BY <1>t, <1>5, <3>4, InFlightIs, InFlightNext DEF InvokeReportsOverflow
  <2> QED
    BY <1>1, <1>5, <2>1 DEF InvokeReportsOverflow
<1> QED
  BY <1>2, <1>3, <1>4, <1>5 DEF Invoke

\* The worker turns a request into the flag, the flag into a frame given, and an
\* announced output into one collected.
LEMMA WorkerStep ==
  ASSUME HardInv, TypeOK', Worker
  PROVE  HardInv'
<1>t. TypeOK
  BY DEF HardInv
<1> USE DEF transformVars, callbackVars, historyVars
<1>1. ASSUME UNCHANGED <<posted, callback, event, events, lost>>
      PROVE  \A w \in {"NeedInput", "HaveOutput"} : InFlight(w)' = InFlight(w)
  BY <1>t, <1>1, InFlightIs, InFlightNext
<1>2. CASE RequestKeyframe \/ Consume \/ DropFrame \/ InputRejected \/ Flushed \/ Shutdown \/ Closed
  <2>1. UNCHANGED <<posted, callback, event, events, lost, credit, ready, needs_input>>
    BY <1>2 DEF RequestKeyframe, Consume, DropFrame, InputRejected, Flushed, Shutdown, Closed
  <2>2. Flag' = Flag
    BY <2>1 DEF Flag
  <2> QED
    BY <1>1, <2>1, <2>2, CountTypes, CountsKept
<1>3. ASSUME events # <<>>, events' = Tail(events), UNCHANGED <<posted, callback, event>>, NEW w
      PROVE  InFlight(w)' = InFlight(w) - IF Head(events) = w THEN 1 ELSE 0
  <2>1. events \in Seq(Announcement)
    BY <1>t DEF TypeOK
  <2>2. Count(w, events') = Count(w, events) - IF Head(events) = w THEN 1 ELSE 0
    BY <1>3, <2>1, CountTail
  <2> QED
    BY <1>t, <1>3, <2>2, InFlightIs, InFlightNext
<1>4. CASE PumpNeedInput
  <2>1. /\ InFlight("NeedInput")' = InFlight("NeedInput") - 1
        /\ InFlight("HaveOutput")' = InFlight("HaveOutput")
    BY <1>3, <1>4, CountTypes DEF PumpNeedInput
  <2>2. Flag' <= Flag + 1
    BY <1>4 DEF PumpNeedInput, Flag
  <2>3. UNCHANGED <<credit, ready, lost>>
    BY <1>4 DEF PumpNeedInput
  <2> QED
    BY <2>1, <2>2, <2>3, CountTypes, CountsKept
<1>5. CASE PumpHaveOutput
  <2>1. /\ InFlight("NeedInput")' = InFlight("NeedInput")
        /\ InFlight("HaveOutput")' = InFlight("HaveOutput") - 1
    BY <1>3, <1>5, CountTypes DEF PumpHaveOutput
  <2>2. Flag' = Flag /\ UNCHANGED credit
    BY <1>5, Zenon DEF PumpHaveOutput, Flag
  <2>3. CASE "HaveOutput" \in lost'
    BY <2>1, <2>2, <2>3, CountTypes, CountsKept
  <2>4. CASE "HaveOutput" \notin lost'
    <3>1. UNCHANGED lost /\ ready # <<>> /\ ready' = Tail(ready)
      BY <1>5, <2>4 DEF PumpHaveOutput
    <3>2. Len(ready') = Len(ready) - 1 /\ Len(ready) \in Nat
      BY <3>1, Popped DEF TypeOK
    <3> QED
      BY <2>1, <2>2, <3>1, <3>2, CountTypes, CountsKept
  <2> QED
    BY <2>3, <2>4
<1>6. CASE PumpFailure
  <2>1. /\ InFlight("NeedInput")' = InFlight("NeedInput")
        /\ InFlight("HaveOutput")' = InFlight("HaveOutput")
    BY <1>3, <1>6, CountTypes DEF PumpFailure
  <2>2. Flag' = Flag /\ UNCHANGED <<credit, ready, lost>>
    BY <1>6 DEF PumpFailure, Flag
  <2> QED
    BY <2>1, <2>2, CountTypes, CountsKept
<1>7. CASE InputAccepted
  <2>1. /\ InFlight("NeedInput")' = InFlight("NeedInput")
        /\ InFlight("HaveOutput")' = InFlight("HaveOutput")
    BY <1>1, <1>7 DEF InputAccepted
  <2>2. Flag = 1 /\ Flag' = 0 /\ credit' = credit - 1 /\ UNCHANGED <<ready, lost>>
    BY <1>7 DEF InputAccepted, Flag
  <2> QED
    BY <2>1, <2>2, CountTypes, CountsKept
<1> QED
  BY <1>2, <1>4, <1>5, <1>6, <1>7 DEF Worker, Pump

LEMMA HardInvStep ==
  ASSUME HardInv, [Next]_vars
  PROVE  HardInv'
<1>1. CASE Next
  <2>1. TypeOK'
    BY <1>1, HardTypeStep DEF HardInv
  <2> QED
    BY <1>1, <2>1, TransformStep, InvokeStep, WorkerStep DEF Next
<1>2. CASE UNCHANGED vars
  BY <1>2 DEF vars, transformVars, callbackVars, historyVars, HardInv, TypeOK,
              InputIsInvited, OutputsAreAnnounced, InFlight, Coming, Count
<1> QED
  BY <1>1, <1>2
-----------------------------------------------------------------------------
(* The software encoder. *)

SoftTypeOK ==
  /\ inside \in Seq(BOOLEAN) /\ Len(inside) <= Delay + 1
  /\ asked \in BOOLEAN /\ broken \in BOOLEAN /\ wanted \in BOOLEAN
  /\ place \in {"idle", "closed"} \cup Drains \cup Gives
  /\ frame \in {"none", "raw", "encoded"}

\* Why nothing is lost: a frame is given only after a drain, consume's last drain
\* follows a frame that was taken, and unless a call fails the encoder is closed by
\* a drain that found nothing more.
SoftInv ==
  /\ SoftTypeOK
  /\ place \in Gives => Len(inside) <= Delay
  /\ ~broken => /\ place = "idle" => frame # "raw"
                /\ place = "drain after" => frame = "encoded"
                /\ place = "closed" => inside = <<>>

LEMMA SoftStep ==
  ASSUME SoftInv, [SoftNext]_softVars
  PROVE  SoftInv'
<1>t. /\ inside \in Seq(BOOLEAN) /\ Len(inside) \in Nat /\ Len(inside) <= Delay + 1
      /\ asked \in BOOLEAN
  BY LenProperties DEF SoftInv, SoftTypeOK
<1>e. inside = <<>> <=> Len(inside) = 0
  BY <1>t, EmptySeq
<1>k. Kept \in Nat /\ Kept <= Delay
  BY DelayAssumption DEF Kept
<1>z. place = "drain at end" => Kept = 0
  BY DEF Kept
<1>1. CASE SoftConsume
  BY <1>1 DEF SoftConsume, SoftInv, SoftTypeOK, Drains, Gives
<1>2. CASE SoftOutput
  <2>1. Len(inside) > Kept
    BY <1>2 DEF SoftOutput
  <2>2. Len(inside) # 0
    BY <1>t, <1>k, <2>1
  <2>3. inside # <<>>
    BY <1>e, <2>2
  <2>4. /\ Head(inside) \in BOOLEAN
        /\ inside' \in Seq(BOOLEAN) /\ Len(inside') = Len(inside) - 1
    BY <1>t, <1>2, <2>3, Popped DEF SoftOutput
  <2>5. wanted' \in BOOLEAN
    BY <1>2, <2>4 DEF SoftOutput
  <2>6. Len(inside') <= Delay + 1 /\ (Len(inside) <= Delay => Len(inside') <= Delay)
    BY <1>t, <2>4
  <2> QED
    BY <1>2, <2>3, <2>4, <2>5, <2>6 DEF SoftOutput, SoftInv, SoftTypeOK, Drains, Gives
<1>3. CASE Drained
  <2>1. Len(inside) <= Kept
    BY <1>3 DEF Drained
  <2>2. place = "drain at end" => inside = <<>>
    <3> SUFFICES ASSUME place = "drain at end" PROVE inside = <<>>
      OBVIOUS
    <3>1. Kept = 0
      BY <1>z
    <3>2. Len(inside) <= 0 /\ Len(inside) \in Nat
      BY <1>t, <2>1, <3>1, Zenon
    <3>3. Len(inside) = 0
      BY <3>2, NoneLeft, Zenon
    <3> QED
      BY <1>e, <3>3
  <2>3. Len(inside) <= Delay
    BY <1>t, <1>k, <2>1, DelayAssumption
  <2>4. /\ UNCHANGED <<inside, asked, frame, broken, wanted>>
        /\ \/ place = "drain before" /\ place' = "give"
           \/ place = "drain again" /\ place' = "give again"
           \/ place = "drain after" /\ place' = "idle"
           \/ place = "drain at end" /\ place' = "closed"
    BY <1>3 DEF Drained, Drains
  <2> QED
    BY <2>2, <2>3, <2>4 DEF SoftInv, SoftTypeOK, Drains, Gives
<1>4. CASE SoftInput
  <2>1. inside' = Append(inside, asked) /\ Len(inside) <= Delay
    BY <1>4 DEF SoftInput, SoftInv
  <2>2. inside' \in Seq(BOOLEAN) /\ Len(inside') = Len(inside) + 1
    BY <1>t, <2>1, AppendProperties
  <2>3. Len(inside') <= Delay + 1
    BY <1>t, <2>1, <2>2
  <2> QED
    BY <1>4, <2>2, <2>3 DEF SoftInput, SoftInv, SoftTypeOK, Drains, Gives
<1>5. CASE NotAccepting
  BY <1>5 DEF NotAccepting, SoftInv, SoftTypeOK, Drains, Gives
<1>6. CASE SoftFails
  BY <1>6 DEF SoftFails, SoftInv, SoftTypeOK, Drains, Gives
<1>7. CASE SoftRequestKeyframe
  BY <1>7 DEF SoftRequestKeyframe, SoftInv, SoftTypeOK, Drains, Gives
<1>8. CASE SoftShutdown
  BY <1>8 DEF SoftShutdown, SoftInv, SoftTypeOK, Drains, Gives
<1>9. CASE UNCHANGED softVars
  BY <1>9 DEF softVars, SoftInv, SoftTypeOK, Drains, Gives
<1> QED
  BY <1>1, <1>2, <1>3, <1>4, <1>5, <1>6, <1>7, <1>8, <1>9 DEF SoftNext
-----------------------------------------------------------------------------
(* Whichever encoder was made. *)

\* At most one encoder was made, and the other one stays closed.
OneWorks == worker = "closed" \/ place = "closed"

MftIInv == HardInv /\ SoftInv /\ OneWorks

\* An encoder that is closed does nothing more in its worker.
LEMMA ClosedStays ==
  /\ Next /\ worker = "closed" => worker' = "closed"
  /\ SoftNext /\ place = "closed" => place' = "closed"
<1>1. ASSUME Next, worker = "closed" PROVE worker' = "closed"
  <2>1. CASE Transform
    BY <1>1, <2>1 DEF Transform, AskForInput, Encode, Disturb
  <2>2. CASE Invoke
    BY <1>1, <2>2 DEF Invoke, InvokeStopped, InvokeTakes, InvokeSends, InvokeReportsOverflow,
                      InvokeRearms, InvokeRearmFails
  <2>3. CASE Worker
    BY <1>1, <2>3 DEF Worker, RequestKeyframe, Consume, Pump, Pumping, PumpNeedInput,
                      PumpHaveOutput, PumpFailure, DropFrame, InputAccepted, InputRejected,
                      Flushed, Shutdown, Closed
  <2> QED
    BY <1>1, <2>1, <2>2, <2>3 DEF Next
<1>2. ASSUME SoftNext, place = "closed" PROVE place' = "closed"
  BY <1>2 DEF SoftNext, SoftConsume, SoftOutput, Drained, SoftInput, NotAccepting, SoftFails,
              SoftRequestKeyframe, SoftShutdown, Drains, Gives
<1> QED
  BY <1>1, <1>2

\* The invariant of both encoders: no frame is given that was not asked for, every output
\* is announced once, and the software encoder keeps its frame until the transform has it.
THEOREM MftInvariance == MftSpec => []MftIInv
<1>1. MftInit => MftIInv
  <2> SUFFICES ASSUME MftInit PROVE MftIInv
    OBVIOUS
  <2>s. /\ held \in Seq(BOOLEAN) /\ ready \in Seq(BOOLEAN) /\ inside \in Seq(BOOLEAN)
        /\ posted \in Seq(Announcement) /\ events \in Seq(Announcement)
    BY EmptySeq, Zenon DEF MftInit, Init, SoftInit
  <2>l. Len(ready) = 0 /\ Len(events) = 0 /\ Len(inside) = 0
    BY EmptySeq, Zenon DEF MftInit, Init, SoftInit
  <2>h. /\ credit = 0 /\ forced = FALSE /\ callback = "armed" /\ event = "Other"
        /\ needs_input = FALSE /\ worker \in {"idle", "closed"}
        /\ lost = {} /\ alarmed = FALSE /\ owed = FALSE
    BY DEF MftInit, Init
  <2>w. /\ asked = FALSE /\ place \in {"idle", "closed"} /\ frame = "none"
        /\ broken = FALSE /\ wanted = FALSE /\ (place = "closed" => inside = <<>>)
        /\ (worker = "closed" \/ place = "closed")
    BY DEF MftInit, SoftInit
  <2>1. TypeOK
    <3>1. 0 \in 0..Depth /\ 0 <= EventLimit
      OBVIOUS
    <3>2. credit \in 0..Depth /\ Len(events) <= EventLimit
      BY <2>h, <2>l, <3>1, Zenon
    <3>3. /\ forced \in BOOLEAN /\ needs_input \in BOOLEAN
          /\ alarmed \in BOOLEAN /\ owed \in BOOLEAN
          /\ lost \subseteq Announcement /\ event \in Announcement
      BY <2>h DEF Announcement
    <3>4. /\ callback \in {"armed", "taken", "full", "rearm", "off"}
          /\ worker \in {"idle", "pump", "flush", "drain", "closed"}
      BY <2>h
    <3> QED
      BY <2>s, <3>2, <3>3, <3>4, Zenon DEF TypeOK
  <2>2. ASSUME NEW what PROVE InFlight(what) = 0
    <3>1. Count(what, posted) = 0 /\ Count(what, events) = 0
      BY <2>1, CountType, Zenon DEF TypeOK, MftInit, Init
    <3> QED
      BY <2>h, <3>1 DEF InFlight, Coming
  <2>3. InputIsInvited /\ OutputsAreAnnounced
    BY <2>2, <2>h, <2>l DEF InputIsInvited, OutputsAreAnnounced
  <2>4. SoftInv
    <3>1. 0 <= Delay + 1 /\ 0 <= Delay
      OBVIOUS
    <3>2. Len(inside) <= Delay + 1 /\ Len(inside) <= Delay
      BY <2>l, <3>1, Zenon
    <3>3. /\ asked \in BOOLEAN /\ broken \in BOOLEAN /\ wanted \in BOOLEAN
          /\ place \in {"idle", "closed"} \cup Drains \cup Gives
          /\ frame \in {"none", "raw", "encoded"}
      BY <2>w
    <3>4. (place = "closed" => inside = <<>>) /\ frame # "raw" /\ place # "drain after"
      BY <2>w
    <3> QED
      BY <2>s, <3>2, <3>3, <3>4, Zenon DEF SoftInv, SoftTypeOK
  <2> QED
    BY <2>w, <2>1, <2>3, <2>4 DEF MftIInv, HardInv, OneWorks
<1>2. MftIInv /\ [MftNext]_<<vars, softVars>> => MftIInv'
  <2> SUFFICES ASSUME MftIInv, [MftNext]_<<vars, softVars>> PROVE MftIInv'
    OBVIOUS
  <2>1. [Next]_vars /\ [SoftNext]_softVars
    BY DEF MftNext
  <2>2. HardInv' /\ SoftInv'
    BY <2>1, HardInvStep, SoftStep DEF MftIInv
  <2>3. worker = "closed" => worker' = "closed"
    BY <2>1, ClosedStays DEF vars
  <2>4. place = "closed" => place' = "closed"
    BY <2>1, ClosedStays DEF softVars
  <2> QED
    BY <2>2, <2>3, <2>4 DEF MftIInv, OneWorks
<1> QED
  BY <1>1, <1>2, PTL DEF MftSpec

\* The types of both encoders, the limit of the event channel, at most one encoder at
\* work, and no frame given to a hardware transform that did not ask for it (consume).
THEOREM MftHolds == MftSpec => []MftInv
<1>1. MftIInv => MftInv
  BY DEF MftIInv, HardInv, SoftInv, SoftTypeOK, OneWorks, MftInv, MftTypeOK
<1> QED
  BY <1>1, MftInvariance, PTL

\* Unless the channel refused an announcement, one is on its way for each output the
\* hardware transform holds: none is forgotten, none collected twice (pump_events).
THEOREM OutputsHold == MftSpec => []OutputsAreAnnounced
<1>1. MftIInv => OutputsAreAnnounced
  BY DEF MftIInv, HardInv
<1> QED
  BY <1>1, MftInvariance, PTL

\* The software encoder returns from consume only when its frame was taken and closes
\* only when every frame has come out, unless a call failed.
THEOREM SoftwareHolds == MftSpec => []SoftwareLosesNothing
<1>1. MftIInv => SoftwareLosesNothing
  BY DEF MftIInv, SoftInv, SoftwareLosesNothing
<1> QED
  BY <1>1, MftInvariance, PTL
=============================================================================
