-------------------------- MODULE RtspSessionProofs --------------------------
(***************************************************************************)
(* The invariants of one RTSP connection, for any lifetime of nonces, any  *)
(* offers of the client and any ports, and its refinement of the playback  *)
(* state machine.                                                          *)
(***************************************************************************)
EXTENDS RtspSession, TLAPS

USE NoTransportAssumption, ProtectedAssumption, PermittedAssumption, TimesAssumption,
    NonceRangeAssumption

\* A negotiation ends with a permitted transport or with none.
LEMMA NegotiatedIsPermitted ==
  ASSUME NEW offer, NEW busy
  PROVE  Negotiated(offer, Permitted, busy) \in Permitted \cup {NoTransport}
<1> DEFINE bound == {a \in Selected(offer, Permitted) : a.protocol = "udp" => Pairs(busy) # {}}
<1>1. \A a \in bound : a.protocol \in Permitted
  BY DEF Selected, Usable
<1>2. CASE bound = {}
  BY <1>2 DEF Negotiated
<1>3. CASE bound # {}
  <2>1. (CHOOSE a \in bound : TRUE) \in bound
    BY <1>3
  <2> QED
    BY <1>1, <1>3, <2>1 DEF Negotiated
<1> QED
  BY <1>2, <1>3

\* The first usable alternative decides, whatever follows it: a UDP one for which no pair
\* of ports is free fails the SETUP, although another alternative might have served.
THEOREM FirstUsableDecides ==
  ASSUME NEW offer \in Offers, NEW busy, NEW i \in DOMAIN offer,
         Usable(offer[i], Permitted),
         \A j \in 1 .. i - 1 : ~Usable(offer[j], Permitted)
  PROVE  Negotiated(offer, Permitted, busy) =
           IF offer[i].protocol = "udp" /\ Pairs(busy) = {} THEN NoTransport
                                                            ELSE offer[i].protocol
<1>1. DOMAIN offer = 1 .. Len(offer) /\ Len(offer) \in Nat
  BY OffersAssumption
<1>2. Selected(offer, Permitted) = {offer[i]}
  <2>1. offer[i] \in Selected(offer, Permitted)
    BY DEF Selected
  <2>2. ASSUME NEW a \in Selected(offer, Permitted)
        PROVE  a = offer[i]
    <3>1. PICK k \in DOMAIN offer : /\ a = offer[k]
                                    /\ Usable(offer[k], Permitted)
                                    /\ \A j \in 1 .. k - 1 : ~Usable(offer[j], Permitted)
      BY <2>2 DEF Selected
    <3>2. ~(k < i) /\ ~(i < k)
      BY <1>1, <3>1
    <3> QED
      BY <1>1, <3>1, <3>2
  <2> QED
    BY <2>1, <2>2
<1> DEFINE bound == {a \in Selected(offer, Permitted) : a.protocol = "udp" => Pairs(busy) # {}}
<1>3. CASE offer[i].protocol = "udp" /\ Pairs(busy) = {}
  <2>1. bound = {}
    BY <1>2, <1>3
  <2> QED
    BY <1>3, <2>1 DEF Negotiated
<1>4. CASE ~(offer[i].protocol = "udp" /\ Pairs(busy) = {})
  <2>1. bound = {offer[i]}
    BY <1>2, <1>4
  <2>2. (CHOOSE a \in bound : TRUE) = offer[i]
    BY <2>1
  <2> QED
    BY <1>4, <2>1, <2>2 DEF Negotiated
<1> QED
  BY <1>3, <1>4

\* Nonces follow each other without repeating the last one.
LEMMA NextNonceDiffers ==
  ASSUME NEW n \in 0 .. NonceRange - 1
  PROVE  /\ (n + 1) % NonceRange \in 0 .. NonceRange - 1
         /\ (n + 1) % NonceRange # n
<1>1. CASE n + 1 < NonceRange
  BY <1>1
<1>2. CASE n + 1 = NonceRange
  BY <1>2
<1> QED
  BY <1>1, <1>2

\* Trust is never lost, and everything but OPTIONS that passes the gates brings it.
LEMMA ServedIsTrusted ==
  ASSUME SessionInv, NEW r \in Request, Reject(r) \/ Serve(r)
  PROVE  /\ trusted' \in BOOLEAN
         /\ trusted => trusted'
         /\ Protected /\ r.method # "OPTIONS" => trusted'
<1>1. trusted \in BOOLEAN /\ trusted' = (trusted \/ (r.method # "OPTIONS" /\ Authorized(r)))
  BY DEF SessionInv, TypeOK, Reject, Serve
<1>2. Admitted(r)
  BY DEF Reject, Serve
<1> HIDE DEF Authorized
<1>3. CASE r.method # "OPTIONS" /\ Authorized(r)
  BY <1>1, <1>3
<1>4. CASE ~(r.method # "OPTIONS" /\ Authorized(r))
  BY <1>1, <1>2, <1>4 DEF Admitted
<1> QED
  BY <1>3, <1>4

\* A request leaves the types and the silence before trust as they were.
LEMMA HandleStep ==
  ASSUME SessionInv, NEW r \in Request, Handle(r)
  PROVE  SessionInv'
<1> USE DEF SessionInv, TypeOK, NothingBeforeTrust, Replies, streamVars, authVars, Read
<1>1. CASE Challenge(r)
  <2>1. /\ nonce' \in 0 .. NonceRange - 1
        /\ nonceAge' \in 0 .. NonceTtl + 1
        /\ held' = nonce'
    BY <1>1, NextNonceDiffers DEF Challenge
  <2> QED
    BY <1>1, <2>1 DEF Challenge
<1>2. CASE Reject(r)
  <2>1. trusted' \in BOOLEAN /\ (trusted => trusted') /\ reply' \in {"404", "454"}
    BY <1>2, ServedIsTrusted DEF Reject
  <2> QED
    BY <1>2, <2>1 DEF Reject
<1>3. CASE Inquire(r)
  <2>1. trusted' \in BOOLEAN /\ (trusted => trusted')
    BY <1>3, ServedIsTrusted DEF Inquire
  <2> QED
    BY <1>3, <2>1 DEF Inquire, Serve, Respond
<1>4. CASE Describe(r)
  <2>1. trusted' \in BOOLEAN /\ (Protected => trusted') /\ told' \in BOOLEAN
    BY <1>4, ServedIsTrusted DEF Describe
  <2> QED
    BY <1>4, <2>1 DEF Describe, Serve, Respond
<1>5. CASE Setup(r)
  <2>1. trusted' \in BOOLEAN /\ (Protected => trusted')
    BY <1>5, ServedIsTrusted DEF Setup
  <2>2. delivery' \in Permitted \cup {NoTransport} /\ reply' \in {"200", "461"}
    BY <1>5, NegotiatedIsPermitted DEF Setup, Respond
  <2> QED
    BY <1>5, <2>1, <2>2 DEF Setup, Serve, Respond
<1>6. CASE Play(r)
  <2>1. trusted' \in BOOLEAN /\ (Protected => trusted')
    BY <1>6, ServedIsTrusted DEF Play
  <2> QED
    BY <1>6, <2>1 DEF Play, Serve, Respond
<1>7. CASE Pause(r)
  <2>1. trusted' \in BOOLEAN /\ (Protected => trusted') /\ ~subscribed' /\ subscribed' \in BOOLEAN
    BY <1>7, ServedIsTrusted DEF Pause
  <2> QED
    BY <1>7, <2>1 DEF Pause, Serve, Respond
<1>8. CASE Teardown(r)
  <2>1. trusted' \in BOOLEAN /\ (Protected => trusted') /\ ~subscribed' /\ subscribed' \in BOOLEAN
    BY <1>8, ServedIsTrusted DEF Teardown, End
  <2> QED
    BY <1>8, <2>1 DEF Teardown, Serve, End
<1>9. CASE OutOfOrder(r)
  <2>1. trusted' \in BOOLEAN /\ (Protected => trusted')
    BY <1>9, ServedIsTrusted DEF OutOfOrder
  <2> QED
    BY <1>9, <2>1 DEF OutOfOrder, Serve, Respond
<1> QED
  BY <1>1, <1>2, <1>3, <1>4, <1>5, <1>6, <1>7, <1>8, <1>9 DEF Handle

\* So does everything the loop does without one.
LEMMA LoopStep ==
  ASSUME SessionInv,
         NoRequest \/ Fail \/ Idle \/ Stream \/ Tick \/ FallSilent \/ UNCHANGED vars
  PROVE  SessionInv'
<1> USE DEF SessionInv, TypeOK, NothingBeforeTrust, streamVars, authVars
<1>1. CASE NoRequest
  BY <1>1 DEF NoRequest
<1>2. CASE Fail
  BY <1>2 DEF Fail, End
<1>3. CASE Idle
  BY <1>3 DEF Idle, End
<1>4. CASE Stream
  BY <1>4 DEF Stream
<1>5. CASE Tick
  <2>1. nonceAge' \in 0 .. NonceTtl + 1 /\ silence' \in 0 .. IdleLimit + 1
    BY <1>5 DEF Tick, Older
  <2> QED
    BY <1>5, <2>1 DEF Tick
<1>6. CASE FallSilent
  BY <1>6 DEF FallSilent
<1>7. CASE UNCHANGED vars
  BY <1>7 DEF vars
<1> QED
  BY <1>1, <1>2, <1>3, <1>4, <1>5, <1>6, <1>7

\* For any credentials, offers and lifetimes: a connection on which no request was
\* authorized has no transport, no subscription, and was told nothing of the stream;
\* a subscription is only held together with a transport.
THEOREM SessionHolds == Spec => []SessionInv
<1>1. Init => SessionInv
  <2>1. 0 \in 0 .. NonceRange - 1 /\ 0 \in 0 .. NonceTtl + 1 /\ 0 \in 0 .. IdleLimit + 1
    OBVIOUS
  <2> QED
    BY <2>1 DEF Init, SessionInv, TypeOK, NothingBeforeTrust, Replies
<1>2. SessionInv /\ [Next]_vars => SessionInv'
  BY HandleStep, LoopStep DEF Next
<1> QED
  BY <1>1, <1>2, PTL DEF Spec
-----------------------------------------------------------------------------
\* The right answer to the newest challenge is refused only because its nonce has
\* expired, and the refusal brings a nonce that has just been issued.
THEOREM RefusalIsFresh == Spec => RefusalBringsFreshNonce
<1> DEFINE Fresh == \A m \in Methods :
                      held # NoNonce /\ Challenge(Answering(m)) =>
                        nonce' # nonce /\ nonceAge' = 0 /\ held' = nonce'
<1>1. ASSUME SessionInv, NEW m \in Methods, held # NoNonce, Challenge(Answering(m))
      PROVE  nonce' # nonce /\ nonceAge' = 0 /\ held' = nonce'
  <2>1. held = nonce /\ nonce \in 0 .. NonceRange - 1 /\ nonceAge \in Nat
    BY <1>1 DEF SessionInv, TypeOK
  <2>2. nonceAge > NonceTtl
    BY <1>1, <2>1 DEF Challenge, Admitted, Authorized, Answering
  <2> QED
    BY <1>1, <2>1, <2>2, NextNonceDiffers DEF Challenge
<1>2. SessionInv /\ [Next]_vars => [Fresh]_vars
  BY <1>1
<1> QED
  BY <1>2, SessionHolds, PTL DEF Spec, RefusalBringsFreshNonce
-----------------------------------------------------------------------------
\* A request that was read while the thread runs: a change of the playback state told
\* with a 200, or an answer that changes nothing.
LEMMA HandleIsPlayback ==
  ASSUME SessionInv, NEW r \in Request, Handle(r)
  PROVE  Playback!Next
<1>1. /\ pc = "control" /\ delivery \in Permitted \cup {NoTransport} /\ subscribed \in BOOLEAN
      /\ subscribed => delivery # NoTransport
  BY DEF SessionInv, TypeOK, Handle, Challenge, Reject, Inquire, Describe, Setup, Play, Pause,
         Teardown, OutOfOrder, Serve, Read
<1>2. ASSUME UNCHANGED <<streamVars, carrier>>, pc' # "ended", reply' \in Replies
      PROVE  Playback!Answer
  BY <1>1, <1>2 DEF Playback!Answer, streamVars
<1> USE DEF Replies, Playback!Next
<1>3. CASE Challenge(r)
  BY <1>1, <1>2, <1>3 DEF Challenge
<1>4. CASE Reject(r)
  <2>1. reply' \in {"404", "454"}
    BY <1>4 DEF Reject
  <2> QED
    BY <1>1, <1>2, <1>4, <2>1 DEF Reject
<1>5. CASE Inquire(r) \/ Describe(r) \/ OutOfOrder(r)
  BY <1>2, <1>5 DEF Inquire, Describe, OutOfOrder, Serve, Respond
<1>6. CASE Setup(r)
  <2>1. PICK busy \in SUBSET Ports :
          LET selected == Negotiated(r.transport, Permitted, busy)
          IN IF selected = NoTransport
               THEN UNCHANGED delivery /\ Respond("461")
               ELSE delivery' = selected /\ Respond("200")
    BY <1>6 DEF Setup
  <2>2. Negotiated(r.transport, Permitted, busy) \in Permitted \cup {NoTransport}
    BY NegotiatedIsPermitted
  <2>3. ~subscribed /\ subscribed' = subscribed /\ carrier' = carrier
    BY <1>6 DEF Setup, Serve
  <2>4. CASE Negotiated(r.transport, Permitted, busy) = NoTransport
    BY <1>2, <2>1, <2>3, <2>4 DEF Respond, streamVars
  <2>5. CASE Negotiated(r.transport, Permitted, busy) # NoTransport
    <3>1. /\ delivery' \in Permitted /\ delivery' # NoTransport
          /\ pc' = "media" /\ reply' = "200"
      BY <2>1, <2>2, <2>5 DEF Respond
    <3>2. Playback!Setup(delivery')
      BY <1>1, <2>3, <3>1 DEF Playback!Setup
    <3> QED
      BY <3>1, <3>2
  <2> QED
    BY <2>4, <2>5
<1>7. CASE Play(r)
  <2>1. /\ delivery # NoTransport /\ delivery' = delivery /\ subscribed'
        /\ carrier' = carrier /\ pc' = "media" /\ reply' = "200"
    BY <1>7 DEF Play, Serve, Respond
  <2>2. CASE subscribed
    BY <1>1, <2>1, <2>2 DEF Playback!Answer
  <2>3. CASE ~subscribed
    BY <1>1, <2>1, <2>3 DEF Playback!Play
  <2> QED
    BY <2>2, <2>3
<1>8. CASE Pause(r)
  <2>1. /\ subscribed /\ delivery' = delivery /\ ~subscribed'
        /\ carrier' = carrier /\ pc' = "media" /\ reply' = "200"
    BY <1>8 DEF Pause, Serve, Respond
  <2> QED
    BY <1>1, <2>1 DEF Playback!Pause
<1>9. CASE Teardown(r)
  <2>1. /\ delivery' = NoTransport /\ carrier' = carrier /\ pc' = "ended" /\ reply' = "200"
    BY <1>9 DEF Teardown, Serve, End
  <2> QED
    BY <1>1, <2>1 DEF Playback!Close
<1> QED
  BY <1>3, <1>4, <1>5, <1>6, <1>7, <1>8, <1>9 DEF Handle

\* Everything else is media on the agreed transport, the end, or a stutter.
LEMMA LoopIsPlayback ==
  ASSUME SessionInv, 
         NoRequest \/ Fail \/ Idle \/ Stream \/ Tick \/ FallSilent \/ UNCHANGED vars
  PROVE  [Playback!Next]_Playback!playbackVars
<1> USE DEF Playback!Next, Playback!playbackVars
<1>1. ASSUME UNCHANGED <<streamVars, reply, carrier>>, pc # "ended", pc' # "ended"
      PROVE  UNCHANGED Playback!playbackVars
  BY <1>1 DEF streamVars
<1>2. ASSUME End, pc # "ended", UNCHANGED <<reply, carrier>>
      PROVE  Playback!Close
  <2>1. reply' \in Replies
    BY <1>2 DEF SessionInv, TypeOK
  <2> QED
    BY <1>2, <2>1 DEF End, Playback!Close
<1>3. CASE NoRequest
  BY <1>1, <1>3 DEF NoRequest
<1>4. CASE Fail
  BY <1>2, <1>4 DEF Fail
<1>5. CASE Idle
  BY <1>1, <1>2, <1>5 DEF Idle
<1>6. CASE Stream
  <2>1. CASE carrier' = delivery
    BY <1>6, <2>1 DEF Stream, streamVars, Playback!Send
  <2>2. CASE UNCHANGED carrier
    BY <1>6, <2>2 DEF Stream, streamVars
  <2> QED
    BY <1>6, <2>1, <2>2 DEF Stream
<1>7. CASE Tick
  BY <1>1, <1>7 DEF Tick
<1>8. CASE FallSilent
  BY <1>1, <1>8 DEF FallSilent
<1>9. CASE UNCHANGED vars
  BY <1>9 DEF vars
<1> QED
  BY <1>3, <1>4, <1>5, <1>6, <1>7, <1>8, <1>9

\* The loop of handle() implements the playback state machine: media flows only while
\* playing, on the transport that was agreed, and whatever changes is told with a 200.
THEOREM ImplementsPlayback == Spec => PlaybackSpec
<1>1. Init => Playback!Init
  BY DEF Init, Playback!Init
<1>2. SessionInv /\ [Next]_vars => [Playback!Next]_Playback!playbackVars
  BY HandleIsPlayback, LoopIsPlayback DEF Next
<1> QED
  BY <1>1, <1>2, SessionHolds, PTL DEF Spec, PlaybackSpec, Playback!Spec
=============================================================================
