----------------------------- MODULE Broadcaster -----------------------------
(***************************************************************************)
(* camrtsp-server's Broadcaster and its Subscriptions.                     *)
(*                                                                         *)
(* One source thread publishes access units and configurations, session    *)
(* threads subscribe, receive and drop.  `Arc<Mutex<BroadcastState>>` is   *)
(* held over the whole of publish() and set_codec_config(); each client's  *)
(* queue has a lock of its own, so recv_timeout() and the drop of a        *)
(* Subscription interleave with a publish() that is half way through its   *)
(* clients.  Publication numbers (pts) and `last` are history variables.   *)
(***************************************************************************)
EXTENDS AccessUnits, FiniteSets

CONSTANTS
  Subs,        \* the viewers that may hold a Subscription
  MaxQueued,   \* MAX_QUEUED_ACCESS_UNITS
  Samples,     \* what the capture pipeline hands over: keyframe flag and NALs
  Accepts      \* answers of the encoder to a forced keyframe

ASSUME MaxQueuedAssumption == MaxQueued \in Nat \ {0}
ASSUME SamplesAssumption ==
  Samples \subseteq [keyframe : BOOLEAN, nals : Seq(NalTypes)]
\* In-band parameter sets come before the picture that needs them.
ASSUME InBandAssumption ==
  \A sample \in Samples : \A i, j \in DOMAIN sample.nals :
    sample.nals[i] \in {"sps", "pps"} /\ sample.nals[j] \in {"idr", "slice"} => i < j
ASSUME AcceptsAssumption == Accepts \subseteq BOOLEAN

VARIABLES
  clients,           \* BroadcastState.clients
  alive,             \* Subscription.alive
  queue,             \* FrameQueue.frames
  waiting,           \* FrameQueue.waiting_for_keyframe
  codec,             \* BroadcastState.codec
  keyframeRequested, \* BroadcastState.keyframe_requested
  holder,            \* who holds the broadcaster lock across several steps
  todo,              \* clients that holder has not visited yet
  unit,              \* the access unit publish() is delivering
  request,           \* publish()'s local request_keyframe
  incoming,          \* the codec set_codec_config() is installing
  pts,               \* number of the newest publication
  encoder,           \* what became of the last request taken from the flag
  last               \* newest unit taken from each Subscription

vars == <<clients, alive, queue, waiting, codec, keyframeRequested, holder, todo,
          unit, request, incoming, pts, encoder, last>>

subscriberVars == <<clients, alive, queue, waiting, last>>
lockVars == <<holder, todo, unit, request, incoming>>

Feed == INSTANCE ViewerFeed
          WITH Viewers <- Subs, open <- {s \in Subs : alive[s]}, last <- last

Init ==
  /\ clients = {}
  /\ alive = [s \in Subs |-> FALSE]
  /\ queue = [s \in Subs |-> <<>>]
  /\ waiting = [s \in Subs |-> TRUE]
  /\ codec = NoCodec
  /\ keyframeRequested = FALSE
  /\ holder = "free"
  /\ todo = {}
  /\ unit = NoUnit
  /\ request = FALSE
  /\ incoming = NoCodec
  /\ pts = 0
  /\ encoder = "idle"
  /\ last = [s \in Subs |-> NoUnit]
-----------------------------------------------------------------------------
(* Session threads. *)

\* Variant: a new viewer does not ask for a keyframe.
SubscribeQuietly(s) ==
  /\ holder = "free"
  /\ ~alive[s]
  /\ clients' = {c \in clients : alive[c]} \cup {s}
  /\ alive' = [alive EXCEPT ![s] = TRUE]
  /\ queue' = [c \in Subs |-> IF alive[c] THEN queue[c] ELSE <<>>]
  /\ waiting' = [c \in Subs |-> alive[c] => waiting[c]]
  /\ UNCHANGED <<last, codec, keyframeRequested, lockVars, pts, encoder>>

\* subscribe(): purge the dead and their queues, ask for a keyframe, join with an
\* empty queue.
Subscribe(s) ==
  /\ holder = "free"
  /\ ~alive[s]
  /\ clients' = {c \in clients : alive[c]} \cup {s}
  /\ alive' = [alive EXCEPT ![s] = TRUE]
  /\ queue' = [c \in Subs |-> IF alive[c] THEN queue[c] ELSE <<>>]
  /\ waiting' = [c \in Subs |-> alive[c] => waiting[c]]
  /\ keyframeRequested' = TRUE
  /\ UNCHANGED <<last, codec, lockVars, pts, encoder>>

\* recv_timeout() with a frame queued; a timeout changes nothing.
Take(s) ==
  /\ alive[s]
  /\ queue[s] # <<>>
  /\ last' = [last EXCEPT ![s] = Head(queue[s])]
  /\ queue' = [queue EXCEPT ![s] = Tail(@)]
  /\ UNCHANGED <<clients, alive, waiting, codec, keyframeRequested, lockVars, pts, encoder>>

\* Drop for Subscription: an atomic store, no lock.
Drop(s) ==
  /\ alive[s]
  /\ alive' = [alive EXCEPT ![s] = FALSE]
  /\ last' = [last EXCEPT ![s] = NoUnit]
  /\ UNCHANGED <<clients, queue, waiting, codec, keyframeRequested, lockVars, pts, encoder>>
-----------------------------------------------------------------------------
(* The source thread. *)

\* publish() sets the keyframe flag of a unit that holds an IDR slice ...
IsKeyframe(sample) == sample.keyframe \/ Has(sample.nals, "idr")

\* Variant: the parameter sets follow the slice they belong to.
ParameterSetsLast(nals) == nals \o <<"sps", "pps">>

\* ... and gives every recovery point the parameter sets it lacks.
WithParameterSets(nals) ==
  LET withPps == IF Has(nals, "pps") THEN nals ELSE <<"pps">> \o nals
  IN  IF Has(withPps, "sps") THEN withPps ELSE <<"sps">> \o withPps

Prepared(sample) ==
  [pts |-> NextPts(pts),
   keyframe |-> IsKeyframe(sample),
   codec |-> codec,
   nals |-> IF IsKeyframe(sample) /\ codec # NoCodec
            THEN WithParameterSets(sample.nals)
            ELSE sample.nals]

\* publish() up to `clients.retain`: the lock is taken, the unit prepared.
Publish(sample) ==
  /\ holder = "free"
  /\ holder' = "publish"
  /\ todo' = clients
  /\ unit' = Prepared(sample)
  /\ request' = FALSE
  /\ pts' = NextPts(pts)
  /\ encoder' = IF IsKeyframe(sample) THEN "idle" ELSE encoder
  /\ UNCHANGED <<subscriberVars, codec, keyframeRequested, incoming>>

\* Variant: the queue is full one frame later.
OverflowingLate(c) == Len(queue[c]) > MaxQueued

\* The queue is full: publish empties it before it goes on.
Overflowing(c) == Len(queue[c]) = MaxQueued

\* Variant: a viewer whose queue overflowed does not wait for a keyframe.
WaitingDespiteOverflow(c) == waiting[c] /\ ~unit.keyframe

\* Overflow makes a client wait, a keyframe ends the wait.
StillWaiting(c) == (waiting[c] \/ Overflowing(c)) /\ ~unit.keyframe

\* The retain closure for a client whose viewer is still there.
Deliver(c) ==
  /\ holder = "publish" /\ c \in todo /\ alive[c]
  /\ todo' = todo \ {c}
  /\ request' = (request \/ Overflowing(c))
  /\ waiting' = [waiting EXCEPT ![c] = StillWaiting(c)]
  /\ \E kept \in {IF Overflowing(c) THEN <<>> ELSE queue[c]} :
       queue' = [queue EXCEPT ![c] = IF waiting'[c] THEN kept ELSE Append(kept, unit)]
  /\ UNCHANGED <<clients, alive, codec, keyframeRequested, holder, unit, incoming,
                 pts, encoder, last>>

\* Variant: a viewer whose queue overflows is removed.
EvictSlow(c) ==
  /\ holder = "publish" /\ c \in todo /\ (~alive[c] \/ Overflowing(c))
  /\ todo' = todo \ {c}
  /\ clients' = clients \ {c}
  /\ queue' = [queue EXCEPT ![c] = <<>>]
  /\ waiting' = [waiting EXCEPT ![c] = TRUE]
  /\ UNCHANGED <<alive, codec, keyframeRequested, holder, unit, request,
                 incoming, pts, encoder, last>>

\* The retain closure for a client whose Subscription was dropped: the queue goes
\* with it.
Evict(c) ==
  /\ holder = "publish" /\ c \in todo /\ ~alive[c]
  /\ todo' = todo \ {c}
  /\ clients' = clients \ {c}
  /\ queue' = [queue EXCEPT ![c] = <<>>]
  /\ waiting' = [waiting EXCEPT ![c] = TRUE]
  /\ UNCHANGED <<alive, codec, keyframeRequested, holder, unit, request,
                 incoming, pts, encoder, last>>

\* Variant: publish sets the request flag to its own finding.
PublishOverwritesRequest ==
  /\ holder = "publish" /\ todo = {}
  /\ keyframeRequested' = request
  /\ holder' = "free"
  /\ unit' = NoUnit
  /\ request' = FALSE
  /\ UNCHANGED <<subscriberVars, codec, todo, incoming, pts, encoder>>

PublishDone ==
  /\ holder = "publish" /\ todo = {}
  /\ keyframeRequested' = (keyframeRequested \/ request)
  /\ holder' = "free"
  /\ unit' = NoUnit
  /\ request' = FALSE
  /\ UNCHANGED <<subscriberVars, codec, todo, incoming, pts, encoder>>

\* set_codec_config() with the first or the same configuration.
SetCodecConfig(new) ==
  /\ holder = "free"
  /\ codec \in {NoCodec, new}
  /\ codec' = new
  /\ UNCHANGED <<subscriberVars, keyframeRequested, lockVars, pts, encoder>>

\* set_codec_config() with other parameter sets: every client starts over.
ChangeCodecConfig(new) ==
  /\ holder = "free"
  /\ codec # NoCodec
  /\ codec.sps # new.sps \/ codec.pps # new.pps
  /\ holder' = "config"
  /\ todo' = clients
  /\ incoming' = new
  /\ UNCHANGED <<subscriberVars, codec, keyframeRequested, unit, request, pts, encoder>>

\* Variant: a change of codec keeps the queued frames.
ClearClientKeepsFrames(c) ==
  /\ holder = "config" /\ c \in todo
  /\ todo' = todo \ {c}
  /\ waiting' = [waiting EXCEPT ![c] = TRUE]
  /\ UNCHANGED <<clients, alive, queue, codec, keyframeRequested, holder, unit, request,
                 incoming, pts, encoder, last>>

ClearClient(c) ==
  /\ holder = "config" /\ c \in todo
  /\ todo' = todo \ {c}
  /\ queue' = [queue EXCEPT ![c] = <<>>]
  /\ waiting' = [waiting EXCEPT ![c] = TRUE]
  /\ UNCHANGED <<clients, alive, codec, keyframeRequested, holder, unit, request,
                 incoming, pts, encoder, last>>

ConfigDone ==
  /\ holder = "config" /\ todo = {}
  /\ keyframeRequested' = TRUE
  /\ codec' = incoming
  /\ incoming' = NoCodec
  /\ holder' = "free"
  /\ UNCHANGED <<subscriberVars, todo, unit, request, pts, encoder>>

\* take_keyframe_request() by the capture loop, which passes a raised flag on
\* to the encoder; an encoder that refuses leaves the request unanswered
\* until its next keyframe of its own accord.
TakeKeyframeRequest(accepted) ==
  /\ holder = "free"
  /\ keyframeRequested
  /\ keyframeRequested' = FALSE
  /\ encoder' = IF accepted THEN "forced" ELSE IF encoder = "idle" THEN "refused" ELSE encoder
  /\ UNCHANGED <<subscriberVars, codec, lockVars, pts>>
-----------------------------------------------------------------------------
Next ==
  \/ \E s \in Subs : Subscribe(s) \/ Take(s) \/ Drop(s)
  \/ \E sample \in Samples : Publish(sample)
  \/ \E c \in Subs : Deliver(c) \/ Evict(c) \/ ClearClient(c)
  \/ PublishDone
  \/ \E new \in Codec : SetCodecConfig(new) \/ ChangeCodecConfig(new)
  \/ ConfigDone
  \/ \E accepted \in Accepts : TakeKeyframeRequest(accepted)

Spec == Init /\ [][Next]_vars

\* What the threads of a healthy source do: a critical section that was entered
\* is left, the capture loop polls the flag on every pass, and an encoder that
\* accepted a forced keyframe delivers one.  Nothing is assumed of viewers.
Fairness ==
  /\ \A c \in Subs : WF_vars(Deliver(c)) /\ WF_vars(Evict(c)) /\ WF_vars(ClearClient(c))
  /\ WF_vars(PublishDone)
  /\ WF_vars(ConfigDone)
  /\ SF_vars(\E accepted \in Accepts : TakeKeyframeRequest(accepted))
  /\ SF_vars(encoder = "forced" /\ \E sample \in Samples : IsKeyframe(sample) /\ Publish(sample))

FairSpec == Spec /\ Fairness
-----------------------------------------------------------------------------
\* Every variable keeps its type; no queue outgrows MAX_QUEUED_ACCESS_UNITS,
\* and a lock phase has the data it needs.
TypeOK ==
  /\ clients \subseteq Subs
  /\ alive \in [Subs -> BOOLEAN]
  /\ queue \in [Subs -> Seq(Unit)]
  /\ \A s \in Subs : Len(queue[s]) <= MaxQueued
  /\ waiting \in [Subs -> BOOLEAN]
  /\ codec \in Codec \cup {NoCodec}
  /\ keyframeRequested \in BOOLEAN
  /\ holder \in {"free", "publish", "config"}
  /\ todo \subseteq clients
  /\ holder = "free" => todo = {}
  /\ IF holder = "publish" THEN unit \in Unit ELSE unit = NoUnit
  /\ request \in BOOLEAN
  /\ holder # "publish" => ~request
  /\ IF holder = "config" THEN incoming \in Codec ELSE incoming = NoCodec
  /\ pts \in 0 .. PtsRange - 1
  /\ encoder \in {"idle", "forced", "refused"}
  /\ last \in [Subs -> Unit \cup {NoUnit}]

\* The unit that comes before the i-th one in s's queue.
Before(s, i) == IF i = 1 THEN last[s] ELSE queue[s][i - 1]

\* Overflow, a late join and a change of parameter sets discard units, never
\* the references of a unit that is kept: whatever a viewer takes next, in
\* queue order, it can decode (publish, set_codec_config, recv_timeout).
DecodeChain ==
  \A s \in Subs : alive[s] =>
    \A i \in 1 .. Len(queue[s]) : Decodable(Before(s, i), queue[s][i])

\* A unit waiting in a queue was never published under parameter sets other than
\* the current ones: set_codec_config installs the new ones only when every queue
\* is free of the old, however the takes, drops and joins of viewers fall.
QueuesMatchCodec ==
  \A s \in Subs : \A i \in 1 .. Len(queue[s]) : queue[s][i].codec \in {NoCodec, codec}

\* A keyframe is owed to s: requested and not answered, or being delivered.
KeyframeOwed(s) ==
  \/ keyframeRequested
  \/ encoder # "idle"
  \/ request
  \/ holder = "config"
  \/ holder = "publish" /\ s \in todo /\ unit.keyframe

\* No viewer is left waiting for a keyframe that nobody has been asked for,
\* although the flag is shared by all viewers and is cleared when it is taken
\* (subscribe, publish, set_codec_config, take_keyframe_request).
WaitingIsOwedAKeyframe ==
  \A s \in Subs : alive[s] /\ waiting[s] => KeyframeOwed(s)

\* A viewer that has not dropped its Subscription is a client: the retain() of
\* subscribe and of publish remove the dead only, so the viewers that stats
\* counts are exactly the live Subscriptions.
ViewersAreClients == \A s \in Subs : alive[s] => s \in clients

\* What the broadcaster's books rest on, whatever the interleaving: the types with the
\* queue limit, and purges that spare the living.
BroadcasterInv == TypeOK /\ ViewersAreClients

(* What makes DecodeChain inductive. *)

\* The newest unit s has been given, taken or still queued.
Newest(s) == IF queue[s] = <<>> THEN last[s] ELSE queue[s][Len(queue[s])]

\* A viewer that is not waiting has been given the newest publication, or the
\* one before it while publish() has not come to it, under the current codec.
NewestIsCurrent ==
  \A s \in Subs : alive[s] /\ ~waiting[s] =>
    /\ Newest(s) # NoUnit
    /\ Newest(s).codec \in {NoCodec, codec}
    /\ IF holder = "publish" /\ s \in todo
         THEN pts = NextPts(Newest(s).pts)
         ELSE pts = Newest(s).pts

\* The unit in delivery is the newest publication; as a keyframe it is complete.
UnitIsCurrent ==
  holder = "publish" =>
    /\ unit.pts = pts
    /\ unit.codec = codec
    /\ unit.keyframe => RecoveryPoint(unit)

\* What set_codec_config() has visited starts over.
VisitedStartOver ==
  holder = "config" => \A s \in clients \ todo : queue[s] = <<>> /\ waiting[s]

\* The queue of a client that was removed is gone.
NoOrphanQueue == \A s \in Subs \ clients : queue[s] = <<>>

IInv ==
  /\ TypeOK
  /\ DecodeChain
  /\ QueuesMatchCodec
  /\ WaitingIsOwedAKeyframe
  /\ ViewersAreClients
  /\ NewestIsCurrent
  /\ UnitIsCurrent
  /\ VisitedStartOver
  /\ NoOrphanQueue

\* The broadcaster implements the abstract viewer feed: each Take is a unit the
\* viewer can decode, and nothing but a Take reaches the viewer.
FeedSpec == Feed!Spec

\* A waiting viewer is given a keyframe or leaves, when the source honours
\* forced keyframes.
WaitingEnds == \A s \in Subs : waiting[s] /\ alive[s] ~> ~waiting[s] \/ ~alive[s]
=============================================================================
