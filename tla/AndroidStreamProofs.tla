------------------------- MODULE AndroidStreamProofs -------------------------
(***************************************************************************)
(* The invariants of the Android application's stream, for any number of   *)
(* retries and any bound on the worker's queue.                            *)
(***************************************************************************)
EXTENDS AndroidStream, FiniteSetTheorems, FunctionTheorems, SequenceTheorems, TLAPS

USE BoundsAssumption
-----------------------------------------------------------------------------
(* Messages in a queue. *)

Queued(what, seq) == \E i \in DOMAIN seq : seq[i] = what
Once(what, seq) == \A i, j \in DOMAIN seq : seq[i] = what /\ seq[j] = what => i = j

LEMMA NothingQueued ==
  ASSUME NEW seq, seq = <<>>, NEW what
  PROVE  ~Queued(what, seq) /\ Once(what, seq)
<1>1. DOMAIN seq = {}
  OBVIOUS
<1> QED
  BY <1>1 DEF Queued, Once

LEMMA Appended ==
  ASSUME NEW S, NEW seq \in Seq(S), NEW e \in S
  PROVE  /\ Append(seq, e) \in Seq(S) /\ Len(Append(seq, e)) = Len(seq) + 1
         /\ \A what : Queued(what, Append(seq, e)) <=> Queued(what, seq) \/ e = what
         /\ \A what : Once(what, seq) /\ (Queued(what, seq) => e # what) =>
                        Once(what, Append(seq, e))
<1> DEFINE longer == Append(seq, e)
<1>1. /\ longer \in Seq(S) /\ Len(longer) = Len(seq) + 1
      /\ \A i \in 1 .. Len(seq) : longer[i] = seq[i]
      /\ longer[Len(seq) + 1] = e
  BY AppendProperties
<1>2. /\ DOMAIN seq = 1 .. Len(seq) /\ Len(seq) \in Nat
      /\ DOMAIN longer = 1 .. Len(seq) + 1
  BY <1>1, LenProperties
<1> HIDE DEF longer
<1>3. ASSUME NEW what
      PROVE  Queued(what, longer) <=> Queued(what, seq) \/ e = what
  BY <1>1, <1>2 DEF Queued
<1>4. ASSUME NEW what, Once(what, seq), Queued(what, seq) => e # what
      PROVE  Once(what, longer)
  <2> SUFFICES ASSUME NEW i \in DOMAIN longer, NEW j \in DOMAIN longer,
                      longer[i] = what, longer[j] = what
               PROVE  i = j
    BY DEF Once
  <2>1. CASE i \in DOMAIN seq /\ j \in DOMAIN seq
    BY <1>1, <1>2, <1>4, <2>1 DEF Once
  <2>2. CASE i \notin DOMAIN seq
    <3>1. i = Len(seq) + 1 /\ e = what
      BY <1>1, <1>2, <2>2
    <3>2. j \notin DOMAIN seq
      BY <1>1, <1>2, <1>4, <3>1 DEF Queued
    <3> QED
      BY <1>2, <3>1, <3>2
  <2>3. CASE j \notin DOMAIN seq
    <3>1. j = Len(seq) + 1 /\ e = what
      BY <1>1, <1>2, <2>3
    <3>2. i \notin DOMAIN seq
      BY <1>1, <1>2, <1>4, <3>1 DEF Queued
    <3> QED
      BY <1>2, <3>1, <3>2
  <2> QED
    BY <2>1, <2>2, <2>3
<1> QED
  BY <1>1, <1>3, <1>4 DEF longer

LEMMA Shifted ==
  ASSUME NEW S, NEW seq \in Seq(S), seq # <<>>
  PROVE  /\ Tail(seq) \in Seq(S) /\ Head(seq) \in S
         /\ \A what : Queued(what, Tail(seq)) => Queued(what, seq)
         /\ \A what : Queued(what, seq) => Queued(what, Tail(seq)) \/ Head(seq) = what
         /\ Queued(Head(seq), seq)
         /\ \A what : Once(what, seq) => /\ Once(what, Tail(seq))
                                         /\ Queued(what, Tail(seq)) => Head(seq) # what
<1> DEFINE rest == Tail(seq)
<1>1. DOMAIN seq = 1 .. Len(seq) /\ Len(seq) \in Nat \ {0}
  BY LenProperties, EmptySeq
<1>2. /\ rest \in Seq(S) /\ Len(rest) = Len(seq) - 1
      /\ \A i \in 1 .. Len(seq) - 1 : rest[i] = seq[i + 1]
      /\ Head(seq) = seq[1] /\ Head(seq) \in S
  BY <1>1, HeadTailProperties
<1>3. DOMAIN rest = 1 .. Len(seq) - 1
  BY <1>2, LenProperties
<1> HIDE DEF rest
<1>4. ASSUME NEW i \in DOMAIN rest
      PROVE  i + 1 \in DOMAIN seq /\ i + 1 # 1 /\ rest[i] = seq[i + 1]
  BY <1>1, <1>2, <1>3
<1>5. ASSUME NEW what, Queued(what, rest) PROVE Queued(what, seq)
  BY <1>4, <1>5 DEF Queued
<1>6. ASSUME NEW what, Queued(what, seq), Head(seq) # what PROVE Queued(what, rest)
  <2>1. PICK i \in DOMAIN seq : seq[i] = what
    BY <1>6 DEF Queued
  <2>2. i # 1
    BY <1>2, <1>6, <2>1
  <2>3. i - 1 \in DOMAIN rest /\ (i - 1) + 1 = i
    BY <1>1, <1>3, <2>2
  <2>4. rest[i - 1] = what
    BY <1>4, <2>1, <2>3
  <2> QED
    BY <2>3, <2>4 DEF Queued
<1>7. Queued(Head(seq), seq)
  BY <1>1, <1>2 DEF Queued
<1>8. ASSUME NEW what, Once(what, seq)
      PROVE  Once(what, rest) /\ (Queued(what, rest) => Head(seq) # what)
  <2>1. ASSUME NEW i \in DOMAIN rest, NEW j \in DOMAIN rest, rest[i] = what, rest[j] = what
        PROVE  i = j
    <3>1. i + 1 = j + 1
      BY <1>4, <1>8, <2>1 DEF Once
    <3> QED
      BY <1>3, <3>1
  <2>2. ASSUME NEW i \in DOMAIN rest, rest[i] = what PROVE Head(seq) # what
    BY <1>1, <1>2, <1>4, <1>8, <2>2 DEF Once
  <2> QED
    BY <2>1, <2>2 DEF Once, Queued
<1> QED
  BY <1>2, <1>5, <1>6, <1>7, <1>8 DEF rest

\* The elements of a finite set of indices are its first, its second, and so on: counting
\* those up to an element is injective, so it reaches every number up to the cardinality.
LEMMA Ranked ==
  ASSUME NEW n \in Nat, NEW kept \in SUBSET (1..n), NEW k \in 1..Cardinality(kept)
  PROVE  \E i \in kept : Cardinality(kept \cap 1..i) = k
<1> DEFINE UpTo(i) == kept \cap 1..i
           rank == [i \in kept |-> Cardinality(UpTo(i))]
<1>1. IsFiniteSet(kept) /\ Cardinality(kept) \in Nat
  <2>1. IsFiniteSet(1..n)
    BY FS_Interval
  <2> QED
    BY <2>1, FS_Subset, FS_CardinalityType
<1>2. ASSUME NEW i \in kept
      PROVE  IsFiniteSet(UpTo(i)) /\ Cardinality(UpTo(i)) \in 1..Cardinality(kept)
  <2>1. UpTo(i) \in SUBSET kept /\ i \in UpTo(i)
    OBVIOUS
  <2> HIDE DEF UpTo
  <2>2. IsFiniteSet(UpTo(i)) /\ Cardinality(UpTo(i)) <= Cardinality(kept)
    BY <1>1, <2>1, FS_Subset
  <2>3. Cardinality(UpTo(i)) \in Nat /\ Cardinality(UpTo(i)) # 0
    BY <2>1, <2>2, FS_CardinalityType, FS_EmptySet
  <2> QED
    BY <1>1, <2>2, <2>3
<1>3. ASSUME NEW i \in kept, NEW j \in kept, i < j
      PROVE  Cardinality(UpTo(i)) # Cardinality(UpTo(j))
  <2>1. UpTo(i) \in SUBSET UpTo(j) /\ UpTo(i) # UpTo(j)
    <3>1. i \in Nat /\ j \in Nat
      OBVIOUS
    <3>2. j \in UpTo(j) /\ j \notin UpTo(i)
      BY <1>3, <3>1
    <3>3. 1..i \subseteq 1..j
      BY <1>3, <3>1
    <3> QED
      BY <3>2, <3>3
  <2> HIDE DEF UpTo
  <2> QED
    BY <1>2, <2>1, FS_Subset
<1>4. rank \in Injection(kept, 1..Cardinality(kept))
  <2>1. rank \in [kept -> 1..Cardinality(kept)]
    BY <1>2
  <2>2. ASSUME NEW i \in kept, NEW j \in kept, rank[i] = rank[j] PROVE i = j
    <3>1. Cardinality(UpTo(i)) = Cardinality(UpTo(j))
      BY <2>2
    <3>2. ~(i < j) /\ ~(j < i)
      BY <1>3, <3>1
    <3> QED
      BY <3>2
  <2> HIDE DEF rank
  <2> QED
    BY <2>1, <2>2, Fun_IsInj
<1>5. /\ IsFiniteSet(1..Cardinality(kept))
      /\ Cardinality(1..Cardinality(kept)) = Cardinality(kept)
  BY <1>1, FS_Interval
<1>6. rank \in Surjection(kept, 1..Cardinality(kept))
  BY <1>4, <1>5, FS_Injection
<1>7. PICK i \in kept : rank[i] = k
  BY <1>6 DEF Surjection
<1> QED
  BY <1>7

\* removeCallbacks(poll) leaves messages of the queue, and no poll.
LEMMA Unpolled ==
  ASSUME NEW S, NEW seq \in Seq(S)
  PROVE  /\ WithoutPolls(seq) \in Seq(S)
         /\ \A what : Queued(what, WithoutPolls(seq)) => Queued(what, seq) /\ what # "poll"
<1> DEFINE kept == {i \in DOMAIN seq : seq[i] # "poll"}
           Nth(k) == CHOOSE i \in kept : Cardinality(kept \cap 1..i) = k
           size == Cardinality(kept)
           rest == [k \in 1..size |-> seq[Nth(k)]]
<1>1. DOMAIN seq = 1..Len(seq) /\ Len(seq) \in Nat
  BY LenProperties
<1>2. kept \in SUBSET (1..Len(seq)) /\ size \in Nat
  <2>1. kept \in SUBSET (1..Len(seq))
    BY <1>1
  <2>2. IsFiniteSet(1..Len(seq))
    BY <1>1, FS_Interval
  <2> HIDE DEF kept
  <2> QED
    BY <2>1, <2>2, FS_Subset, FS_CardinalityType
<1>3. \A k \in 1..size : Nth(k) \in kept
  BY <1>1, <1>2, Ranked
<1>4. \A i \in kept : seq[i] \in S /\ seq[i] # "poll" /\ i \in DOMAIN seq
  BY <1>1, ElementOfSeq
<1>5. WithoutPolls(seq) = rest
  BY DEF WithoutPolls
<1> HIDE DEF kept, Nth
<1>6. rest \in [1..size -> S]
  BY <1>3, <1>4
<1>7. rest \in Seq(S)
  BY <1>2, <1>6, SeqDef
<1>8. DOMAIN rest = 1..size
  OBVIOUS
<1>9. ASSUME NEW what, Queued(what, rest) PROVE Queued(what, seq) /\ what # "poll"
  <2>1. PICK k \in 1..size : rest[k] = what
    BY <1>9, <1>8 DEF Queued
  <2>2. seq[Nth(k)] = what
    BY <2>1
  <2> QED
    BY <1>3, <1>4, <2>2 DEF Queued
<1> QED
  BY <1>5, <1>7, <1>9

Messages == {"start", "poll", "error", "stale", "retry", "destroy"}

\* A new generation makes stale what the old one has posted, and changes nothing else.
LEMMA OutdatedKeeps ==
  ASSUME NEW seq \in Seq(Messages)
  PROVE  /\ Outdated(seq) \in Seq(Messages)
         /\ ~Queued("error", Outdated(seq))
         /\ \A what \in {"start", "poll", "retry", "destroy"} :
              /\ Queued(what, Outdated(seq)) <=> Queued(what, seq)
              /\ Once(what, seq) => Once(what, Outdated(seq))
<1>1. DOMAIN seq = 1..Len(seq) /\ Len(seq) \in Nat /\ \A i \in 1..Len(seq) : seq[i] \in Messages
  BY LenProperties, ElementOfSeq
<1>2. /\ DOMAIN Outdated(seq) = DOMAIN seq
      /\ \A i \in DOMAIN seq : Outdated(seq)[i] = IF seq[i] = "error" THEN "stale" ELSE seq[i]
  BY DEF Outdated
<1>3. Outdated(seq) \in [1..Len(seq) -> Messages]
  BY <1>1 DEF Outdated, Messages
<1>4. Outdated(seq) \in Seq(Messages)
  BY <1>1, <1>3, SeqDef
<1> QED
  BY <1>2, <1>4 DEF Queued, Once
-----------------------------------------------------------------------------
(* The inductive invariant of the service. *)

Typed ==
  /\ destroyed \in BOOLEAN /\ stopSelf \in BOOLEAN
  /\ worker \in {"idle", "attempt", "recover", "release", "finish", "gone"}
  /\ queue \in Seq(Messages)
  /\ pollDelayed \in BOOLEAN /\ retriesDelayed \in 0..1
  /\ wanted \in BOOLEAN /\ retries \in 0..MaxRetries
  /\ handle \in BOOLEAN /\ encoder \in BOOLEAN /\ lock \in BOOLEAN /\ active \in BOOLEAN

PollPending == pollDelayed \/ Queued("poll", queue)
RetryPending == retriesDelayed # 0 \/ Queued("retry", queue)
Held == handle \/ encoder \/ lock

\* One poll and one retry, queued or delayed.
OnePoll == Once("poll", queue) /\ ~(pollDelayed /\ Queued("poll", queue))
OneRetry == Once("retry", queue) /\ ~(retriesDelayed # 0 /\ Queued("retry", queue))

\* A poll watches a server; a retry waits only while nothing is held or under way.
PollMeansServer == PollPending => handle
RetryMeansFree == RetryPending => wanted /\ worker = "idle" /\ ~Held

\* An attempt finds nothing held, nor does a service whose stream is not wanted.
AttemptIsFree == worker = "attempt" => ~Held
UnwantedIsFree == ~wanted => ~Held /\ worker \in {"idle", "gone"}

\* Server and encoder come and go together, and an error of the present generation comes
\* from the present encoder.
ServerHasEncoder == handle = encoder
ErrorIsCurrent == Queued("error", queue) => encoder

\* The thread quits in the clean-up that onDestroy has posted.
DestroyIsAnnounced == Queued("destroy", queue) \/ worker = "gone" => destroyed
GoneIsUnwanted == worker = "gone" => ~wanted

\* WantedIsWatched without its counts.
Watched ==
  worker = "idle" /\ wanted /\ ~destroyed => IF handle THEN PollPending ELSE RetryPending

Control ==
  /\ OnePoll /\ OneRetry /\ PollMeansServer /\ RetryMeansFree
  /\ AttemptIsFree /\ UnwantedIsFree /\ ServerHasEncoder /\ ErrorIsCurrent
  /\ DestroyIsAnnounced /\ GoneIsUnwanted /\ Watched

Counted == servers = Number(handle) /\ encoders = Number(encoder) /\ locks = Number(lock)

ServiceInv == Typed /\ Control /\ Counted
-----------------------------------------------------------------------------
(* The steps of the service. *)

\* A message is appended by the main thread, the encoder, or a delay that has elapsed.
LEMMA PostStep ==
  ASSUME Typed, Control,
         OnStartCommand \/ OnDestroy \/ OnError \/ PollDue \/ RetryDue
  PROVE  Typed' /\ Control'
<1> USE DEF serviceVars, messageVars, resourceVars, Typed, Control, OnePoll, OneRetry,
            PollMeansServer, RetryMeansFree, AttemptIsFree, UnwantedIsFree, ServerHasEncoder,
            ErrorIsCurrent, DestroyIsAnnounced, GoneIsUnwanted, Watched, PollPending,
            RetryPending, Held
<1>1. ASSUME NEW e \in Messages
      PROVE  /\ Append(queue, e) \in Seq(Messages)
             /\ \A what : Queued(what, Append(queue, e)) <=> Queued(what, queue) \/ e = what
             /\ \A what : Once(what, queue) /\ (Queued(what, queue) => e # what) =>
                            Once(what, Append(queue, e))
  BY Appended
<1>2. CASE OnStartCommand
  <2>1. queue' = Append(queue, "start") /\ "start" \in Messages
    BY <1>2 DEF OnStartCommand, Messages
  <2> QED
    BY <1>1, <1>2, <2>1 DEF OnStartCommand
<1>3. CASE OnDestroy
  <2>1. queue' = Append(queue, "destroy") /\ "destroy" \in Messages
    BY <1>3 DEF OnDestroy, Messages
  <2> QED
    BY <1>1, <1>3, <2>1 DEF OnDestroy
<1>4. CASE OnError
  <2>1. queue' = Append(queue, "error") /\ "error" \in Messages
    BY <1>4 DEF OnError, Messages
  <2> QED
    BY <1>1, <1>4, <2>1 DEF OnError
<1>5. CASE PollDue
  <2>1. queue' = Append(queue, "poll") /\ "poll" \in Messages
    BY <1>5 DEF PollDue, Messages
  <2> QED
    BY <1>1, <1>5, <2>1 DEF PollDue
<1>6. CASE RetryDue
  <2>1. queue' = Append(queue, "retry") /\ "retry" \in Messages
    BY <1>6 DEF RetryDue, Messages
  <2> QED
    BY <1>1, <1>6, <2>1 DEF RetryDue
<1> QED
  BY <1>2, <1>3, <1>4, <1>5, <1>6

\* The worker takes a message from its queue.
LEMMA MessageStep ==
  ASSUME Typed, Control,
         \/ HandleStart \/ HandleRetry \/ HandleError
         \/ PollIsOff \/ PollFails \/ PollStream \/ PollHealthy
  PROVE  Typed' /\ Control'
<1> USE DEF serviceVars, messageVars, resourceVars, Typed, Control, OnePoll, OneRetry,
            PollMeansServer, RetryMeansFree, AttemptIsFree, UnwantedIsFree, ServerHasEncoder,
            ErrorIsCurrent, DestroyIsAnnounced, GoneIsUnwanted, Watched, PollPending,
            RetryPending, Held
<1>1. ASSUME queue # <<>>
      PROVE  /\ Tail(queue) \in Seq(Messages)
             /\ \A what : Queued(what, Tail(queue)) => Queued(what, queue)
             /\ \A what : Queued(what, queue) => Queued(what, Tail(queue)) \/ Head(queue) = what
             /\ Queued(Head(queue), queue)
             /\ \A what : Once(what, queue) => /\ Once(what, Tail(queue))
                                               /\ Queued(what, Tail(queue)) => Head(queue) # what
  BY <1>1, Shifted
<1>2. 0 \in 0..MaxRetries
  OBVIOUS
<1>3. CASE HandleStart
  <2>1. queue # <<>> /\ queue' = Tail(queue)
    BY <1>3 DEF HandleStart, Message, Then
  <2> QED
    BY <1>1, <1>2, <1>3, <2>1 DEF HandleStart, Message, Then
<1>4. CASE HandleRetry
  <2>1. queue # <<>> /\ queue' = Tail(queue)
    BY <1>4 DEF HandleRetry, Message, Then
  <2> QED
    BY <1>1, <1>4, <2>1 DEF HandleRetry, Message, Then
<1>5. CASE HandleError
  <2>1. queue # <<>> /\ queue' = Tail(queue)
    BY <1>5 DEF HandleError, Then
  <2> QED
    BY <1>1, <1>5, <2>1 DEF HandleError, Then
<1>6. CASE PollIsOff
  <2>1. queue # <<>> /\ queue' = Tail(queue)
    BY <1>6 DEF PollIsOff, Message, Then
  <2> QED
    BY <1>1, <1>6, <2>1 DEF PollIsOff, Message, Then
<1>7. CASE PollFails
  <2>1. queue # <<>> /\ queue' = Tail(queue)
    BY <1>7 DEF PollFails, PollIsOn, Message, Then
  <2> QED
    BY <1>1, <1>7, <2>1 DEF PollFails, PollIsOn, Message, Then
<1>8. CASE PollStream
  <2>1. queue # <<>> /\ queue' = Tail(queue)
    BY <1>8 DEF PollStream, PollAgain, PollIsOn, Message
  <2> QED
    BY <1>1, <1>8, <2>1 DEF PollStream, PollAgain, PollIsOn, Message
<1>9. CASE PollHealthy
  <2>1. queue # <<>> /\ queue' = Tail(queue)
    BY <1>9 DEF PollHealthy, PollAgain, PollIsOn, Message
  <2> QED
    BY <1>1, <1>2, <1>9, <2>1 DEF PollHealthy, PollAgain, PollIsOn, Message
<1> QED
  BY <1>3, <1>4, <1>5, <1>6, <1>7, <1>8, <1>9

\* Steps that leave the queue alone.
LEMMA PlainStep ==
  ASSUME Typed, Control,
         AskToStop \/ ServerStops \/ AttemptIsOff \/ RecoveryIsOff \/ BeginRecovery
  PROVE  Typed' /\ Control'
<1> USE DEF serviceVars, messageVars, resourceVars, Typed, Control, OnePoll, OneRetry,
            PollMeansServer, RetryMeansFree, AttemptIsFree, UnwantedIsFree, ServerHasEncoder,
            ErrorIsCurrent, DestroyIsAnnounced, GoneIsUnwanted, Watched, PollPending,
            RetryPending, Held
<1>1. CASE AskToStop
  BY <1>1 DEF AskToStop
<1>2. CASE ServerStops
  BY <1>2 DEF ServerStops
<1>3. CASE AttemptIsOff
  BY <1>3 DEF AttemptIsOff
<1>4. CASE RecoveryIsOff
  BY <1>4 DEF RecoveryIsOff
<1>5. CASE BeginRecovery
  BY <1>5 DEF BeginRecovery
<1> QED
  BY <1>1, <1>2, <1>3, <1>4, <1>5

\* An attempt fails or succeeds: a new generation.
LEMMA AttemptStep ==
  ASSUME Typed, Control, AttemptFails \/ AttemptSucceeds
  PROVE  Typed' /\ Control'
<1> USE DEF serviceVars, messageVars, resourceVars, Typed, Control, OnePoll, OneRetry,
            PollMeansServer, RetryMeansFree, AttemptIsFree, UnwantedIsFree, ServerHasEncoder,
            ErrorIsCurrent, DestroyIsAnnounced, GoneIsUnwanted, Watched, PollPending,
            RetryPending, Held
<1>1. /\ Outdated(queue) \in Seq(Messages)
      /\ ~Queued("error", Outdated(queue))
      /\ \A what \in {"start", "poll", "retry", "destroy"} :
           /\ Queued(what, Outdated(queue)) <=> Queued(what, queue)
           /\ Once(what, queue) => Once(what, Outdated(queue))
  BY OutdatedKeeps
<1>2. CASE AttemptFails
  BY <1>1, <1>2 DEF AttemptFails
<1>3. CASE AttemptSucceeds
  <2>1. queue' = Append(Outdated(queue), "poll") /\ "poll" \in Messages
    BY <1>3 DEF AttemptSucceeds, Messages
  <2>2. /\ queue' \in Seq(Messages)
        /\ \A what : Queued(what, queue') <=> Queued(what, Outdated(queue)) \/ "poll" = what
        /\ \A what : Once(what, Outdated(queue))
                       /\ (Queued(what, Outdated(queue)) => "poll" # what) => Once(what, queue')
    BY <1>1, <2>1, Appended
  <2> HIDE DEF Messages
  <2> QED
    BY <1>1, <1>3, <2>2 DEF AttemptSucceeds, CreateServer
<1> QED
  BY <1>2, <1>3

\* releaseStream leaves no poll, no error of the present generation and nothing held.
LEMMA Released ==
  ASSUME NEW messages \in Seq(Messages), Release(messages)
  PROVE  /\ queue' \in Seq(Messages) /\ pollDelayed' = FALSE
         /\ ~Queued("error", queue') /\ ~Queued("poll", queue')
         /\ Queued("retry", queue') => Queued("retry", messages)
         /\ Queued("destroy", queue') => Queued("destroy", messages)
         /\ handle' = FALSE /\ encoder' = FALSE /\ lock' = FALSE /\ active' = FALSE
<1>1. /\ WithoutPolls(messages) \in Seq(Messages)
      /\ \A what : Queued(what, WithoutPolls(messages)) => Queued(what, messages) /\ what # "poll"
  BY Unpolled
<1>2. queue' = Outdated(WithoutPolls(messages))
  BY DEF Release
<1>3. /\ queue' \in Seq(Messages) /\ ~Queued("error", queue')
      /\ \A what \in {"start", "poll", "retry", "destroy"} :
           Queued(what, queue') <=> Queued(what, WithoutPolls(messages))
  BY <1>1, <1>2, OutdatedKeeps
<1>4. /\ pollDelayed' = FALSE /\ handle' = FALSE /\ encoder' = FALSE
      /\ lock' = FALSE /\ active' = FALSE
  BY DEF Release, StopServer
<1> QED
  BY <1>1, <1>3, <1>4

LEMMA NoneIsOnce == \A what, seq : ~Queued(what, seq) => Once(what, seq)
  BY DEF Once, Queued

LEMMA RecoverStep ==
  ASSUME Typed, Control, Recover
  PROVE  Typed' /\ Control'
<1> USE DEF RetryPending, Held
<1>1. /\ queue \in Seq(Messages) /\ Release(queue) /\ wanted /\ wanted' = wanted
      /\ worker = "release" /\ worker' = "idle"
      /\ destroyed' = destroyed /\ stopSelf' = stopSelf
      /\ wanted \in BOOLEAN /\ destroyed \in BOOLEAN /\ stopSelf \in BOOLEAN
  BY DEF Recover, Typed, Control, UnwantedIsFree, serviceVars
<1>2. ~Queued("retry", queue) /\ retriesDelayed = 0
  BY <1>1 DEF Control, RetryMeansFree
<1>3. retries' \in 0..MaxRetries /\ retriesDelayed' = 1
  BY <1>2 DEF Recover, Typed
<1>4. /\ queue' \in Seq(Messages) /\ pollDelayed' = FALSE
      /\ ~Queued("error", queue') /\ ~Queued("poll", queue') /\ ~Queued("retry", queue')
      /\ Queued("destroy", queue') => Queued("destroy", queue)
      /\ handle' = FALSE /\ encoder' = FALSE /\ lock' = FALSE /\ active' = FALSE
  BY <1>1, <1>2, Released
<1>5. Once("poll", queue') /\ Once("retry", queue')
  BY <1>4, NoneIsOnce
<1>6. Queued("destroy", queue) => destroyed
  BY DEF Control, DestroyIsAnnounced
<1>7. Typed'
  <2>1. wanted' \in BOOLEAN /\ destroyed' \in BOOLEAN /\ stopSelf' \in BOOLEAN
    BY <1>1
  <2>2. retriesDelayed' \in 0..1
    BY <1>3
  <2> QED
    BY <1>1, <1>3, <1>4, <2>1, <2>2, Zenon DEF Typed
<1>8. wanted' /\ (destroyed => destroyed') /\ retriesDelayed' # 0
      /\ ~pollDelayed' /\ ~handle' /\ ~encoder' /\ ~lock' /\ worker' = "idle"
  BY <1>1, <1>3, <1>4
<1>9. ~PollPending' /\ RetryPending' /\ ~Held'
  BY <1>4, <1>8 DEF PollPending
<1>10. OnePoll' /\ OneRetry'
  BY <1>4, <1>5 DEF OnePoll, OneRetry
<1>11. PollMeansServer' /\ RetryMeansFree' /\ AttemptIsFree' /\ UnwantedIsFree'
  BY <1>8, <1>9 DEF PollMeansServer, RetryMeansFree, AttemptIsFree, UnwantedIsFree
<1>12. ServerHasEncoder' /\ ErrorIsCurrent' /\ DestroyIsAnnounced' /\ GoneIsUnwanted' /\ Watched'
  BY <1>4, <1>6, <1>8, <1>9
  DEF ServerHasEncoder, ErrorIsCurrent, DestroyIsAnnounced, GoneIsUnwanted, Watched
<1> QED
  BY <1>7, <1>10, <1>11, <1>12 DEF Control

LEMMA FinishStep ==
  ASSUME Typed, Control, Finish
  PROVE  Typed' /\ Control'
<1> USE DEF RetryPending, Held
<1>1. /\ queue \in Seq(Messages) /\ Release(queue) /\ wanted' = FALSE
      /\ worker \in {"release", "finish"} /\ worker' = "idle"
      /\ destroyed' = destroyed /\ stopSelf' = TRUE
      /\ retriesDelayed' = retriesDelayed /\ retries' = retries
      /\ destroyed \in BOOLEAN /\ retriesDelayed \in 0..1 /\ retries \in 0..MaxRetries
  BY DEF Finish, Typed
<1>2. ~Queued("retry", queue) /\ retriesDelayed = 0
  BY <1>1 DEF Control, RetryMeansFree
<1>4. /\ queue' \in Seq(Messages) /\ pollDelayed' = FALSE
      /\ ~Queued("error", queue') /\ ~Queued("poll", queue') /\ ~Queued("retry", queue')
      /\ Queued("destroy", queue') => Queued("destroy", queue)
      /\ handle' = FALSE /\ encoder' = FALSE /\ lock' = FALSE /\ active' = FALSE
  BY <1>1, <1>2, Released
<1>5. Once("poll", queue') /\ Once("retry", queue')
  BY <1>4, NoneIsOnce
<1>6. Queued("destroy", queue) => destroyed
  BY DEF Control, DestroyIsAnnounced
<1>7. Typed'
  BY <1>1, <1>4 DEF Typed
<1> QED
  BY <1>1, <1>2, <1>4, <1>5, <1>6, <1>7
  DEF Control, OnePoll, OneRetry, PollMeansServer, RetryMeansFree, AttemptIsFree,
      UnwantedIsFree, ServerHasEncoder, ErrorIsCurrent, DestroyIsAnnounced, GoneIsUnwanted,
      Watched, PollPending

LEMMA DestroyStep ==
  ASSUME Typed, Control, HandleDestroy
  PROVE  Typed' /\ Control'
<1> USE DEF RetryPending, Held
<1>1. /\ queue \in Seq(Messages) /\ queue # <<>> /\ Head(queue) = "destroy"
      /\ Release(<<>>) /\ wanted' = FALSE /\ worker' = "gone"
      /\ destroyed' = destroyed /\ stopSelf' = stopSelf
      /\ retriesDelayed' = 0 /\ retries' = retries
      /\ destroyed \in BOOLEAN /\ stopSelf \in BOOLEAN /\ retries \in 0..MaxRetries
  BY DEF HandleDestroy, Message, Typed, serviceVars
<1>2. <<>> \in Seq(Messages) /\ ~Queued("retry", <<>>) /\ ~Queued("destroy", <<>>)
  BY NothingQueued, EmptySeq
<1>3. destroyed
  <2>1. Queued("destroy", queue)
    BY <1>1, Shifted
  <2> QED
    BY <2>1 DEF Control, DestroyIsAnnounced
<1>4. /\ queue' \in Seq(Messages) /\ pollDelayed' = FALSE
      /\ ~Queued("error", queue') /\ ~Queued("poll", queue') /\ ~Queued("retry", queue')
      /\ handle' = FALSE /\ encoder' = FALSE /\ lock' = FALSE /\ active' = FALSE
  BY <1>1, <1>2, Released
<1>5. Once("poll", queue') /\ Once("retry", queue')
  BY <1>4, NoneIsOnce
<1>7. Typed'
  <2>1. destroyed' \in BOOLEAN /\ stopSelf' \in BOOLEAN
    BY <1>1
  <2>2. retriesDelayed' \in 0..1 /\ retries' \in 0..MaxRetries
    BY <1>1
  <2> QED
    BY <1>1, <1>4, <2>1, <2>2, Zenon DEF Typed
<1> QED
  BY <1>1, <1>3, <1>4, <1>5, <1>7
  DEF Control, OnePoll, OneRetry, PollMeansServer, RetryMeansFree, AttemptIsFree,
      UnwantedIsFree, ServerHasEncoder, ErrorIsCurrent, DestroyIsAnnounced, GoneIsUnwanted,
      Watched, PollPending

\* Only an attempt takes resources, and it finds none held; only releaseStream lets them go.
LEMMA CountedStep ==
  ASSUME ServiceInv, Next
  PROVE  Counted'
<1>1. /\ handle \in BOOLEAN /\ encoder \in BOOLEAN /\ lock \in BOOLEAN
      /\ servers = (IF handle THEN 1 ELSE 0)
      /\ encoders = (IF encoder THEN 1 ELSE 0)
      /\ locks = (IF lock THEN 1 ELSE 0)
  BY DEF ServiceInv, Typed, Counted, Number
<1>2. worker = "attempt" => handle = FALSE /\ encoder = FALSE /\ lock = FALSE
  BY <1>1 DEF ServiceInv, Control, AttemptIsFree, Held
<1>3. Number(FALSE) = 0 /\ Number(TRUE) = 1
  BY DEF Number
<1>4. CASE UNCHANGED <<handle, encoder, lock, servers, encoders, locks>>
  BY <1>4 DEF Counted, ServiceInv
<1>5. CASE AttemptFails
  <2>1. /\ servers' = servers /\ encoders' = encoders /\ handle' = handle /\ encoder' = encoder
        /\ worker = "attempt"
        /\ UNCHANGED <<lock, locks>> \/ (locks' = locks + 1 /\ lock' = TRUE)
    BY <1>5 DEF AttemptFails
  <2>2. servers = 0 /\ encoders = 0 /\ locks = 0 /\ lock = FALSE
    BY <1>1, <1>2, <2>1
  <2>3. /\ servers' = 0 /\ encoders' = 0
        /\ (lock' = FALSE /\ locks' = 0) \/ (lock' = TRUE /\ locks' = 1)
    BY <2>1, <2>2
  <2> QED
    BY <1>2, <1>3, <2>1, <2>3 DEF Counted
<1>6. CASE AttemptSucceeds
  <2>1. /\ servers' = servers + 1 /\ encoders' = encoders + 1 /\ locks' = locks + 1
        /\ handle' = TRUE /\ encoder' = TRUE /\ lock' = TRUE /\ worker = "attempt"
    BY <1>6 DEF AttemptSucceeds, CreateServer
  <2>2. servers = 0 /\ encoders = 0 /\ locks = 0
    BY <1>1, <1>2, <2>1
  <2>3. servers' = 1 /\ encoders' = 1 /\ locks' = 1
    BY <2>1, <2>2
  <2> QED
    BY <1>3, <2>1, <2>3 DEF Counted
<1>7. CASE Recover \/ Finish \/ HandleDestroy
  <2>1. PICK messages : Release(messages)
    BY <1>7 DEF Recover, Finish, HandleDestroy
  <2>2. /\ handle' = FALSE /\ encoder' = FALSE /\ lock' = FALSE
        /\ servers' = (IF handle THEN servers - 1 ELSE servers)
        /\ encoders' = (IF encoder THEN encoders - 1 ELSE encoders)
        /\ locks' = (IF lock THEN locks - 1 ELSE locks)
    BY <2>1 DEF Release, StopServer
  <2>3. servers' = 0
    <3>1. CASE handle
      <4>1. servers = 1 /\ servers' = servers - 1
        BY <1>1, <2>2, <3>1
      <4> QED
        BY <4>1
    <3>2. CASE ~handle
      BY <1>1, <2>2, <3>2
    <3> QED
      BY <3>1, <3>2
  <2>4. encoders' = 0
    <3>1. CASE encoder
      <4>1. encoders = 1 /\ encoders' = encoders - 1
        BY <1>1, <2>2, <3>1
      <4> QED
        BY <4>1
    <3>2. CASE ~encoder
      BY <1>1, <2>2, <3>2
    <3> QED
      BY <3>1, <3>2
  <2>5. locks' = 0
    <3>1. CASE lock
      <4>1. locks = 1 /\ locks' = locks - 1
        BY <1>1, <2>2, <3>1
      <4> QED
        BY <4>1
    <3>2. CASE ~lock
      BY <1>1, <2>2, <3>2
    <3> QED
      BY <3>1, <3>2
  <2> QED
    BY <1>3, <2>2, <2>3, <2>4, <2>5 DEF Counted
<1>8. CASE OnStartCommand \/ AskToStop \/ OnDestroy \/ OnError \/ ServerStops \/ PollDue \/ RetryDue
  BY <1>4, <1>8
  DEF OnStartCommand, AskToStop, OnDestroy, OnError, ServerStops, PollDue, RetryDue, resourceVars
<1>9. CASE \/ HandleStart \/ HandleRetry \/ HandleError \/ AttemptIsOff \/ PollIsOff \/ PollFails
           \/ PollStream \/ PollHealthy \/ RecoveryIsOff \/ BeginRecovery
  BY <1>4, <1>9
  DEF HandleStart, HandleRetry, HandleError, AttemptIsOff, PollIsOff, PollFails, PollStream,
      PollHealthy, PollAgain, RecoveryIsOff, BeginRecovery, Then, resourceVars
<1> QED
  BY <1>5, <1>6, <1>7, <1>8, <1>9 DEF Next, Handle

LEMMA ServiceStep ==
  ASSUME ServiceInv, [Next]_vars
  PROVE  ServiceInv'
<1>1. Typed /\ Control
  BY DEF ServiceInv
<1>2. CASE Next
  <2>1. Counted'
    BY <1>2, CountedStep
  <2>2. Typed' /\ Control'
    BY <1>1, <1>2, PostStep, MessageStep, PlainStep, AttemptStep, RecoverStep, FinishStep, DestroyStep
    DEF Next, Handle
  <2> QED
    BY <2>1, <2>2 DEF ServiceInv
<1>3. CASE UNCHANGED vars
  BY <1>3
  DEF vars, serviceVars, messageVars, resourceVars, ServiceInv, Typed, Control, Counted, OnePoll,
      OneRetry, PollMeansServer, RetryMeansFree, AttemptIsFree, UnwantedIsFree, ServerHasEncoder,
      ErrorIsCurrent, DestroyIsAnnounced, GoneIsUnwanted, Watched, PollPending, RetryPending, Held
<1> QED
  BY <1>2, <1>3

LEMMA ServiceStart == Init => ServiceInv
<1> SUFFICES ASSUME Init PROVE ServiceInv
  OBVIOUS
<1>1. /\ destroyed = FALSE /\ stopSelf = FALSE /\ worker = "idle"
      /\ queue = <<>> /\ pollDelayed = FALSE /\ retriesDelayed = 0
      /\ wanted = FALSE /\ retries = 0
      /\ handle = FALSE /\ encoder = FALSE /\ lock = FALSE /\ active = FALSE
      /\ servers = 0 /\ encoders = 0 /\ locks = 0
  BY DEF Init
<1>2. queue \in Seq(Messages) /\ \A what : ~Queued(what, queue) /\ Once(what, queue)
  BY <1>1, NothingQueued, EmptySeq
<1>3. 0 \in 0..MaxRetries /\ 0 \in 0..1
  OBVIOUS
<1>4. Typed
  BY <1>1, <1>2, <1>3, Zenon DEF Typed
<1>5. Control
  BY <1>1, <1>2
  DEF Control, OnePoll, OneRetry, PollMeansServer, RetryMeansFree, AttemptIsFree,
      UnwantedIsFree, ServerHasEncoder, ErrorIsCurrent, DestroyIsAnnounced, GoneIsUnwanted,
      Watched, PollPending, RetryPending, Held
<1>6. Counted
  BY <1>1 DEF Counted, Number
<1> QED
  BY <1>4, <1>5, <1>6 DEF ServiceInv

\* What the runs check of the service follows.
LEMMA ServiceHolds == ServiceInv => TypeOK /\ NothingIsLeaked
<1> SUFFICES ASSUME ServiceInv PROVE TypeOK /\ NothingIsLeaked
  OBVIOUS
<1>1. servers \in Nat /\ encoders \in Nat /\ locks \in Nat
  BY DEF ServiceInv, Counted, Number
<1>2. TypeOK
  BY <1>1 DEF ServiceInv, Typed, TypeOK, Messages
<1>3. NothingIsLeaked
  BY DEF ServiceInv, Control, Counted, GoneIsUnwanted, UnwantedIsFree, Held, NothingIsLeaked
<1> QED
  BY <1>2, <1>3
-----------------------------------------------------------------------------
(* The inductive invariant of the encoder. *)

Calls == {"configure", "opened", "session", "no session", "lost", "cleanup"}

\* A thread told to quit has run the clean-up; one that has quit left nothing behind.
QuittingIsDone ==
  enc.thread = "quitting" => enc.stopped /\ ~enc.codec /\ ~enc.camera /\ enc.device # "opening"
QuitIsNone == enc.thread = "quit" => enc = NoEncoder

\* Only stop posts the clean-up.
CleanUpIsStop == Queued("cleanup", enc.mail) => enc.stopped

\* A device that has opened is the encoder's, or its onOpened is still to come.
OpenIsAnswered == enc.device = "open" => enc.camera \/ Queued("opened", enc.mail)

\* The service lets an encoder go only after it has stopped it.
EncoderIsHeld == enc.thread = "running" /\ ~enc.stopped => encoder
ReleasedIsFree == ~encoder => (~enc.codec /\ ~enc.camera) \/ enc.overdue

EncoderInv ==
  /\ enc \in EncoderType
  /\ QuittingIsDone /\ QuitIsNone /\ CleanUpIsStop /\ OpenIsAnswered
  /\ EncoderIsHeld /\ ReleasedIsFree

\* What taking a message out of the handler's queue, or putting one in, does.
LEMMA Taken ==
  ASSUME EncoderInv, NEW message, At(message)
  PROVE  /\ Tail(enc.mail) \in Seq(Calls)
         /\ \A what : Queued(what, Tail(enc.mail)) => Queued(what, enc.mail)
         /\ \A what : Queued(what, enc.mail) => Queued(what, Tail(enc.mail)) \/ what = message
         /\ Queued(message, enc.mail)
         /\ Queued("opened", enc.mail) => Queued("opened", Tail(enc.mail)) \/ "opened" = message
         /\ enc.mail # <<>> /\ Head(enc.mail) = message /\ enc.doing = "idle"
         /\ enc.thread # "quit"
<1>1. enc.mail \in Seq(Calls)
  BY DEF EncoderInv, EncoderType, Calls
<1>2. enc.mail # <<>> /\ Head(enc.mail) = message /\ enc.doing = "idle"
  BY DEF At
<1>3. enc.thread # "quit"
  BY <1>2 DEF EncoderInv, QuitIsNone, NoEncoder, NewEncoder
<1> QED
  BY <1>1, <1>2, <1>3, Shifted

LEMMA Put ==
  ASSUME EncoderInv, NEW message \in Calls
  PROVE  /\ Append(enc.mail, message) \in Seq(Calls)
         /\ \A what : Queued(what, Append(enc.mail, message)) <=>
                        Queued(what, enc.mail) \/ message = what
<1>1. enc.mail \in Seq(Calls)
  BY DEF EncoderInv, EncoderType, Calls
<1> QED
  BY <1>1, Appended

\* The worker stops the encoder, and gives up waiting for it.
LEMMA StopStep ==
  ASSUME EncoderInv, Stop \/ StopGivesUp, encoder' = encoder
  PROVE  EncoderInv'
<1> USE DEF EncoderInv, EncoderType, QuittingIsDone, QuitIsNone, CleanUpIsStop, OpenIsAnswered,
            EncoderIsHeld, ReleasedIsFree
<1>1. CASE Stop
  <2>1. /\ Append(enc.mail, "cleanup") \in Seq(Calls)
        /\ \A what : Queued(what, enc.mail) => Queued(what, Append(enc.mail, "cleanup"))
    BY Put DEF Calls
  <2>2. enc' = [enc EXCEPT !.stopped = TRUE, !.mail = Append(enc.mail, "cleanup")]
        /\ enc.thread = "running"
    BY <1>1 DEF Stop
  <2> QED
    BY <2>1, <2>2 DEF Calls
<1>2. CASE StopGivesUp
  <2>1. enc' = [enc EXCEPT !.overdue = TRUE] /\ enc.thread = "running"
    BY <1>2 DEF StopGivesUp
  <2> QED
    BY <2>1
<1> QED
  BY <1>1, <1>2

\* The handler's callbacks.
LEMMA HandlerStep ==
  ASSUME EncoderInv, Handler, encoder' = encoder
  PROVE  EncoderInv'
<1> USE DEF EncoderInv, EncoderType, QuittingIsDone, QuitIsNone, CleanUpIsStop, OpenIsAnswered,
            EncoderIsHeld, ReleasedIsFree
<1> DEFINE rest == Tail(enc.mail)
<1>1. ASSUME NEW message, At(message)
      PROVE  /\ rest \in Seq(Calls)
             /\ \A what : Queued(what, rest) => Queued(what, enc.mail)
             /\ \A what : Queued(what, enc.mail) => Queued(what, rest) \/ what = message
             /\ Queued(message, enc.mail)
             /\ Queued("opened", enc.mail) => Queued("opened", rest) \/ "opened" = message
             /\ enc.thread # "quit"
  BY <1>1, Taken
<1> HIDE DEF rest
<1>1a. ASSUME At("configure") \/ At("session") \/ At("cleanup"), Queued("opened", enc.mail)
       PROVE  Queued("opened", rest)
  <2>1. PICK message \in {"configure", "session", "cleanup"} : At(message)
    BY <1>1a
  <2>2. "opened" # message
    OBVIOUS
  <2> QED
    BY <1>1, <1>1a, <2>1, <2>2
<1>2. CASE ConfigureIsOff
  <2>1. enc' = [enc EXCEPT !.mail = rest] /\ At("configure")
    BY <1>2 DEF ConfigureIsOff, Handled, rest
  <2>2. Queued("opened", enc.mail) => Queued("opened", rest)
    BY <1>1a, <2>1
  <2> QED
    BY <1>1, <2>1, <2>2 DEF Calls
<1>3. CASE Configure
  <2>1. /\ At("configure") /\ ~enc.stopped
        /\ \/ enc' = [enc EXCEPT !.mail = rest, !.codec = TRUE, !.device = "opening"]
           \/ \E made \in BOOLEAN :
                enc' = [enc EXCEPT !.mail = rest, !.doing = "failing", !.codec = made]
    BY <1>3 DEF Configure, Handled, Failed, rest
  <2>2. Queued("opened", enc.mail) => Queued("opened", rest)
    BY <1>1a, <2>1
  <2>5. enc.thread = "running" /\ encoder
    BY <1>1, <2>1
  <2>3. CASE enc' = [enc EXCEPT !.mail = rest, !.codec = TRUE, !.device = "opening"]
    BY <1>1, <2>1, <2>2, <2>3, <2>5 DEF Calls
  <2>4. ASSUME NEW made \in BOOLEAN,
               enc' = [enc EXCEPT !.mail = rest, !.doing = "failing", !.codec = made]
        PROVE  EncoderInv'
    BY <1>1, <2>1, <2>2, <2>4, <2>5 DEF Calls
  <2> QED
    BY <2>1, <2>3, <2>4
<1>4. CASE CloseOpened
  <2>1. enc' = [enc EXCEPT !.mail = rest, !.device = "none"] /\ At("opened")
    BY <1>4 DEF CloseOpened, Handled, rest
  <2> QED
    BY <1>1, <2>1 DEF Calls
<1>5. CASE Opened
  <2>1. /\ At("opened") /\ ~enc.stopped
        /\ \/ enc' = [enc EXCEPT !.mail = rest, !.camera = TRUE, !.session = "asked"]
           \/ enc' = [enc EXCEPT !.mail = rest, !.doing = "failing", !.camera = TRUE]
    BY <1>5 DEF Opened, Handled, Failed, rest
  <2>2. enc.thread = "running" /\ encoder
    BY <1>1, <2>1
  <2> QED
    BY ZenonT(60), <1>1, <2>1, <2>2 DEF Calls
<1>6. CASE CloseSession
  <2>1. enc' = [enc EXCEPT !.mail = rest] /\ At("session")
    BY <1>6 DEF CloseSession, Handled, rest
  <2>2. Queued("opened", enc.mail) => Queued("opened", rest)
    BY <1>1a, <2>1
  <2> QED
    BY <1>1, <2>1, <2>2 DEF Calls
<1>7. CASE Configured
  <2>1. At("session") /\ \E next \in {Handled, Failed} : enc' = [next EXCEPT !.session = "set"]
    BY <1>7 DEF Configured
  <2>2. Queued("opened", enc.mail) => Queued("opened", rest)
    BY <1>1a, <2>1
  <2>3. CASE enc' = [enc EXCEPT !.mail = rest, !.session = "set"]
    BY <1>1, <2>1, <2>2, <2>3 DEF Calls
  <2>4. CASE enc' = [enc EXCEPT !.mail = rest, !.doing = "failing", !.session = "set"]
    BY <1>1, <2>1, <2>2, <2>4 DEF Calls
  <2> QED
    BY <2>1, <2>3, <2>4 DEF Handled, Failed, rest
<1>8. CASE ConfigureFailed
  <2>1. PICK message \in {"no session", "lost"} : At(message)
    BY <1>8 DEF ConfigureFailed
  <2>2. enc' = [enc EXCEPT !.mail = rest, !.doing = "failing"]
    BY <1>8 DEF ConfigureFailed, Handled, Failed, rest
  <2> QED
    BY <1>1, <2>1, <2>2 DEF Calls
<1>9. CASE Push
  <2>1. PICK outcome \in {"idle", "failing"} : enc' = [enc EXCEPT !.doing = outcome]
    BY <1>9 DEF Push
  <2>2. enc.thread # "quit"
    BY <1>9 DEF Push, NoEncoder, NewEncoder
  <2> QED
    BY <2>1, <2>2
<1>10. CASE CleanUp
  <2>1. At("cleanup")
    BY <1>10 DEF CleanUp
  <2>2. PICK device :
          /\ device = IF enc.camera THEN "none"
                      ELSE IF enc.device = "opening" THEN "orphan" ELSE enc.device
          /\ enc' = [enc EXCEPT !.mail = rest, !.device = device, !.camera = FALSE,
                                !.session = "none", !.codec = FALSE, !.thread = "quitting"]
    BY <1>10 DEF CleanUp, Handled, rest
  <2>3. enc.stopped
    BY <1>1, <2>1
  <2>4. device \in {"none", "open", "orphan"}
    BY <2>2
  <2>5. device = "open" => Queued("opened", rest)
    <3>1. device = "open" => enc.device = "open" /\ ~enc.camera
      BY <2>2
    <3>2. Queued("opened", enc.mail) => Queued("opened", rest)
      BY <1>1a, <2>1
    <3> QED
      BY <3>1, <3>2
  <2> QED
    BY ZenonT(60), <1>1, <2>1, <2>2, <2>3, <2>4, <2>5 DEF Calls
<1>11. CASE Quit
  <2>1. enc' = NoEncoder /\ ~Queued("cleanup", <<>>)
    BY <1>11, NothingQueued DEF Quit
  <2>2. <<>> \in Seq(Calls)
    BY EmptySeq
  <2> QED
    BY <2>1, <2>2 DEF NoEncoder, NewEncoder, Calls
<1> QED
  BY <1>2, <1>3, <1>4, <1>5, <1>6, <1>7, <1>8, <1>9, <1>10, <1>11 DEF Handler

\* The camera service, the codec, and the report of a failure.
LEMMA OutsideStep ==
  ASSUME EncoderInv, Outside \/ Fail, encoder' = encoder
  PROVE  EncoderInv'
<1> USE DEF EncoderInv, EncoderType, QuittingIsDone, QuitIsNone, CleanUpIsStop, OpenIsAnswered,
            EncoderIsHeld, ReleasedIsFree
<1>1. ASSUME NEW message \in Calls \ {"cleanup"}
      PROVE  /\ Posted(message) \in Seq(Calls)
             /\ Queued("cleanup", Posted(message)) => Queued("cleanup", enc.mail)
             /\ \A what : Queued(what, enc.mail) => Queued(what, Posted(message))
             /\ enc.thread = "running" => Queued(message, Posted(message))
  BY Put DEF Posted, Calls
<1>2. /\ enc.thread = "quit" => /\ ~enc.codec /\ enc.doing = "idle"
                                /\ enc.device = "none" /\ enc.session = "none"
  BY DEF NoEncoder, NewEncoder
<1>3. CASE CameraOpens
  <2>1. enc' = [enc EXCEPT !.device = "open", !.mail = Posted("opened")] /\ enc.device = "opening"
    BY <1>3 DEF CameraOpens
  <2>2. enc.thread = "running"
    BY <1>2, <2>1
  <2>3. "opened" \in Calls \ {"cleanup"}
    BY DEF Calls
  <2> HIDE DEF Calls
  <2> QED
    BY <1>1, <2>1, <2>2, <2>3 DEF Calls
<1>4. CASE CameraIsLost
  <2>1. /\ enc' = [enc EXCEPT !.device = "none", !.mail = Posted("lost")]
        /\ enc.device \in {"opening", "open"}
    BY <1>4 DEF CameraIsLost
  <2>2. enc.thread # "quit"
    BY <1>2, <2>1
  <2>3. "lost" \in Calls \ {"cleanup"}
    BY DEF Calls
  <2> QED
    BY <1>1, <2>1, <2>2, <2>3 DEF Calls
<1>5. CASE SessionAnswers
  <2>1. PICK answer \in {"session", "no session"} :
          enc' = [enc EXCEPT !.session = "none", !.mail = Posted(answer)]
    BY <1>5 DEF SessionAnswers
  <2>2. enc.thread # "quit"
    BY <1>2, <1>5 DEF SessionAnswers
  <2>3. answer \in Calls \ {"cleanup"}
    BY DEF Calls
  <2> QED
    BY <1>1, <2>1, <2>2, <2>3 DEF Calls
<1>6. CASE FormatChanged \/ OutputAvailable \/ CodecFails \/ Fail
  <2>1. enc.thread # "quit"
    BY <1>2, <1>6 DEF FormatChanged, OutputAvailable, CodecFails, Fail, Capturing, CodecCalls
  <2>2. \/ enc' = [enc EXCEPT !.ready = TRUE]
        \/ \E doing \in {"idle", "pushing", "failing"} : enc' = [enc EXCEPT !.doing = doing]
    BY <1>6 DEF FormatChanged, OutputAvailable, CodecFails, Fail
  <2>3. CASE enc' = [enc EXCEPT !.ready = TRUE]
    BY <2>1, <2>3
  <2>4. ASSUME NEW doing \in {"idle", "pushing", "failing"}, enc' = [enc EXCEPT !.doing = doing]
        PROVE  EncoderInv'
    BY <2>1, <2>4
  <2> QED
    BY <2>2, <2>3, <2>4
<1> QED
  BY <1>3, <1>4, <1>5, <1>6 DEF Outside

LEMMA OneCall == <<"configure">> \in Seq(Calls) /\ ~Queued("cleanup", <<"configure">>)
<1>1. <<"configure">> \in Seq(Calls)
  BY DEF Calls
<1>2. \A i \in DOMAIN <<"configure">> : <<"configure">>[i] = "configure"
  OBVIOUS
<1> QED
  BY <1>1, <1>2 DEF Queued

\* The service: an attempt makes an encoder, and releaseStream lets it go.
LEMMA HolderStep ==
  ASSUME ServiceInv, EncoderInv, Attempt \/ ReleaseStream
  PROVE  EncoderInv'
<1> USE DEF EncoderInv, EncoderType, QuittingIsDone, QuitIsNone, CleanUpIsStop, OpenIsAnswered,
            EncoderIsHeld, ReleasedIsFree
<1>1. CASE Attempt
  <2>1. enc' = NewEncoder /\ encoder'
    BY <1>1 DEF Attempt, AttemptSucceeds, Make
  <2>2. <<"configure">> \in Seq(Calls) /\ ~Queued("cleanup", <<"configure">>)
    BY OneCall
  <2> QED
    BY <2>1, <2>2 DEF NewEncoder, Calls
<1>2. CASE ReleaseStream
  <2>1. enc' = enc /\ (enc.thread = "running" => enc.stopped /\ enc.overdue)
    BY <1>2 DEF ReleaseStream, StopReturns
  <2>2. enc.thread = "quit" => ~enc.codec /\ ~enc.camera
    BY DEF NoEncoder, NewEncoder
  <2> QED
    BY <2>1, <2>2
<1> QED
  BY <1>1, <1>2
-----------------------------------------------------------------------------
(* The two together. *)

AndroidIInv == ServiceInv /\ EncoderInv

LEMMA EncoderStays ==
  ASSUME EncoderInv, enc' = enc, encoder' = encoder
  PROVE  EncoderInv'
  BY ZenonT(60) DEF EncoderInv, EncoderType, QuittingIsDone, QuitIsNone, CleanUpIsStop,
                  OpenIsAnswered, EncoderIsHeld, ReleasedIsFree

\* A step of the whole is a step of the service, or leaves the service alone.
LEMMA ServiceMoves == ASSUME AndroidNext PROVE [Next]_vars
<1>1. CASE \/ OnStartCommand \/ AskToStop \/ OnDestroy \/ ServerStops \/ PollDue \/ RetryDue
  BY <1>1 DEF Next
<1>2. CASE UNCHANGED vars
  BY <1>2
<1>3. CASE ReleaseStream \/ Attempt \/ Healthy \/ OtherMessage
  BY <1>3 DEF ReleaseStream, Attempt, Healthy, OtherMessage, Next, Handle
<1>4. CASE Report
  BY <1>2, <1>4 DEF Report, Next
<1> QED
  BY <1>1, <1>2, <1>3, <1>4 DEF AndroidNext, Supervise, StopEncoder, StopTimesOut

LEMMA EncoderMoves ==
  ASSUME AndroidIInv, AndroidNext
  PROVE  EncoderInv'
<1>1. ServiceInv /\ EncoderInv
  BY DEF AndroidIInv
<1>2. ASSUME UNCHANGED vars PROVE encoder' = encoder
  BY <1>2 DEF vars, resourceVars
<1>3. CASE /\ OnStartCommand \/ AskToStop \/ OnDestroy \/ ServerStops \/ PollDue \/ RetryDue
           /\ UNCHANGED enc
  <2>1. encoder' = encoder
    BY <1>3 DEF OnStartCommand, AskToStop, OnDestroy, ServerStops, PollDue, RetryDue, resourceVars
  <2> QED
    BY <1>1, <1>3, <2>1, EncoderStays
<1>4. CASE StopEncoder \/ StopTimesOut
  BY <1>1, <1>2, <1>4, StopStep DEF StopEncoder, StopTimesOut
<1>5. CASE ReleaseStream \/ Attempt
  BY <1>1, <1>5, HolderStep
<1>6. CASE Healthy \/ OtherMessage
  <2>1. encoder' = encoder /\ enc' = enc
    BY <1>6
    DEF Healthy, OtherMessage, PollHealthy, PollStream, PollAgain, HandleStart, HandleRetry,
        HandleError, AttemptIsOff, AttemptFails, PollIsOff, PollFails, RecoveryIsOff,
        BeginRecovery, Then, resourceVars
  <2> QED
    BY <1>1, <2>1, EncoderStays
<1>7. CASE Report
  <2>1. Fail /\ encoder' = encoder
    BY <1>2, <1>7 DEF Report, OnError, resourceVars
  <2> QED
    BY <1>1, <2>1, OutsideStep
<1>8. CASE (Handler \/ Outside) /\ UNCHANGED vars
  BY <1>1, <1>2, <1>8, HandlerStep, OutsideStep
<1> QED
  BY <1>3, <1>4, <1>5, <1>6, <1>7, <1>8 DEF AndroidNext, Supervise

LEMMA AndroidStep ==
  ASSUME AndroidIInv, [AndroidNext]_<<vars, enc>>
  PROVE  AndroidIInv'
<1>1. CASE AndroidNext
  BY <1>1, ServiceMoves, ServiceStep, EncoderMoves DEF AndroidIInv
<1>2. CASE UNCHANGED <<vars, enc>>
  <2>1. encoder' = encoder
    BY <1>2 DEF vars, resourceVars
  <2> QED
    BY <1>2, <2>1, ServiceStep, EncoderStays DEF AndroidIInv
<1> QED
  BY <1>1, <1>2

LEMMA AndroidStart == AndroidInit => AndroidIInv
<1> SUFFICES ASSUME AndroidInit PROVE AndroidIInv
  OBVIOUS
<1>1. ServiceInv
  BY ServiceStart DEF AndroidInit
<1>2. enc = NoEncoder /\ encoder = FALSE
  BY DEF AndroidInit, EncoderInit, Init
<1>3. <<>> \in Seq(Calls) /\ \A what : ~Queued(what, <<>>)
  BY EmptySeq, NothingQueued
<1>4. EncoderInv
  BY <1>2, <1>3
  DEF EncoderInv, EncoderType, QuittingIsDone, QuitIsNone, CleanUpIsStop, OpenIsAnswered,
      EncoderIsHeld, ReleasedIsFree, NoEncoder, NewEncoder, Calls
<1> QED
  BY <1>1, <1>4 DEF AndroidIInv
-----------------------------------------------------------------------------
(* The theorems. *)

\* The service's queue and generations stay in step with what it holds, and its encoder's
\* callbacks with what stop has asked (StreamService, CameraEncoder).
THEOREM AndroidInvariance == AndroidSpec => []AndroidIInv
<1>1. AndroidInit => AndroidIInv
  BY AndroidStart
<1>2. AndroidIInv /\ [AndroidNext]_<<vars, enc>> => AndroidIInv'
  BY AndroidStep
<1> QED
  BY <1>1, <1>2, PTL DEF AndroidSpec

\* No attempt begins while another's server, encoder or wake lock is held, so each of them is
\* the one releaseStream will release; the thread that quits leaves none (startAttempt,
\* releaseStream, onDestroy).
THEOREM AndroidHolds == AndroidSpec => []AndroidInv
<1>1. AndroidIInv => AndroidInv
  BY ServiceHolds DEF AndroidIInv, AndroidInv, AndroidTypeOK, EncoderInv, EncoderIsHeld
<1> QED
  BY <1>1, AndroidInvariance, PTL

\* Messages of which there is one or none are counted so.
LEMMA CountedOnce ==
  ASSUME NEW what, Once(what, queue)
  PROVE  Pending(what) = IF Queued(what, queue) THEN 1 ELSE 0
<1> DEFINE places == {i \in DOMAIN queue : queue[i] = what}
<1>1. CASE Queued(what, queue)
  <2>1. PICK i \in DOMAIN queue : queue[i] = what
    BY <1>1 DEF Queued
  <2>2. places = {i}
    BY <2>1 DEF Once
  <2> QED
    BY <1>1, <2>2, FS_Singleton DEF Pending
<1>2. CASE ~Queued(what, queue)
  <2>1. places = {}
    BY <1>2 DEF Queued
  <2> QED
    BY <1>2, <2>1, FS_EmptySet DEF Pending
<1> QED
  BY <1>1, <1>2

\* A wanted stream is watched by exactly one poll or waits for exactly one retry: no message,
\* error or delay makes the service forget it, or watch it twice (pollStream, recover).
THEOREM WatchedHolds == AndroidSpec => []WantedIsWatched
<1>1. ASSUME AndroidIInv PROVE WantedIsWatched
  <2> SUFFICES ASSUME worker = "idle", wanted, ~destroyed
               PROVE  /\ Pending("poll") + Number(pollDelayed) = Number(handle)
                      /\ Pending("retry") + retriesDelayed = Number(~handle)
    BY DEF WantedIsWatched
  <2>1. /\ handle \in BOOLEAN /\ pollDelayed \in BOOLEAN /\ retriesDelayed \in {0, 1}
        /\ OnePoll /\ OneRetry /\ PollMeansServer /\ RetryMeansFree /\ Watched
    BY <1>1 DEF AndroidIInv, ServiceInv, Typed, Control
  <2>2. /\ Pending("poll") = IF Queued("poll", queue) THEN 1 ELSE 0
        /\ Pending("retry") = IF Queued("retry", queue) THEN 1 ELSE 0
    BY <2>1, CountedOnce DEF OnePoll, OneRetry
  <2>3. CASE handle
    <3>1. PollPending /\ ~RetryPending
      BY <2>1, <2>3 DEF Watched, RetryMeansFree, Held
    <3>2. Pending("retry") = 0 /\ retriesDelayed = 0
      BY <2>2, <3>1 DEF RetryPending
    <3>3. Pending("poll") + Number(pollDelayed) = 1
      BY <2>1, <2>2, <3>1 DEF PollPending, OnePoll, Number
    <3> QED
      BY <2>3, <3>2, <3>3 DEF Number
  <2>4. CASE ~handle
    <3>1. ~PollPending /\ RetryPending
      BY <2>1, <2>4 DEF Watched, PollMeansServer
    <3>2. Pending("poll") = 0 /\ Number(pollDelayed) = 0
      BY <2>1, <2>2, <3>1 DEF PollPending, Number
    <3>3. Pending("retry") + retriesDelayed = 1
      BY <2>1, <2>2, <3>1 DEF RetryPending, OneRetry
    <3> QED
      BY <2>4, <3>2, <3>3 DEF Number
  <2> QED
    BY <2>1, <2>3, <2>4
<1> QED
  BY <1>1, AndroidInvariance, PTL

\* An encoder the service has let go holds neither camera nor codec, unless stop gave up
\* waiting; and its thread ends with nothing but, at most, a camera that was being opened
\* (stop, releaseStream, onOpened).
THEOREM ReleasedHolds == AndroidSpec => []ReleasedMeansFree
<1>1. ASSUME EncoderInv PROVE ReleasedMeansFree
  <2>1. ASSUME Over PROVE ~enc.codec /\ ~enc.camera /\ enc.device \in {"none", "orphan"}
    <3>1. enc.thread = "quitting" /\ enc.mail = <<>>
      BY <2>1 DEF Over
    <3>2. ~enc.codec /\ ~enc.camera /\ enc.device # "opening"
      BY <1>1, <3>1 DEF EncoderInv, QuittingIsDone
    <3>3. ~Queued("opened", enc.mail)
      BY <3>1, NothingQueued
    <3>4. enc.device # "open"
      BY <1>1, <3>2, <3>3 DEF EncoderInv, OpenIsAnswered
    <3>5. enc.device \in {"none", "opening", "open", "orphan"}
      BY <1>1 DEF EncoderInv, EncoderType
    <3> QED
      BY <3>2, <3>4, <3>5
  <2> QED
    BY <1>1, <2>1 DEF ReleasedMeansFree, CameraIsGivenBack, EncoderInv, ReleasedIsFree
<1>2. AndroidIInv => ReleasedMeansFree
  BY <1>1 DEF AndroidIInv
<1> QED
  BY <1>2, AndroidInvariance, PTL
=============================================================================
