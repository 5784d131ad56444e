---------------------------- MODULE StreamService ----------------------------
(***************************************************************************)
(* StreamService of the Android application: the supervisor of a stream.   *)
(*                                                                         *)
(* Everything happens in messages of one worker thread: a start, the poll  *)
(* that watches the stream every 500 ms, the errors the encoder posts with *)
(* the generation of their attempt, the delayed retry, and the clean-up    *)
(* that onDestroy posts from the main thread.  A failed attempt releases   *)
(* everything and is retried at most three times; a minute of health earns *)
(* the three retries anew.                                                 *)
(*                                                                         *)
(* An error whose generation is no longer the current one is "stale".      *)
(***************************************************************************)
EXTENDS Naturals, Sequences, FiniteSets

CONSTANTS
  MaxRetries,  \* 3 in the code
  MaxPosted    \* bound of the model on the worker's queue

ASSUME BoundsAssumption == MaxRetries \in Nat /\ MaxPosted \in Nat \ {0}

VARIABLES
  destroyed,  \* onDestroy has run
  stopSelf,   \* the system has been asked to destroy the service
  worker,     \* "idle", "attempt", "recover", "release", "finish" or "gone"
  queue,      \* the messages due, oldest first
  pollDelayed, retriesDelayed,  \* the poll and how many retries wait for their delay
  wanted,
  retries,
  handle,     \* handle # 0
  encoder,    \* encoder # null
  lock,       \* wakeLock # null, and wifiLock with it
  active,     \* nativeGetStats says that the server runs
  servers,    \* the native servers not stopped
  encoders,   \* the encoders not stopped
  locks       \* the wake locks not released

serviceVars == <<destroyed, stopSelf>>
messageVars == <<queue, pollDelayed, retriesDelayed>>
resourceVars == <<handle, encoder, lock, active, servers, encoders, locks>>
vars == <<serviceVars, worker, messageVars, wanted, retries, resourceVars>>

Init ==
  /\ destroyed = FALSE /\ stopSelf = FALSE
  /\ worker = "idle"
  /\ queue = <<>> /\ pollDelayed = FALSE /\ retriesDelayed = 0
  /\ wanted = FALSE /\ retries = 0
  /\ handle = FALSE /\ encoder = FALSE /\ lock = FALSE /\ active = FALSE
  /\ servers = 0 /\ encoders = 0 /\ locks = 0
-----------------------------------------------------------------------------
(* The main thread. *)

OnStartCommand ==
  /\ ~destroyed /\ Len(queue) < MaxPosted
  /\ queue' = Append(queue, "start")
  /\ UNCHANGED <<serviceVars, worker, pollDelayed, retriesDelayed, wanted, retries, resourceVars>>

\* The STOP action of the notification, or stopService.
AskToStop ==
  /\ ~stopSelf
  /\ stopSelf' = TRUE
  /\ UNCHANGED <<destroyed, worker, messageVars, wanted, retries, resourceVars>>

\* Variant: the queue is emptied after the clean-up was posted.
OnDestroyClearing ==
  /\ stopSelf /\ ~destroyed
  /\ destroyed' = TRUE
  /\ queue' = <<>>
  /\ UNCHANGED <<stopSelf, worker, pollDelayed, retriesDelayed, wanted, retries, resourceVars>>

OnDestroy ==
  /\ stopSelf /\ ~destroyed
  /\ destroyed' = TRUE
  /\ queue' = Append(queue, "destroy")
  /\ UNCHANGED <<stopSelf, worker, pollDelayed, retriesDelayed, wanted, retries, resourceVars>>
-----------------------------------------------------------------------------
(* What may go wrong: the encoder's error callback and the native server's end. *)

OnError ==
  /\ encoder /\ Len(queue) < MaxPosted
  /\ queue' = Append(queue, "error")
  /\ UNCHANGED <<serviceVars, worker, pollDelayed, retriesDelayed, wanted, retries, resourceVars>>

ServerStops ==
  /\ handle /\ active
  /\ active' = FALSE
  /\ UNCHANGED <<serviceVars, worker, messageVars, wanted, retries, handle, encoder, lock,
                 servers, encoders, locks>>
-----------------------------------------------------------------------------
(* The delays of Handler.postDelayed. *)

PollDue ==
  /\ pollDelayed
  /\ pollDelayed' = FALSE
  /\ queue' = Append(queue, "poll")
  /\ UNCHANGED <<serviceVars, worker, retriesDelayed, wanted, retries, resourceVars>>

RetryDue ==
  /\ retriesDelayed > 0
  /\ retriesDelayed' = retriesDelayed - 1
  /\ queue' = Append(queue, "retry")
  /\ UNCHANGED <<serviceVars, worker, pollDelayed, wanted, retries, resourceVars>>
-----------------------------------------------------------------------------
(* The worker: one message at a time. *)

Outdated(messages) == [i \in DOMAIN messages |-> IF messages[i] = "error" THEN "stale" ELSE messages[i]]

\* nativeStopServer: the server's threads are joined.
StopServer ==
  /\ handle' = FALSE /\ active' = FALSE
  /\ servers' = IF handle THEN servers - 1 ELSE servers

\* Variant: the poll stays posted.
ReleaseKeepsPoll(messages) ==
  /\ queue' = Outdated(messages)
  /\ UNCHANGED pollDelayed
  /\ StopServer
  /\ encoder' = FALSE /\ lock' = FALSE
  /\ encoders' = IF encoder THEN encoders - 1 ELSE encoders
  /\ locks' = IF lock THEN locks - 1 ELSE locks

\* removeCallbacks(poll): what remains keeps its order.
WithoutPolls(messages) ==
  LET kept == {i \in DOMAIN messages : messages[i] # "poll"}
      Nth(k) == CHOOSE i \in kept : Cardinality(kept \cap 1..i) = k
  IN  [k \in 1..Cardinality(kept) |-> messages[Nth(k)]]

\* releaseStream: a new generation, no poll, and nothing of the attempt left.
Release(messages) ==
  /\ queue' = Outdated(WithoutPolls(messages))
  /\ pollDelayed' = FALSE
  /\ StopServer
  /\ encoder' = FALSE /\ lock' = FALSE
  /\ encoders' = IF encoder THEN encoders - 1 ELSE encoders
  /\ locks' = IF lock THEN locks - 1 ELSE locks

Message(what) == worker = "idle" /\ queue # <<>> /\ Head(queue) = what

\* What the message leaves to do: an attempt, a recovery, or nothing.
Then(where) ==
  /\ worker' = where
  /\ queue' = Tail(queue)
  /\ UNCHANGED <<serviceVars, pollDelayed, retriesDelayed, resourceVars>>

HandleStart ==
  /\ Message("start")
  /\ IF wanted
       THEN UNCHANGED <<wanted, retries>> /\ Then("idle")
       ELSE wanted' = TRUE /\ retries' = 0 /\ Then("attempt")

\* Variant: each retry earns the retries anew.
HandleRetryAfresh ==
  /\ Message("retry")
  /\ Then(IF wanted THEN "attempt" ELSE "idle")
  /\ retries' = 0
  /\ UNCHANGED wanted

HandleRetry ==
  /\ Message("retry")
  /\ Then(IF wanted THEN "attempt" ELSE "idle")
  /\ UNCHANGED <<wanted, retries>>

\* Variant: the generation of an error is not looked at.
HandleAnyError ==
  /\ worker = "idle" /\ queue # <<>> /\ Head(queue) \in {"error", "stale"}
  /\ Then(IF wanted THEN "recover" ELSE "idle")
  /\ UNCHANGED <<wanted, retries>>

HandleError ==
  /\ worker = "idle" /\ queue # <<>> /\ Head(queue) \in {"error", "stale"}
  /\ Then(IF Head(queue) = "error" /\ wanted THEN "recover" ELSE "idle")
  /\ UNCHANGED <<wanted, retries>>

\* startAttempt returns at once.
AttemptIsOff ==
  /\ worker = "attempt" /\ (~wanted \/ destroyed)
  /\ worker' = "idle"
  /\ UNCHANGED <<serviceVars, messageVars, wanted, retries, resourceVars>>

\* The options cannot be read; or, with the locks taken, nativeCreateServer throws or the
\* library cannot be linked.
AttemptFails ==
  /\ worker = "attempt" /\ wanted
  /\ \/ worker' = "recover" /\ UNCHANGED <<lock, locks>>
     \/ worker' \in {"recover", "finish"} /\ lock' = TRUE /\ locks' = locks + 1
  /\ queue' = Outdated(queue)
  /\ UNCHANGED <<serviceVars, pollDelayed, retriesDelayed, wanted, retries, handle, encoder,
                 active, servers, encoders>>

\* nativeCreateServer: a bound server with its thread, under a new handle.
CreateServer == handle' = TRUE /\ servers' = servers + 1 /\ active' = TRUE

AttemptSucceeds ==
  /\ worker = "attempt" /\ wanted
  /\ worker' = "idle"
  /\ lock' = TRUE /\ locks' = locks + 1
  /\ CreateServer
  /\ encoder' = TRUE /\ encoders' = encoders + 1
  /\ queue' = Append(Outdated(queue), "poll")
  /\ UNCHANGED <<serviceVars, pollDelayed, retriesDelayed, wanted, retries>>

PollIsOff ==
  /\ Message("poll") /\ (~wanted \/ destroyed \/ ~handle)
  /\ Then("idle")
  /\ UNCHANGED <<wanted, retries>>

PollIsOn == Message("poll") /\ wanted /\ handle

\* The server has stopped, no frame for 15 seconds, or the status cannot be read.
PollFails ==
  /\ PollIsOn /\ ~destroyed
  /\ Then("recover")
  /\ UNCHANGED <<wanted, retries>>

PollAgain ==
  /\ PollIsOn /\ ~destroyed /\ active
  /\ worker' = "idle"
  /\ queue' = Tail(queue)
  /\ pollDelayed' = TRUE
  /\ UNCHANGED <<serviceVars, retriesDelayed, wanted, resourceVars>>

PollStream == PollAgain /\ UNCHANGED retries

\* Ready, and more than a minute after the attempt.
PollHealthy == PollAgain /\ retries' = 0

RecoveryIsOff ==
  /\ worker = "recover" /\ (~wanted \/ destroyed)
  /\ worker' = "idle"
  /\ UNCHANGED <<serviceVars, messageVars, wanted, retries, resourceVars>>

\* recover is not called off any more; releaseStream begins.
BeginRecovery ==
  /\ worker = "recover" /\ wanted /\ ~destroyed
  /\ worker' = "release"
  /\ UNCHANGED <<serviceVars, messageVars, wanted, retries, resourceVars>>

Recover ==
  /\ worker = "release"
  /\ retries < MaxRetries
  /\ Release(queue)
  /\ retries' = retries + 1
  /\ retriesDelayed' = retriesDelayed + 1
  /\ worker' = "idle"
  /\ UNCHANGED <<serviceVars, wanted>>

\* finishWithError, when the retries are used up or the library is missing.
Finish ==
  /\ \/ worker = "release" /\ retries >= MaxRetries
     \/ worker = "finish"
  /\ wanted' = FALSE
  /\ Release(queue)
  /\ stopSelf' = TRUE
  /\ worker' = "idle"
  /\ UNCHANGED <<destroyed, retriesDelayed, retries>>

\* The clean-up onDestroy posted; the thread quits.
HandleDestroy ==
  /\ Message("destroy")
  /\ wanted' = FALSE
  /\ Release(<<>>)
  /\ retriesDelayed' = 0
  /\ worker' = "gone"
  /\ UNCHANGED <<serviceVars, retries>>
-----------------------------------------------------------------------------
Handle ==
  \/ HandleStart \/ HandleRetry \/ HandleError
  \/ AttemptIsOff \/ AttemptFails \/ AttemptSucceeds
  \/ PollIsOff \/ PollFails \/ PollStream \/ PollHealthy
  \/ RecoveryIsOff \/ BeginRecovery \/ Recover \/ Finish \/ HandleDestroy

Next ==
  \/ OnStartCommand \/ AskToStop \/ OnDestroy
  \/ OnError \/ ServerStops
  \/ PollDue \/ RetryDue
  \/ Handle

Spec == Init /\ [][Next]_vars
-----------------------------------------------------------------------------
(* Properties. *)

Number(b) == IF b THEN 1 ELSE 0

\* Every variable keeps its type; no more than MaxRetries retries, and one delayed at a time.
TypeOK ==
  /\ destroyed \in BOOLEAN /\ stopSelf \in BOOLEAN
  /\ worker \in {"idle", "attempt", "recover", "release", "finish", "gone"}
  /\ queue \in Seq({"start", "poll", "error", "stale", "retry", "destroy"})
  /\ pollDelayed \in BOOLEAN /\ retriesDelayed \in 0..1
  /\ wanted \in BOOLEAN /\ retries \in 0..MaxRetries
  /\ \A b \in {handle, encoder, lock, active} : b \in BOOLEAN
  /\ servers \in Nat /\ encoders \in Nat /\ locks \in Nat

\* Every native server, encoder and wake lock is the one the service would release: no
\* attempt begins while another's resources are held.
NothingIsLeaked ==
  /\ servers = Number(handle) /\ encoders = Number(encoder) /\ locks = Number(lock)
  /\ worker = "gone" => ~handle /\ ~encoder /\ ~lock

Pending(what) == Cardinality({i \in DOMAIN queue : queue[i] = what})

\* A wanted stream is never abandoned: between two messages it is either watched by
\* exactly one poll or waiting for exactly one retry.
WantedIsWatched ==
  worker = "idle" /\ wanted /\ ~destroyed =>
    /\ Pending("poll") + Number(pollDelayed) = Number(handle)
    /\ Pending("retry") + retriesDelayed = Number(~handle)

\* "Recovers from bounded transient failures": a stream that keeps failing is given up,
\* unless it is healthy for a minute again and again, or started again.
RecoveryIsBounded ==
  []<><<Recover>>_vars => []<><<PollHealthy \/ HandleStart>>_vars

\* A service asked to stop ends, with its thread, whatever it is recovering from.
StopIsFinal == stopSelf ~> worker = "gone"

\* "Android keeps streaming under a camera foreground service with a wake lock": between
\* two messages a wanted stream of a living service holds the lock.
WantedIsAwake == worker = "idle" /\ wanted /\ ~destroyed => lock
=============================================================================
