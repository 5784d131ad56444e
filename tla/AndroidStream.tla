----------------------------- MODULE AndroidStream -----------------------------
(***************************************************************************)
(* The Android application's stream: StreamService with the CameraEncoder  *)
(* of its attempt.  releaseStream stops the encoder and waits for it       *)
(* before it stops the server; an encoder's errors are messages to the     *)
(* service; the service learns from the native statistics whether the      *)
(* encoder has made the stream ready.                                      *)
(***************************************************************************)
EXTENDS StreamService, CameraEncoder

AndroidInit == Init /\ EncoderInit

\* Recover, Finish and HandleDestroy call releaseStream, and that calls stop first.
Releasing == worker \in {"release", "finish"} \/ Message("destroy")

StopEncoder == Releasing /\ Stop /\ UNCHANGED vars
StopTimesOut == Releasing /\ StopGivesUp /\ UNCHANGED vars

ReleaseStream ==
  /\ StopReturns
  /\ Recover \/ Finish \/ HandleDestroy
  /\ UNCHANGED enc

Attempt == AttemptSucceeds /\ Make

\* "ready" of nativeGetStats: the encoder in use has announced its parameter sets.
Healthy ==
  /\ PollHealthy /\ enc.ready
  /\ UNCHANGED enc

OtherMessage ==
  /\ \/ HandleStart \/ HandleRetry \/ HandleError
     \/ AttemptIsOff \/ AttemptFails
     \/ PollIsOff \/ PollFails \/ PollStream
     \/ RecoveryIsOff \/ BeginRecovery
  /\ UNCHANGED enc

Supervise == StopEncoder \/ ReleaseStream \/ Attempt \/ Healthy \/ OtherMessage

\* Variant: an error before there is a codec is kept to itself.
ReportWithCodec == Fail /\ IF enc.stopped \/ ~enc.codec THEN UNCHANGED vars ELSE OnError

Report == Fail /\ IF enc.stopped THEN UNCHANGED vars ELSE OnError

AndroidNext ==
  \/ (OnStartCommand \/ AskToStop \/ OnDestroy \/ ServerStops \/ PollDue \/ RetryDue) /\ UNCHANGED enc
  \/ Supervise \/ StopTimesOut \/ Report
  \/ (Handler \/ Outside) /\ UNCHANGED vars

AndroidSpec == AndroidInit /\ [][AndroidNext]_<<vars, enc>>

\* Delays elapse, the worker handles its messages, the system destroys a service it has
\* been asked to stop, and the handler thread runs.  Its errors arrive: the strong fairness
\* makes up for the model's bound on the queue, which the code does not have.
AndroidFairness ==
  /\ WF_<<vars, enc>>(OnDestroy /\ UNCHANGED enc)
  /\ WF_<<vars, enc>>(PollDue /\ UNCHANGED enc)
  /\ WF_<<vars, enc>>(RetryDue /\ UNCHANGED enc)
  /\ WF_<<vars, enc>>(Supervise)
  /\ WF_<<vars, enc>>(Handler /\ UNCHANGED vars)
  /\ SF_<<vars, enc>>(Report)

AndroidFairSpec == AndroidSpec /\ AndroidFairness
-----------------------------------------------------------------------------
(* Properties. *)

\* Types; the service has an encoder when one has not been stopped, or is being stopped.
AndroidTypeOK ==
  /\ TypeOK
  /\ enc \in EncoderType
  /\ enc.thread = "running" /\ ~enc.stopped => encoder

\* Once the service has let its encoder go, camera and codec are free for the next attempt,
\* unless stop gave up waiting.  A camera that opened during the clean-up is nobody's: its
\* own onOpened closes it, or it is an orphan (stop, releaseStream).
ReleasedMeansFree ==
  /\ ~encoder => (~enc.codec /\ ~enc.camera) \/ enc.overdue
  /\ CameraIsGivenBack

\* The types, and that the service holds what it has made.
AndroidInv == AndroidTypeOK /\ NothingIsLeaked

\* A stop is final for the service and for its encoder: both threads end.
AndroidStopIsFinal == StopIsFinal /\ StoppedEncoderEnds

\* An encoder that has failed is not left in place: its error finds its way through the
\* service's queue and generations, until the encoder is stopped (fail, recover).
FailedEncoderIsStopped == enc.doing = "failing" ~> enc.stopped
=============================================================================
