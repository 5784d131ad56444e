---------------------------- MODULE WindowsCapture ----------------------------
(***************************************************************************)
(* PlatformPipeline of camrtsp-capture on Windows: the owner (the CLI's    *)
(* main thread), the media worker it starts, and the Source Reader         *)
(* callback that Media Foundation runs on a thread of its own.             *)
(*                                                                         *)
(* The callback queues each captured sample in a bounded channel, or       *)
(* discards it and raises `discontinuity`; it then asks for the next one.  *)
(* The worker polls failure, discontinuity, commands and samples in turn   *)
(* until one of them ends it.  What consume does with a sample, here only  *)
(* that it succeeds or fails, is in HardwareEncoder.  Every start makes a  *)
(* new callback state: the callbacks of an earlier one no longer matter.   *)
(***************************************************************************)
EXTENDS Naturals, Sequences

CONSTANTS
  QueueCapacity,  \* CAPTURE_QUEUE_CAPACITY, 16 in the code
  MaxCommands     \* bound of the model on the commands in flight

ASSUME CapacityAssumption == QueueCapacity \in Nat \ {0} /\ MaxCommands \in Nat \ {0}

VARIABLES
  owner,         \* "idle", "starting", "running" or "stopping"
  commands,      \* the command channel
  startup,       \* the one-slot channel of start's answer
  worker,        \* where the worker is, or "none"
  result,        \* what worker_inner will return, "ok" or "err"
  camera,        \* how many camera sources are activated
  callback,      \* "idle" or where OnReadSample is
  requested,     \* a ReadSample is outstanding
  alive,         \* the callback state's flags and reader
  reader,
  discontinuity,
  failure,
  samples,       \* how many samples the channel holds
  leaked,        \* history: the camera of a failed start was never given back
  unanswered,    \* history: a discard no keyframe request has followed
  told           \* history: the owner has been given an error since it last started

ownerVars == <<owner, commands, startup, told>>
workerVars == <<worker, result, camera, leaked>>
callbackVars == <<callback, requested, alive, reader, discontinuity, failure, samples, unanswered>>
vars == <<ownerVars, workerVars, callbackVars>>

Init ==
  /\ owner = "idle" /\ commands = <<>> /\ startup = <<>> /\ told = FALSE
  /\ worker = "none" /\ result = "ok" /\ camera = 0 /\ leaked = FALSE
  /\ callback = "idle" /\ requested = FALSE
  /\ alive = FALSE /\ reader = FALSE /\ discontinuity = FALSE /\ failure = FALSE
  /\ samples = 0 /\ unanswered = FALSE
-----------------------------------------------------------------------------
(* The owner. *)

Start ==
  /\ owner = "idle"
  /\ owner' = "starting"
  /\ commands' = <<>> /\ startup' = <<>> /\ told' = FALSE
  /\ worker' = "setup" /\ result' = "ok"
  /\ UNCHANGED <<camera, leaked, callbackVars>>

\* The spawn of the worker fails.
StartRefused ==
  /\ owner = "idle"
  /\ told' = TRUE
  /\ UNCHANGED <<owner, commands, startup, workerVars, callbackVars>>

Started ==
  /\ owner = "starting" /\ startup = <<"ok">>
  /\ owner' = "running" /\ startup' = <<>>
  /\ UNCHANGED <<commands, told, workerVars, callbackVars>>

\* The error is returned once the worker has been joined.
NotStarted ==
  /\ owner = "starting" /\ startup = <<"err">> /\ worker = "done"
  /\ owner' = "idle" /\ startup' = <<>> /\ told' = TRUE
  /\ UNCHANGED <<commands, workerVars, callbackVars>>

\* worker_inner owns the receiving end: once it has returned, sending is an error.
Listening == worker \notin {"none", "failed", "done"}

RequestKeyframe ==
  /\ owner = "running" /\ Len(commands) < MaxCommands
  /\ commands' = IF Listening THEN Append(commands, "RequestKeyframe") ELSE commands
  /\ told' = (told \/ ~Listening)
  /\ UNCHANGED <<owner, startup, workerVars, callbackVars>>

\* Variant: stop joins a worker it has not told to stop.
StopUntold ==
  /\ owner = "running"
  /\ owner' = "stopping"
  /\ UNCHANGED <<commands, startup, told, workerVars, callbackVars>>

Stop ==
  /\ owner = "running"
  /\ owner' = "stopping"
  /\ commands' = IF Listening THEN Append(commands, "Stop") ELSE commands
  /\ UNCHANGED <<startup, told, workerVars, callbackVars>>

\* Variant: stop does not join.
StoppedUnjoined ==
  /\ owner = "stopping"
  /\ owner' = "idle"
  /\ UNCHANGED <<commands, startup, told, workerVars, callbackVars>>

\* The join of stop.
Stopped ==
  /\ owner = "stopping" /\ worker = "done"
  /\ owner' = "idle"
  /\ UNCHANGED <<commands, startup, told, workerVars, callbackVars>>
-----------------------------------------------------------------------------
(* The worker: worker_inner and worker. *)

Activate ==
  /\ worker = "setup"
  /\ worker' = "opened"
  /\ camera' = camera + 1
  /\ callback' = "idle" /\ requested' = FALSE /\ alive' = TRUE /\ reader' = FALSE
  /\ discontinuity' = FALSE /\ failure' = FALSE /\ samples' = 0 /\ unanswered' = FALSE
  /\ UNCHANGED <<ownerVars, result, leaked>>

\* An early return before set_reader drops the source, and the reader if there is one,
\* without a Shutdown: Media Foundation may give the camera back, or may not.
SetupFails ==
  /\ worker \in {"setup", "opened"}
  /\ worker' = "failed" /\ result' = "err"
  /\ \/ /\ camera' = IF worker = "opened" THEN camera - 1 ELSE camera
        /\ UNCHANGED leaked
     \/ /\ worker = "opened" /\ ~leaked
        /\ leaked' = TRUE
        /\ UNCHANGED camera
  /\ UNCHANGED <<ownerVars, callbackVars>>

FirstRead ==
  /\ worker = "opened"
  /\ worker' = "offer"
  /\ reader' = TRUE /\ requested' = TRUE
  /\ UNCHANGED <<ownerVars, result, camera, leaked, callback, alive, discontinuity, failure,
                 samples, unanswered>>

\* After set_reader the callback state and the reader hold each other, and this early
\* return does not separate them.  The bound lets a start keep its camera once.
FirstReadFails ==
  /\ worker = "opened" /\ ~leaked
  /\ worker' = "failed" /\ result' = "err"
  /\ reader' = TRUE /\ leaked' = TRUE
  /\ UNCHANGED <<ownerVars, camera, callback, requested, alive, discontinuity, failure,
                 samples, unanswered>>

Offer ==
  /\ worker = "offer" /\ startup = <<>>
  /\ startup' = <<"ok">>
  /\ worker' = "failure"
  /\ UNCHANGED <<owner, commands, told, result, camera, leaked, callbackVars>>

\* Variant: the loop does not look at the callback's failure.
CheckNoFailure ==
  /\ worker = "failure"
  /\ worker' = "discontinuity"
  /\ UNCHANGED <<ownerVars, result, camera, leaked, callbackVars>>

CheckFailure ==
  /\ worker = "failure"
  /\ worker' = IF failure THEN "stop" ELSE "discontinuity"
  /\ result' = IF failure THEN "err" ELSE result
  /\ UNCHANGED <<ownerVars, camera, leaked, callbackVars>>

TakeDiscontinuity ==
  /\ worker = "discontinuity"
  /\ discontinuity' = FALSE
  /\ worker' = IF discontinuity THEN "request" ELSE "command"
  /\ UNCHANGED <<ownerVars, result, camera, leaked, callback, requested, alive, reader, failure,
                 samples, unanswered>>

\* mode.request_keyframe, best effort: a pass-through camera has no such control.
AnswerDiscontinuity ==
  /\ worker = "request"
  /\ unanswered' = FALSE
  /\ worker' = "command"
  /\ UNCHANGED <<ownerVars, result, camera, leaked, callback, requested, alive, reader,
                 discontinuity, failure, samples>>

TakeCommand ==
  /\ worker = "command"
  /\ commands' = IF commands = <<>> THEN <<>> ELSE Tail(commands)
  /\ worker' = IF commands # <<>> /\ Head(commands) = "Stop" THEN "stop" ELSE "receive"
  /\ UNCHANGED <<owner, startup, told, result, camera, leaked, callbackVars>>

\* mode.consume: an unreadable or empty sample, or the encoder's error, ends the loop.
Consume ==
  \/ worker' = "failure" /\ UNCHANGED result
  \/ worker' = "stop" /\ result' = "err"

\* Variant: a sample received counts as the end of the discontinuity.
ReceiveForgetsDiscard ==
  /\ worker = "receive" /\ samples > 0
  /\ samples' = samples - 1
  /\ discontinuity' = FALSE
  /\ Consume
  /\ UNCHANGED <<ownerVars, camera, leaked, callback, requested, alive, reader, failure,
                 unanswered>>

Receive ==
  /\ worker = "receive" /\ samples > 0
  /\ samples' = samples - 1
  /\ Consume
  /\ UNCHANGED <<ownerVars, camera, leaked, callback, requested, alive, reader, discontinuity,
                 failure, unanswered>>

ReceiveTimesOut ==
  /\ worker = "receive" /\ samples = 0
  /\ worker' = "failure"
  /\ UNCHANGED <<ownerVars, result, camera, leaked, callbackVars>>

StopCallback ==
  /\ worker = "stop"
  /\ alive' = FALSE /\ reader' = FALSE
  /\ worker' = "close"
  /\ UNCHANGED <<ownerVars, result, camera, leaked, callback, requested, discontinuity, failure,
                 samples, unanswered>>

\* mode.shutdown, reader.Flush and source.Shutdown; an error is then reported.
Close ==
  /\ worker = "close"
  /\ requested' = FALSE
  /\ camera' = camera - 1
  /\ worker' = IF result = "err" THEN "failed" ELSE "done"
  /\ UNCHANGED <<ownerVars, result, leaked, callback, alive, reader, discontinuity, failure,
                 samples, unanswered>>

\* startup.send(Err): refused when start has returned, waiting while its slot is taken.
Report ==
  /\ worker = "failed"
  /\ owner = "starting" => startup = <<>>
  /\ startup' = IF owner = "starting" THEN <<"err">> ELSE startup
  /\ worker' = "done"
  /\ UNCHANGED <<owner, commands, told, result, camera, leaked, callbackVars>>
-----------------------------------------------------------------------------
(* SourceReaderCallback::OnReadSample, called for each outstanding ReadSample. *)

OnReadSample ==
  /\ callback = "idle" /\ requested
  /\ requested' = FALSE
  /\ callback' \in IF alive THEN {"error", "sample", "next"} ELSE {"idle"}
  /\ UNCHANGED <<ownerVars, workerVars, alive, reader, discontinuity, failure, samples, unanswered>>

\* A bad status, an error flag or a change of media type: no further sample is requested.
CaptureFails ==
  /\ callback = "error"
  /\ failure' = TRUE
  /\ callback' = "idle"
  /\ UNCHANGED <<ownerVars, workerVars, requested, alive, reader, discontinuity, samples, unanswered>>

Queue ==
  /\ callback = "sample" /\ samples < QueueCapacity
  /\ samples' = samples + 1
  /\ callback' = "next"
  /\ UNCHANGED <<ownerVars, workerVars, requested, alive, reader, discontinuity, failure, unanswered>>

Discard ==
  /\ callback = "sample" /\ samples = QueueCapacity
  /\ unanswered' = TRUE
  /\ callback' = "discarded"
  /\ UNCHANGED <<ownerVars, workerVars, requested, alive, reader, discontinuity, failure, samples>>

RaiseDiscontinuity ==
  /\ callback = "discarded"
  /\ discontinuity' = TRUE
  /\ callback' = "next"
  /\ UNCHANGED <<ownerVars, workerVars, requested, alive, reader, failure, samples, unanswered>>

\* request_next_sample up to its clone of the reader.
NextSample ==
  /\ callback = "next"
  /\ callback' = IF alive /\ reader THEN "read" ELSE "idle"
  /\ UNCHANGED <<ownerVars, workerVars, requested, alive, reader, discontinuity, failure, samples,
                 unanswered>>

\* Variant: the failure of ReadSample is ignored.
ReadSampleUnchecked ==
  /\ callback = "read"
  /\ callback' = "idle"
  /\ requested' \in BOOLEAN
  /\ UNCHANGED <<ownerVars, workerVars, alive, reader, discontinuity, failure, samples, unanswered>>

\* ReadSample on the clone, which may outlive the callback state's stop.
ReadSample ==
  /\ callback = "read"
  /\ callback' = "idle"
  /\ \/ requested' = TRUE /\ UNCHANGED failure
     \/ failure' = TRUE /\ UNCHANGED requested
  /\ UNCHANGED <<ownerVars, workerVars, alive, reader, discontinuity, samples, unanswered>>
-----------------------------------------------------------------------------
Owner == Start \/ StartRefused \/ Started \/ NotStarted \/ RequestKeyframe \/ Stop \/ Stopped
Worker ==
  \/ Activate \/ SetupFails \/ FirstRead \/ FirstReadFails \/ Offer
  \/ CheckFailure \/ TakeDiscontinuity \/ AnswerDiscontinuity \/ TakeCommand
  \/ Receive \/ ReceiveTimesOut \/ StopCallback \/ Close \/ Report
Callback ==
  \/ OnReadSample \/ CaptureFails \/ Queue \/ Discard \/ RaiseDiscontinuity
  \/ NextSample \/ ReadSample

Next == Owner \/ Worker \/ Callback

Spec == Init /\ [][Next]_vars

\* The worker and a callback that has begun run on; the owner waits only inside start
\* and stop.  Nothing obliges it to start, to stop or to ask for a keyframe, nor the
\* camera to deliver.
Fairness ==
  /\ WF_vars(Worker)
  /\ WF_vars(callback # "idle" /\ Callback)
  /\ WF_vars(Started \/ NotStarted \/ Stopped)

FairSpec == Spec /\ Fairness
-----------------------------------------------------------------------------
(* Properties. *)

InLoop == worker \in {"offer", "failure", "discontinuity", "request", "command", "receive"}

\* Every variable keeps its type, and the sample channel its capacity.
TypeOK ==
  /\ owner \in {"idle", "starting", "running", "stopping"}
  /\ commands \in Seq({"RequestKeyframe", "Stop"}) /\ Len(commands) <= MaxCommands + 1
  /\ startup \in {<<>>, <<"ok">>, <<"err">>}
  /\ InLoop \/ worker \in {"none", "setup", "opened", "stop", "close", "failed", "done"}
  /\ result \in {"ok", "err"}
  /\ camera \in 0..2
  /\ callback \in {"idle", "error", "sample", "discarded", "next", "read"}
  /\ requested \in BOOLEAN /\ alive \in BOOLEAN /\ reader \in BOOLEAN
  /\ discontinuity \in BOOLEAN /\ failure \in BOOLEAN
  /\ samples \in 0..QueueCapacity
  /\ leaked \in BOOLEAN /\ unanswered \in BOOLEAN /\ told \in BOOLEAN

Number(b) == IF b THEN 1 ELSE 0

\* Capture never falls silent on its own: while the worker loops, exactly one request for
\* a sample is outstanding or being answered, or a failure waits for the worker.
CaptureKeepsAsking ==
  InLoop => failure \/ Number(requested) + Number(callback # "idle") = 1

\* "The downstream encoder will be asked for an IDR": as long as the worker loops, a
\* discarded sample is remembered until a keyframe request follows it, however the
\* callback's store and the worker's swap interleave.
DiscardIsRemembered ==
  InLoop /\ unanswered => discontinuity \/ callback = "discarded" \/ worker = "request"

\* The camera is opened by one worker at a time and returned by each, except by a start
\* that fails once it has activated it: nothing there shuts the source down, and from the
\* first ReadSample on reader and callback state hold each other.
CameraIsHeldOnce ==
  camera = Number(InLoop \/ worker \in {"opened", "stop", "close"}) + Number(leaked)

\* The types, with the limits of both channels, and who has the camera.
PipelineInv == TypeOK /\ CameraIsHeldOnce

\* start and stop return, whatever the camera and the encoder do.
OwnerIsNotBlocked == owner \in {"starting", "stopping"} ~> owner \in {"idle", "running"}

\* A capture failure ends the worker.
FailureEndsCapture == failure /\ InLoop ~> worker = "done"

\* "Failure is surfaced to the owner": once the capture has failed, the owner is given an
\* error or stops the pipeline of its own accord.
FailureIsSurfaced == failure /\ owner = "running" ~> told \/ owner # "running"
=============================================================================
