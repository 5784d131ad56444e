------------------------- MODULE WindowsCaptureProofs -------------------------
(***************************************************************************)
(* The invariants of the Windows pipeline, for a sample channel and a      *)
(* command channel of any capacity.                                        *)
(***************************************************************************)
EXTENDS WindowsCapture, SequenceTheorems, TLAPS

USE CapacityAssumption
-----------------------------------------------------------------------------
(* The inductive invariant. *)

\* stop finds room for its command: nothing is sent before start has returned.
BacklogFits == owner \in {"starting", "running"} => Len(commands) <= MaxCommands

\* start is called only when the last worker has been joined.
IdleMeansJoined == owner = "idle" => worker \in {"none", "done"}

\* Until the first ReadSample the new callback state has never been called.
OpenedIsFresh ==
  worker = "opened" => /\ callback = "idle" /\ ~requested /\ alive
                       /\ ~unanswered

\* The callback state keeps its reader while the worker loops: only the worker stops it.
LoopIsConnected == InLoop => alive /\ reader

\* CaptureKeepsAsking without its count.
AsksOnce == InLoop => failure \/ (requested <=> callback = "idle")

IInv ==
  /\ TypeOK
  /\ CameraIsHeldOnce
  /\ BacklogFits
  /\ IdleMeansJoined
  /\ OpenedIsFresh
  /\ LoopIsConnected
  /\ AsksOnce
  /\ DiscardIsRemembered

\* Who has the camera: a worker from its activation to its shutdown.
HasCamera == InLoop \/ worker \in {"opened", "stop", "close"}

LEMMA Counted ==
  ASSUME NEW n, NEW h \in BOOLEAN, NEW l \in BOOLEAN
  PROVE  n = Number(h) + Number(l) <=> /\ h /\ l => n = 2
                                       /\ h /\ ~l => n = 1
                                       /\ ~h /\ l => n = 1
                                       /\ ~h /\ ~l => n = 0
<1>1. /\ h => Number(h) = 1
      /\ ~h => Number(h) = 0
      /\ l => Number(l) = 1
      /\ ~l => Number(l) = 0
  BY DEF Number
<1>2. 1 + 1 = 2 /\ 1 + 0 = 1 /\ 0 + 1 = 1 /\ 0 + 0 = 0
  OBVIOUS
<1>3. CASE h
  <2>1. l => (n = Number(h) + Number(l) <=> n = 2)
    BY <1>1, <1>2, <1>3, Zenon
  <2>2. ~l => (n = Number(h) + Number(l) <=> n = 1)
    BY <1>1, <1>2, <1>3, Zenon
  <2> QED
    BY <1>3, <2>1, <2>2, Zenon
<1>4. CASE ~h
  <2>1. l => (n = Number(h) + Number(l) <=> n = 1)
    BY <1>1, <1>2, <1>4, Zenon
  <2>2. ~l => (n = Number(h) + Number(l) <=> n = 0)
    BY <1>1, <1>2, <1>4, Zenon
  <2> QED
    BY <1>4, <2>1, <2>2, Zenon
<1> QED
  BY <1>3, <1>4
-----------------------------------------------------------------------------
(* The steps. *)

\* What a step does with the camera: activate it, return it, or never give it back.
LEMMA CameraMoves ==
  ASSUME IInv, Next
  PROVE  \/ camera' = camera /\ leaked' = leaked /\ (HasCamera' <=> HasCamera)
         \/ camera' = camera + 1 /\ leaked' = leaked /\ ~HasCamera /\ HasCamera'
         \/ camera' = camera - 1 /\ leaked' = leaked /\ HasCamera /\ ~HasCamera'
         \/ camera' = camera /\ ~leaked /\ leaked' /\ HasCamera /\ ~HasCamera'
<1> USE DEF HasCamera, InLoop, ownerVars, workerVars, callbackVars
<1>1. CASE Start
  <2>1. worker \in {"none", "done"} /\ worker' = "setup" /\ UNCHANGED <<camera, leaked>>
    BY <1>1 DEF Start, IInv, IdleMeansJoined
  <2> QED
    BY <2>1
<1>2. CASE StartRefused \/ Started \/ NotStarted \/ RequestKeyframe \/ Stop \/ Stopped
  BY <1>2 DEF StartRefused, Started, NotStarted, RequestKeyframe, Stop, Stopped
<1>3. CASE Activate
  BY <1>3 DEF Activate
<1>4. CASE SetupFails
  BY <1>4 DEF SetupFails
<1>5. CASE FirstRead \/ Offer \/ CheckFailure \/ TakeDiscontinuity \/ AnswerDiscontinuity
  BY <1>5 DEF FirstRead, Offer, CheckFailure, TakeDiscontinuity, AnswerDiscontinuity
<1>6. CASE FirstReadFails
  BY <1>6 DEF FirstReadFails
<1>7. CASE TakeCommand \/ ReceiveTimesOut \/ StopCallback \/ Report
  BY <1>7 DEF TakeCommand, ReceiveTimesOut, StopCallback, Report
<1>8. CASE Receive
  BY <1>8 DEF Receive, Consume
<1>9. CASE Close
  BY <1>9 DEF Close
<1>10. CASE Callback
  BY <1>10 DEF Callback, OnReadSample, CaptureFails, Queue, Discard, RaiseDiscontinuity,
               NextSample, ReadSample
<1> QED
  BY <1>1, <1>2, <1>3, <1>4, <1>5, <1>6, <1>7, <1>8, <1>9, <1>10 DEF Next, Owner, Worker

\* Every step keeps the types of the worker's and the callback's state.
LEMMA PlainTypes ==
  ASSUME IInv, Next
  PROVE  /\ InLoop' \/ worker' \in {"none", "setup", "opened", "stop", "close", "failed", "done"}
         /\ result' \in {"ok", "err"} /\ leaked' \in BOOLEAN
         /\ callback' \in {"idle", "error", "sample", "discarded", "next", "read"}
         /\ requested' \in BOOLEAN /\ alive' \in BOOLEAN /\ reader' \in BOOLEAN
         /\ discontinuity' \in BOOLEAN /\ failure' \in BOOLEAN
         /\ samples' \in 0..QueueCapacity /\ unanswered' \in BOOLEAN
<1> USE DEF IInv, TypeOK, InLoop, ownerVars, workerVars, callbackVars
<1>1. CASE Owner
  BY <1>1 DEF Owner, Start, StartRefused, Started, NotStarted, RequestKeyframe, Stop, Stopped
<1>2. CASE Activate
  <2>1. samples' = 0 /\ 0 \in 0..QueueCapacity
    BY <1>2 DEF Activate
  <2>2. /\ alive' \in BOOLEAN /\ reader' \in BOOLEAN /\ requested' \in BOOLEAN
        /\ discontinuity' \in BOOLEAN /\ failure' \in BOOLEAN /\ unanswered' \in BOOLEAN
    BY <1>2 DEF Activate
  <2>3. worker' = "opened" /\ callback' = "idle" /\ UNCHANGED <<result, leaked>>
    BY <1>2 DEF Activate
  <2> QED
    BY <2>1, <2>2, <2>3
<1>3. CASE SetupFails
  BY <1>3 DEF SetupFails
<1>4. CASE FirstRead
  BY <1>4 DEF FirstRead
<1>5. CASE FirstReadFails
  BY <1>5 DEF FirstReadFails
<1>6. CASE Offer
  BY <1>6 DEF Offer
<1>7. CASE CheckFailure
  BY <1>7 DEF CheckFailure
<1>8. CASE TakeDiscontinuity
  BY <1>8 DEF TakeDiscontinuity
<1>9. CASE AnswerDiscontinuity
  BY <1>9 DEF AnswerDiscontinuity
<1>10. CASE TakeCommand
  BY <1>10 DEF TakeCommand
<1>11. CASE Receive
  BY <1>11 DEF Receive, Consume
<1>12. CASE ReceiveTimesOut
  BY <1>12 DEF ReceiveTimesOut
<1>13. CASE StopCallback
  BY <1>13 DEF StopCallback
<1>14. CASE Close
  BY <1>14 DEF Close
<1>15. CASE Report
  BY <1>15 DEF Report
<1>16. CASE OnReadSample
  BY <1>16 DEF OnReadSample
<1>17. CASE CaptureFails
  BY <1>17 DEF CaptureFails
<1>18. CASE Queue
  BY <1>18 DEF Queue
<1>19. CASE Discard
  BY <1>19 DEF Discard
<1>20. CASE RaiseDiscontinuity
  BY <1>20 DEF RaiseDiscontinuity
<1>21. CASE NextSample
  BY <1>21 DEF NextSample
<1>22. CASE ReadSample
  <2>1. requested' \in BOOLEAN /\ failure' \in BOOLEAN
    BY <1>22 DEF ReadSample
  <2> QED
    BY <1>22, <2>1 DEF ReadSample
<1> QED
  BY <1>1, <1>2, <1>3, <1>4, <1>5, <1>6, <1>7, <1>8, <1>9, <1>10, <1>11, <1>12,
     <1>13, <1>14, <1>15, <1>16, <1>17, <1>18, <1>19, <1>20, <1>21, <1>22
     DEF Next, Worker, Callback

\* The owner's channels: a command goes in only after start has returned, and never
\* finds more than MaxCommands before it.
LEMMA ChannelTypes ==
  ASSUME IInv, Next
  PROVE  /\ owner' \in {"idle", "starting", "running", "stopping"} /\ told' \in BOOLEAN
         /\ startup' \in {<<>>, <<"ok">>, <<"err">>}
         /\ commands' \in Seq({"RequestKeyframe", "Stop"})
         /\ Len(commands') <= MaxCommands + 1
         /\ BacklogFits'
<1>t. /\ owner \in {"idle", "starting", "running", "stopping"} /\ told \in BOOLEAN
      /\ startup \in {<<>>, <<"ok">>, <<"err">>}
      /\ commands \in Seq({"RequestKeyframe", "Stop"}) /\ Len(commands) \in Nat
      /\ Len(commands) <= MaxCommands + 1 /\ BacklogFits
  BY LenProperties DEF IInv, TypeOK
<1>a. ASSUME NEW c \in {"RequestKeyframe", "Stop"}
      PROVE  /\ Append(commands, c) \in Seq({"RequestKeyframe", "Stop"})
             /\ Len(Append(commands, c)) = Len(commands) + 1
  BY <1>t, AppendProperties
<1>1. CASE Start
  <2>1. commands' \in Seq({"RequestKeyframe", "Stop"}) /\ Len(commands') = 0
    BY <1>1, EmptySeq, Zenon DEF Start
  <2>2. /\ owner' \in {"idle", "starting", "running", "stopping"} /\ told' \in BOOLEAN
        /\ startup' \in {<<>>, <<"ok">>, <<"err">>}
    BY <1>1, Zenon DEF Start
  <2>3. 0 <= MaxCommands /\ 0 <= MaxCommands + 1
    OBVIOUS
  <2> QED
    BY <2>1, <2>2, <2>3, Zenon DEF BacklogFits
<1>2. CASE StartRefused \/ Started \/ NotStarted \/ Stopped
  <2>1. UNCHANGED commands /\ (owner' \in {"starting", "running"} => owner = "starting")
    BY <1>2 DEF StartRefused, Started, NotStarted, Stopped
  <2>2. /\ owner' \in {"idle", "starting", "running", "stopping"} /\ told' \in BOOLEAN
        /\ startup' \in {<<>>, <<"ok">>, <<"err">>}
    BY <1>t, <1>2 DEF StartRefused, Started, NotStarted, Stopped
  <2> QED
    BY <1>t, <2>1, <2>2 DEF BacklogFits
<1>3. CASE RequestKeyframe
  <2>1. /\ UNCHANGED <<owner, startup>> /\ Len(commands) < MaxCommands
        /\ commands' = commands \/ commands' = Append(commands, "RequestKeyframe")
    BY <1>3 DEF RequestKeyframe
  <2>2. told' \in BOOLEAN
    BY <1>3, <1>t DEF RequestKeyframe, Listening
  <2>3. commands' \in Seq({"RequestKeyframe", "Stop"}) /\ Len(commands') <= MaxCommands
    BY <1>t, <1>a, <2>1
  <2> QED
    BY <1>t, <2>1, <2>2, <2>3 DEF BacklogFits
<1>4. CASE Stop
  <2>1. /\ owner = "running" /\ owner' = "stopping" /\ UNCHANGED <<startup, told>>
        /\ commands' = commands \/ commands' = Append(commands, "Stop")
    BY <1>4 DEF Stop
  <2>2. Len(commands) <= MaxCommands
    BY <1>t, <2>1 DEF BacklogFits
  <2>3. commands' \in Seq({"RequestKeyframe", "Stop"}) /\ Len(commands') <= MaxCommands + 1
    BY <1>t, <1>a, <2>1, <2>2
  <2> QED
    BY <1>t, <2>1, <2>3 DEF BacklogFits
<1>5. CASE TakeCommand
  <2>1. UNCHANGED <<owner, startup, told>>
    BY <1>5 DEF TakeCommand
  <2>2. CASE commands = <<>>
    <3>1. commands' = commands
      BY <1>5, <2>2, Zenon DEF TakeCommand
    <3> QED
      BY <1>t, <2>1, <3>1 DEF BacklogFits
  <2>3. CASE commands # <<>>
    <3>1. commands' = Tail(commands)
      BY <1>5, <2>3 DEF TakeCommand
    <3>2. /\ commands' \in Seq({"RequestKeyframe", "Stop"})
          /\ Len(commands') = Len(commands) - 1
      BY <1>t, <2>3, <3>1, HeadTailProperties
    <3> QED
      BY <1>t, <2>1, <3>2 DEF BacklogFits
  <2> QED
    BY <2>2, <2>3
<1>6. CASE Worker /\ ~TakeCommand
  <2>1. UNCHANGED <<owner, commands, told>>
    BY <1>6 DEF Worker, Activate, SetupFails, FirstRead, FirstReadFails, Offer, CheckFailure,
                TakeDiscontinuity, AnswerDiscontinuity, Receive, ReceiveTimesOut,
                StopCallback, Close, Report, ownerVars
  <2>2. startup' = startup \/ startup' = <<"ok">> \/ startup' = <<"err">>
    BY <1>6 DEF Worker, Activate, SetupFails, FirstRead, FirstReadFails, Offer, CheckFailure,
                TakeDiscontinuity, AnswerDiscontinuity, Receive, ReceiveTimesOut,
                StopCallback, Close, Report, ownerVars
  <2> QED
    BY <1>t, <2>1, <2>2 DEF BacklogFits
<1>7. CASE Callback
  <2>1. UNCHANGED ownerVars
    BY <1>7 DEF Callback, OnReadSample, CaptureFails, Queue, Discard, RaiseDiscontinuity,
                NextSample, ReadSample
  <2> QED
    BY <1>t, <2>1 DEF BacklogFits, ownerVars
<1> QED
  BY <1>1, <1>2, <1>3, <1>4, <1>5, <1>6, <1>7 DEF Next, Owner, Worker

\* start follows a join, and the worker that is started has a fresh callback state
\* until it asks for its first sample.
LEMMA OwnerWaits ==
  ASSUME IInv, Next
  PROVE  IdleMeansJoined' /\ OpenedIsFresh'
<1> USE DEF IInv, IdleMeansJoined, OpenedIsFresh, ownerVars, workerVars, callbackVars
<1>1. CASE Owner
  BY <1>1 DEF Owner, Start, StartRefused, Started, NotStarted, RequestKeyframe, Stop, Stopped
<1>2. CASE Worker
  <2>1. CASE Activate
    BY <1>2, <2>1 DEF Activate
  <2>2. CASE SetupFails \/ FirstRead \/ FirstReadFails \/ Offer
    BY <1>2, <2>2 DEF SetupFails, FirstRead, FirstReadFails, Offer
  <2>3. CASE CheckFailure \/ TakeDiscontinuity \/ AnswerDiscontinuity \/ TakeCommand
    BY <1>2, <2>3 DEF CheckFailure, TakeDiscontinuity, AnswerDiscontinuity, TakeCommand
  <2>4. CASE Receive \/ ReceiveTimesOut \/ StopCallback
    BY <1>2, <2>4 DEF Receive, Consume, ReceiveTimesOut, StopCallback
  <2>5. CASE Close \/ Report
    BY <1>2, <2>5 DEF Close, Report
  <2> QED
    BY <1>2, <2>1, <2>2, <2>3, <2>4, <2>5 DEF Worker
<1>3. CASE Callback
  BY <1>3 DEF Callback, OnReadSample, CaptureFails, Queue, Discard, RaiseDiscontinuity,
              NextSample, ReadSample
<1> QED
  BY <1>1, <1>2, <1>3 DEF Next

\* While the worker loops: the callback state is connected, asks for one sample at a
\* time, and remembers what it discarded.
LEMMA LoopKeeps ==
  ASSUME IInv, Next
  PROVE  LoopIsConnected' /\ AsksOnce' /\ DiscardIsRemembered'
<1> USE DEF IInv, LoopIsConnected, AsksOnce, DiscardIsRemembered, InLoop,
            ownerVars, workerVars, callbackVars
<1>t. /\ requested \in BOOLEAN /\ failure \in BOOLEAN /\ unanswered \in BOOLEAN
      /\ discontinuity \in BOOLEAN /\ alive \in BOOLEAN /\ reader \in BOOLEAN
  BY DEF TypeOK
<1>1. CASE Owner
  BY <1>1, <1>t DEF Owner, Start, StartRefused, Started, NotStarted, RequestKeyframe, Stop, Stopped
<1>2. CASE Activate
  BY <1>2 DEF Activate
<1>3. CASE SetupFails
  BY <1>3 DEF SetupFails
<1>4. CASE FirstRead
  BY <1>4 DEF FirstRead, OpenedIsFresh
<1>5. CASE FirstReadFails
  BY <1>5 DEF FirstReadFails
<1>6. CASE Offer
  BY <1>6 DEF Offer
<1>7. CASE CheckFailure
  BY <1>7 DEF CheckFailure
<1>8. CASE TakeDiscontinuity
  BY <1>8, <1>t DEF TakeDiscontinuity
<1>9. CASE AnswerDiscontinuity
  BY <1>9 DEF AnswerDiscontinuity
<1>10. CASE TakeCommand
  BY <1>10 DEF TakeCommand
<1>11. CASE Receive
  BY <1>11 DEF Receive, Consume
<1>12. CASE ReceiveTimesOut
  BY <1>12 DEF ReceiveTimesOut
<1>13. CASE StopCallback \/ Close \/ Report
  BY <1>13 DEF StopCallback, Close, Report
<1>14. CASE OnReadSample
  BY <1>14, <1>t DEF OnReadSample
<1>15. CASE CaptureFails
  BY <1>15 DEF CaptureFails
<1>16. CASE Queue
  BY <1>16 DEF Queue
<1>17. CASE Discard
  BY <1>17 DEF Discard
<1>18. CASE RaiseDiscontinuity
  BY <1>18 DEF RaiseDiscontinuity
<1>19. CASE NextSample
  BY <1>19 DEF NextSample
<1>20. CASE ReadSample
  BY <1>20, <1>t DEF ReadSample
<1> QED
  BY <1>1, <1>2, <1>3, <1>4, <1>5, <1>6, <1>7, <1>8, <1>9, <1>10, <1>11, <1>12, <1>13,
     <1>14, <1>15, <1>16, <1>17, <1>18, <1>19, <1>20
     DEF Next, Worker, Callback
-----------------------------------------------------------------------------
(* The theorems. *)

\* The worker and the callback keep the invariant however their steps interleave.
THEOREM PipelineInvariance == Spec => []IInv
<1>1. Init => IInv
  <2> SUFFICES ASSUME Init PROVE IInv
    OBVIOUS
  <2>1. commands \in Seq({"RequestKeyframe", "Stop"}) /\ Len(commands) = 0
    BY EmptySeq, Zenon DEF Init
  <2>2. 0 <= MaxCommands + 1 /\ 0 \in 0..QueueCapacity /\ 0 \in 0..2
    OBVIOUS
  <2>3. TypeOK
    BY <2>1, <2>2, Zenon DEF Init, TypeOK
  <2>4. CameraIsHeldOnce
    <3>1. camera = 0 /\ ~leaked /\ ~HasCamera
      BY DEF Init, HasCamera, InLoop
    <3> QED
      BY <3>1 DEF CameraIsHeldOnce, HasCamera, Number
  <2>5. IdleMeansJoined /\ OpenedIsFresh /\ ~InLoop /\ BacklogFits
    BY DEF Init, IdleMeansJoined, OpenedIsFresh, InLoop, BacklogFits
  <2> QED
    BY <2>3, <2>4, <2>5 DEF IInv, LoopIsConnected, AsksOnce, DiscardIsRemembered
<1>2. IInv /\ [Next]_vars => IInv'
  <2> SUFFICES ASSUME IInv, [Next]_vars PROVE IInv'
    OBVIOUS
  <2>1. CASE Next
    <3>b. /\ HasCamera \in BOOLEAN /\ leaked \in BOOLEAN
          /\ HasCamera' \in BOOLEAN /\ leaked' \in BOOLEAN
      BY <2>1, PlainTypes DEF IInv, TypeOK, HasCamera, InLoop
    <3>1. camera = Number(HasCamera) + Number(leaked)
      BY DEF IInv, CameraIsHeldOnce, HasCamera
    <3>2. /\ HasCamera /\ leaked => camera = 2
          /\ HasCamera /\ ~leaked => camera = 1
          /\ ~HasCamera /\ leaked => camera = 1
          /\ ~HasCamera /\ ~leaked => camera = 0
      BY <3>b, <3>1, Counted, Zenon
    <3>3. /\ HasCamera' /\ leaked' => camera' = 2
          /\ HasCamera' /\ ~leaked' => camera' = 1
          /\ ~HasCamera' /\ leaked' => camera' = 1
          /\ ~HasCamera' /\ ~leaked' => camera' = 0
      BY <2>1, <3>b, <3>2, CameraMoves
    <3>4. camera' = Number(HasCamera') + Number(leaked')
      BY <3>b, <3>3, Counted, Zenon
    <3>5. camera' \in 0..2
      BY <3>b, <3>3
    <3>6. CameraIsHeldOnce'
      BY <3>4 DEF CameraIsHeldOnce, HasCamera
    <3>7. TypeOK' /\ BacklogFits'
      BY <2>1, <3>5, PlainTypes, ChannelTypes, Zenon DEF TypeOK
    <3> QED
      BY <2>1, <3>6, <3>7, OwnerWaits, LoopKeeps DEF IInv
  <2>2. CASE UNCHANGED vars
    BY <2>2 DEF vars, ownerVars, workerVars, callbackVars, IInv, TypeOK, CameraIsHeldOnce,
                BacklogFits, IdleMeansJoined, OpenedIsFresh, LoopIsConnected, AsksOnce,
                DiscardIsRemembered, InLoop
  <2> QED
    BY <2>1, <2>2
<1> QED
  BY <1>1, <1>2, PTL DEF Spec

\* The limits of both channels, and the camera held by one worker at a time and
\* returned by each, but for the start whose first ReadSample fails.
THEOREM PipelineHolds == Spec => []PipelineInv
<1>1. IInv => PipelineInv
  BY DEF IInv, PipelineInv
<1> QED
  BY <1>1, PipelineInvariance, PTL

\* Capture does not fall silent: while the worker loops, exactly one sample is
\* requested or being answered, or a failure waits for the worker (OnReadSample).
THEOREM AskingHolds == Spec => []CaptureKeepsAsking
<1>1. IInv => CaptureKeepsAsking
  <2> SUFFICES ASSUME IInv, InLoop, ~failure
               PROVE  Number(requested) + Number(callback # "idle") = 1
    BY DEF CaptureKeepsAsking
  <2>1. requested \in BOOLEAN /\ (requested <=> ~(callback # "idle"))
    BY DEF IInv, TypeOK, AsksOnce
  <2> QED
    BY <2>1, Counted, Zenon
<1> QED
  BY <1>1, PipelineInvariance, PTL

\* A discarded sample is remembered until a keyframe request follows it, however the
\* callback's store and the worker's swap interleave.
THEOREM DiscardHolds == Spec => []DiscardIsRemembered
<1>1. IInv => DiscardIsRemembered
  BY DEF IInv
<1> QED
  BY <1>1, PipelineInvariance, PTL
=============================================================================
