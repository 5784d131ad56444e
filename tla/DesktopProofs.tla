---------------------------- MODULE DesktopProofs ----------------------------
(***************************************************************************)
(* The invariants of the command line program on macOS, for any number of  *)
(* frames in VideoToolbox and any limit of the watchdog.                   *)
(***************************************************************************)
EXTENDS Desktop, SequenceTheorems, TLAPS

USE MaxFramesAssumption, FrameLimitAssumption
-----------------------------------------------------------------------------
(* The inductive invariant. *)

Starting == {"authorize", "asking", "attach", "hardware", "software", "begin"}
Stopping == {"stop", "clear", "drain", "complete", "free"}

\* Main is in the owner's call while that call has steps to take, and the server follows
\* main.
InStep ==
  /\ main \in {"find", "bind"} => step = "idle" /\ server = "none"
  /\ main = "start" => step \in Starting \cup {"running", "failed"} /\ server = "bound"
  /\ main = "serve" => step = "running" /\ server \in {"running", "failed"}
  /\ main \in {"find", "bind", "start", "serve"} => ~stopping
  /\ main = "stop" => step \in Stopping \cup {"stopped"}
  /\ main = "join" => step = "stopped"
  /\ main \in {"stop", "join"} => server \in {"running", "failed", "done"}
  /\ main = "exited" => /\ step \in {"idle", "failed", "stopped"}
                        /\ server \in {"none", "failed", "done"}

\* The context is made before the encoder and freed with it, in every way start ends.
EncoderInStep ==
  /\ step \in {"idle", "authorize", "asking", "attach"} => encoder = "none" /\ context = "none"
  /\ step \in {"hardware", "software"} => encoder = "none" /\ context = "live"
  /\ step \in {"begin", "running"} \cup Stopping =>
       encoder \in {"hardware", "software"} /\ context = "live"
  /\ step = "failed" => encoder \in {"none", "invalid"} /\ context \in {"none", "freed"}
  /\ step = "stopped" => encoder = "invalid" /\ context = "freed"

\* Session, dispatch queue and encoder fall silent one after the other.
QuietInStep ==
  /\ session => step \in {"running", "stop"}
  /\ callback # "none" => step \in {"running", "stop", "clear", "drain"}
  /\ frames # <<>> => step \in {"running", "stop", "clear", "drain", "complete"}

\* Success is recorded when Ctrl+C ends the loop, and kept only by a server that ended well.
Earned ==
  /\ main \in {"stop", "join"} /\ result = "ok" => asked
  /\ main = "exited" /\ result = "ok" => asked /\ server = "done"

IInv == TypeOK /\ InStep /\ EncoderInStep /\ QuietInStep /\ Earned
-----------------------------------------------------------------------------
(* The steps. *)

\* The flags one by one.
Flags ==
  /\ session \in BOOLEAN /\ delegate \in BOOLEAN /\ force \in BOOLEAN
  /\ requested \in BOOLEAN /\ waiting \in BOOLEAN /\ ready \in BOOLEAN /\ lost \in BOOLEAN
  /\ stopping \in BOOLEAN /\ announced \in BOOLEAN /\ asked \in BOOLEAN

LEMMA FlagsAreTypes ==
  Flags <=> /\ {session, delegate, force, requested, waiting, ready, lost} \subseteq BOOLEAN
            /\ {stopping, announced, asked} \subseteq BOOLEAN
BY DEF Flags

LEMMA FlagsKept ==
  ASSUME Flags, Next
  PROVE  Flags'
<1> USE DEF Flags, captureVars, startVars, sourceVars, mainVars
<1>1. CASE FindCamera \/ Bind \/ CaptureStarted
  BY <1>1 DEF FindCamera, Bind, CaptureStarted
<1>2. CASE Interrupted
  BY <1>2 DEF Interrupted, Leave
<1>3. CASE Poll
  <2>1. CASE server = "failed"
    BY <1>3, <2>1 DEF Poll, Leave
  <2>2. CASE server # "failed"
    <3>1. announced' \in BOOLEAN /\ force' \in BOOLEAN /\ requested' \in BOOLEAN
      BY <1>3, <2>2 DEF Poll
    <3>2. stopping' \in BOOLEAN
      BY <1>3, <2>2 DEF Poll, Leave
    <3> QED
      BY <1>3, <3>1, <3>2 DEF Poll
  <2> QED
    BY <2>1, <2>2
<1>4. CASE CaptureStopped \/ JoinServer \/ ServerEnds \/ CtrlC \/ Tick
  <2>1. CASE CaptureStopped
    BY <2>1 DEF CaptureStopped
  <2>2. CASE JoinServer
    BY <2>2 DEF JoinServer
  <2>3. CASE ServerEnds
    BY <2>3 DEF ServerEnds
  <2>4. CASE CtrlC
    BY <2>4 DEF CtrlC
  <2>5. CASE Tick
    BY <2>5 DEF Tick
  <2> QED
    BY <1>4, <2>1, <2>2, <2>3, <2>4, <2>5
<1>5. CASE Start /\ UNCHANGED mainVars
  <2>1. CASE Authorize
    BY <1>5, <2>1 DEF Authorize
  <2>2. CASE Answered
    BY <1>5, <2>2 DEF Answered
  <2>3. CASE Attach
    BY <1>5, <2>3 DEF Attach
  <2>4. CASE OpenEncoder
    BY <1>5, <2>4 DEF OpenEncoder
  <2>5. CASE Begin
    BY <1>5, <2>5 DEF Begin
  <2> QED
    BY <1>5, <2>1, <2>2, <2>3, <2>4, <2>5 DEF Start
<1>6. CASE Stop /\ UNCHANGED mainVars
  <2>1. CASE StopSession
    BY <1>6, <2>1 DEF StopSession
  <2>2. CASE ClearDelegate
    BY <1>6, <2>2 DEF ClearDelegate
  <2>3. CASE Drain
    BY <1>6, <2>3 DEF Drain
  <2>4. CASE Complete
    BY <1>6, <2>4 DEF Complete
  <2>5. CASE Free
    BY <1>6, <2>5 DEF Free
  <2> QED
    BY <1>6, <2>1, <2>2, <2>3, <2>4, <2>5 DEF Stop
<1>7. CASE (Capture \/ Callback) /\ UNCHANGED mainVars
  <2>1. CASE Capture
    BY <1>7, <2>1 DEF Capture
  <2>2. CASE Enter
    BY <1>7, <2>2 DEF Enter
  <2>3. CASE EncodeFrame
    BY <1>7, <2>3 DEF EncodeFrame
  <2>4. CASE EncodeFails
    BY <1>7, <2>4 DEF EncodeFails
  <2> QED
    BY <1>7, <2>1, <2>2, <2>3, <2>4 DEF Callback
<1>8. CASE Dropped /\ UNCHANGED mainVars
  <2>1. lost' \in BOOLEAN /\ ready' \in BOOLEAN
    BY <1>8 DEF Dropped
  <2> QED
    BY <1>8, <2>1 DEF Dropped
<1>9. ASSUME NEW keyframe \in BOOLEAN, Encoded(keyframe), UNCHANGED mainVars
      PROVE  Flags'
  <2>1. waiting' \in BOOLEAN /\ lost' \in BOOLEAN /\ ready' \in BOOLEAN
    BY <1>9 DEF Encoded
  <2> QED
    BY <1>9, <2>1 DEF Encoded
<1>10. CASE ViewerWaits /\ UNCHANGED mainVars
  BY <1>10 DEF ViewerWaits
<1> QED
  BY <1>1, <1>2, <1>3, <1>4, <1>5, <1>6, <1>7, <1>8, <1>9, <1>10
     DEF Next, Main, Pipeline, Output

\* The frames in VideoToolbox change when the callback encodes one and when one comes out.
LEMMA FramesKept ==
  ASSUME TypeOK, Flags, Next
  PROVE  /\ frames' \in Seq(BOOLEAN) /\ Len(frames') <= MaxFrames
         /\ \/ UNCHANGED frames
            \/ UNCHANGED step /\ frames # <<>>
            \/ UNCHANGED step /\ callback \in {"forced", "plain"}
<1> USE DEF captureVars, startVars, sourceVars
<1>t. frames \in Seq(BOOLEAN) /\ Len(frames) \in Nat /\ Len(frames) <= MaxFrames
  BY LenProperties DEF TypeOK
<1>1. CASE Main
  <2>1. UNCHANGED frames
    BY <1>1 DEF Main, FindCamera, Bind, CaptureStarted, Interrupted, Poll, CaptureStopped,
                JoinServer
  <2> QED
    BY <1>t, <2>1
<1>2. CASE ServerEnds \/ CtrlC \/ Tick
  <2>1. UNCHANGED frames
    BY <1>2 DEF ServerEnds, CtrlC, Tick
  <2> QED
    BY <1>t, <2>1
<1>3. CASE Start \/ Stop \/ Capture \/ Enter \/ EncodeFails \/ ViewerWaits
  <2>1. UNCHANGED frames
    BY <1>3 DEF Start, Authorize, Answered, Attach, OpenEncoder, Begin, Stop, StopSession,
                ClearDelegate, Drain, Complete, Free, Capture, Enter, EncodeFails, ViewerWaits
  <2> QED
    BY <1>t, <2>1
<1>4. CASE EncodeFrame
  <2>1. /\ frames' = Append(frames, callback = "forced") /\ Len(frames) < MaxFrames
        /\ UNCHANGED step /\ callback \in {"forced", "plain"}
    BY <1>4 DEF EncodeFrame, Entered
  <2>2. frames' \in Seq(BOOLEAN) /\ Len(frames') = Len(frames) + 1
    <3>1. (callback = "forced") \in BOOLEAN
      OBVIOUS
    <3> QED
      BY <1>t, <2>1, <3>1, AppendProperties
  <2>3. Len(frames') <= MaxFrames
    BY <1>t, <2>1, <2>2
  <2> QED
    BY <2>1, <2>2, <2>3
<1>5. CASE Output
  <2>1. frames # <<>> /\ frames' = Tail(frames) /\ UNCHANGED step
    BY <1>5 DEF Output, Dropped, Encoded
  <2>2. frames' \in Seq(BOOLEAN) /\ Len(frames') = Len(frames) - 1
    BY <1>t, <2>1, HeadTailProperties
  <2>3. Len(frames') <= MaxFrames
    BY <1>t, <2>2
  <2> QED
    BY <2>1, <2>2, <2>3
<1> QED
  BY <1>1, <1>2, <1>3, <1>4, <1>5 DEF Next, Pipeline, Callback

\* The two clocks stop one tick beyond the limit of the watchdog.
LEMMA ClocksKept ==
  ASSUME TypeOK, Next
  PROVE  age' \in 0 .. NoFrame /\ elapsed' \in 0 .. FrameLimit + 1
<1> USE DEF captureVars, startVars, sourceVars, mainVars
<1>t. age \in 0 .. NoFrame /\ elapsed \in 0 .. FrameLimit + 1
  BY DEF TypeOK
<1>1. CASE Tick
  <2>1. age' = Older(age) /\ elapsed' = Older(elapsed)
    BY <1>1 DEF Tick
  <2>2. Older(age) \in 0 .. NoFrame
    BY <1>t DEF Older, NoFrame
  <2>3. Older(elapsed) \in 0 .. FrameLimit + 1
    BY <1>t DEF Older
  <2> QED
    BY <2>1, <2>2, <2>3
<1>2. CASE Output /\ UNCHANGED mainVars
  <2>1. age' = age \/ age' = 0
    BY <1>2 DEF Output, Dropped, Encoded
  <2>2. 0 \in 0 .. NoFrame
    BY DEF NoFrame
  <2> QED
    BY <1>t, <1>2, <2>1, <2>2
<1>3. CASE Main
  BY <1>t, <1>3 DEF Main, FindCamera, Bind, CaptureStarted, Interrupted, Poll,
                    CaptureStopped, JoinServer
<1>4. CASE ServerEnds \/ CtrlC
  BY <1>t, <1>4 DEF ServerEnds, CtrlC
<1>5. CASE (Start \/ Stop \/ Capture \/ Callback \/ ViewerWaits) /\ UNCHANGED mainVars
  BY <1>t, <1>5 DEF Start, Authorize, Answered, Attach, OpenEncoder, Begin, Stop, StopSession,
                    ClearDelegate, Drain, Complete, Free, Capture, Callback, Enter,
                    EncodeFrame, EncodeFails, ViewerWaits
<1> QED
  BY <1>1, <1>2, <1>3, <1>4, <1>5 DEF Next, Pipeline

\* Where everybody is: main, the owner's call, the server, the encoder and its queue.
LEMMA PlacesKept ==
  ASSUME IInv, Next
  PROVE  /\ main' \in {"find", "bind", "start", "serve", "stop", "join", "exited"}
         /\ step' \in {"idle", "authorize", "asking", "attach", "hardware", "software", "begin",
                       "running", "failed", "stop", "clear", "drain", "complete", "free",
                       "stopped"}
         /\ server' \in {"none", "bound", "running", "failed", "done"}
         /\ callback' \in {"none", "queued", "forced", "plain"}
         /\ result' \in {"ok", "error"}
         /\ InStep' /\ Earned'
<1> USE DEF IInv, TypeOK, InStep, Earned, Starting, Stopping,
            captureVars, startVars, sourceVars, mainVars
<1>1. CASE FindCamera
  BY <1>1 DEF FindCamera, Exit
<1>2. CASE Bind
  BY <1>2 DEF Bind, Exit
<1>3. CASE CaptureStarted
  <2>1. CASE step = "running" /\ main' = "serve" /\ server' = "running" /\ UNCHANGED result
    BY <1>3, <2>1 DEF CaptureStarted
  <2>2. CASE step = "failed" /\ server' = "none" /\ Exit("error")
    BY <1>3, <2>2 DEF CaptureStarted, Exit
  <2> QED
    BY <1>3, <2>1, <2>2 DEF CaptureStarted
<1>4. CASE Interrupted
  BY <1>4 DEF Interrupted, Leave
<1>5. CASE Poll
  <2>1. /\ \/ Leave("error")
           \/ UNCHANGED <<main, result, stopping, step>>
        /\ UNCHANGED <<callback, server, asked>> /\ main = "serve"
    BY <1>5 DEF Poll
  <2> QED
    BY <2>1 DEF Leave
<1>6. CASE CaptureStopped
  BY <1>6 DEF CaptureStopped
<1>7. CASE JoinServer
  BY <1>7 DEF JoinServer, Exit
<1>8. CASE ServerEnds
  BY <1>8 DEF ServerEnds
<1>9. CASE CtrlC
  BY <1>9 DEF CtrlC
<1>10. CASE Tick
  BY <1>10 DEF Tick
<1>11. CASE Start /\ UNCHANGED mainVars
  <2>1. step \in Starting /\ step' \in Starting \cup {"running", "failed"} /\ UNCHANGED callback
    BY <1>11 DEF Start, Authorize, Answered, Attach, OpenEncoder, Begin, Go
  <2> QED
    BY <1>11, <2>1
<1>12. CASE Stop /\ UNCHANGED mainVars
  <2>1. step \in Stopping /\ step' \in Stopping \cup {"stopped"} /\ UNCHANGED callback
    BY <1>12 DEF Stop, StopSession, ClearDelegate, Drain, Complete, Free, Go
  <2> QED
    BY <1>12, <2>1
<1>13. CASE (Capture \/ Callback \/ Output \/ ViewerWaits) /\ UNCHANGED mainVars
  <2>1. UNCHANGED step /\ callback' \in {"none", "queued", "forced", "plain"}
    BY <1>13 DEF Capture, Callback, Enter, EncodeFrame, EncodeFails, Output, Dropped, Encoded,
                 ViewerWaits
  <2> QED
    BY <1>13, <2>1
<1> QED
  BY <1>1, <1>2, <1>3, <1>4, <1>5, <1>6, <1>7, <1>8, <1>9, <1>10, <1>11, <1>12, <1>13
     DEF Next, Main, Pipeline

\* The encoder with its context, and what may still call back.
LEMMA EncoderKept ==
  ASSUME IInv, Next
  PROVE  EncoderInStep' /\ QuietInStep'
<1> USE DEF EncoderInStep, QuietInStep, Starting, Stopping, captureVars, startVars, sourceVars
<1>i. EncoderInStep /\ QuietInStep /\ InStep
  BY DEF IInv
<1>f. frames' # <<>> => frames # <<>> \/ (UNCHANGED step /\ callback \in {"forced", "plain"})
  BY FramesKept, FlagsAreTypes, Zenon DEF IInv, TypeOK
<1>1. CASE Main \/ ServerEnds \/ CtrlC \/ Tick
  <2>1. UNCHANGED <<session, encoder, context, callback, frames>>
    BY <1>1 DEF Main, FindCamera, Bind, CaptureStarted, Interrupted, Poll, CaptureStopped,
                JoinServer, ServerEnds, CtrlC, Tick
  <2>2. \/ UNCHANGED step
        \/ step = "idle" /\ step' = "authorize"
        \/ step = "running" /\ step' = "stop"
    BY <1>i, <1>1 DEF Main, FindCamera, Bind, CaptureStarted, Interrupted, Poll, Leave,
                CaptureStopped, JoinServer, ServerEnds, CtrlC, Tick, InStep
  <2> QED
    BY <1>i, <2>1, <2>2
<1>2. CASE Authorize \/ Answered
  BY <1>i, <1>2 DEF Authorize, Answered, Go
<1>3. CASE Attach
  BY <1>i, <1>3 DEF Attach, Go
<1>4. CASE OpenEncoder
  BY <1>i, <1>4 DEF OpenEncoder, Go
<1>5. CASE Begin
  BY <1>i, <1>5 DEF Begin, Go
<1>6. CASE StopSession
  BY <1>i, <1>6 DEF StopSession, Go
<1>7. CASE ClearDelegate \/ Drain
  BY <1>i, <1>7 DEF ClearDelegate, Drain, Go
<1>8. CASE Complete
  BY <1>i, <1>8 DEF Complete, Go
<1>9. CASE Free
  BY <1>i, <1>9 DEF Free, Go
<1>10. CASE Capture \/ Callback \/ ViewerWaits
  <2>1. UNCHANGED <<step, session, encoder, context>>
    BY <1>10 DEF Capture, Callback, Enter, EncodeFrame, EncodeFails, ViewerWaits
  <2>2. callback' # "none" => callback # "none" \/ session
    BY <1>10 DEF Capture, Callback, Enter, EncodeFrame, EncodeFails, ViewerWaits
  <2> QED
    BY <1>i, <1>f, <2>1, <2>2
<1>11. CASE Output
  <2>1. UNCHANGED <<step, session, encoder, context, callback>>
    BY <1>11 DEF Output, Dropped, Encoded
  <2> QED
    BY <1>i, <1>f, <2>1
<1> QED
  BY <1>1, <1>2, <1>3, <1>4, <1>5, <1>6, <1>7, <1>8, <1>9, <1>10, <1>11
     DEF Next, Pipeline, Start, Stop
-----------------------------------------------------------------------------
(* The theorems. *)

\* The three threads keep the invariant however their steps interleave.
THEOREM DesktopInvariance == Spec => []IInv
<1>1. Init => IInv
  <2> SUFFICES ASSUME Init PROVE IInv
    OBVIOUS
  <2>1. frames \in Seq(BOOLEAN) /\ Len(frames) = 0
    BY EmptySeq, Zenon DEF Init, CaptureInit
  <2>2. age = NoFrame /\ elapsed = 0
    BY DEF Init, CaptureInit
  <2>3. age \in 0 .. NoFrame /\ elapsed \in 0 .. FrameLimit + 1 /\ 0 <= MaxFrames
    BY <2>2 DEF NoFrame
  <2>4. Flags
    BY DEF Init, CaptureInit, Flags
  <2>5. /\ main = "find" /\ step = "idle" /\ server = "none" /\ callback = "none"
        /\ encoder = "none" /\ context = "none" /\ result = "ok" /\ ~session /\ frames = <<>>
    BY DEF Init, CaptureInit
  <2>6. TypeOK
    <3>1. Len(frames) <= MaxFrames
      BY <2>1, <2>3, Zenon
    <3>2. /\ {session, delegate, force, requested, waiting, ready, lost} \subseteq BOOLEAN
          /\ {stopping, announced, asked} \subseteq BOOLEAN
      BY <2>4, FlagsAreTypes
    <3> QED
      BY <2>1, <2>3, <2>5, <3>1, <3>2, Zenon DEF TypeOK
  <2>7. InStep /\ Earned
    BY <2>5 DEF Init, InStep, Earned
  <2>8. EncoderInStep /\ QuietInStep
    BY <2>5, Zenon DEF EncoderInStep, QuietInStep, Stopping
  <2> QED
    BY <2>6, <2>7, <2>8 DEF IInv
<1>2. IInv /\ [Next]_vars => IInv'
  <2> SUFFICES ASSUME IInv, [Next]_vars PROVE IInv'
    OBVIOUS
  <2>1. CASE Next
    <3>1. Flags
      BY FlagsAreTypes DEF IInv, TypeOK
    <3>2. /\ {session, delegate, force, requested, waiting, ready, lost}' \subseteq BOOLEAN
          /\ {stopping, announced, asked}' \subseteq BOOLEAN
      BY <2>1, <3>1, FlagsKept DEF Flags
    <3>3. EncoderInStep'
      BY <2>1, EncoderKept
    <3>4. /\ encoder' \in {"none", "hardware", "software", "invalid"}
          /\ context' \in {"none", "live", "freed"}
          /\ encoder' \in {"hardware", "software"} => context' = "live"
      <4>1. step' \in {"idle", "authorize", "asking", "attach", "hardware", "software", "begin",
                       "running", "failed", "stop", "clear", "drain", "complete", "free",
                       "stopped"}
        BY <2>1, PlacesKept
      <4> QED
        BY <3>3, <4>1 DEF EncoderInStep, Stopping
    <3>5. TypeOK'
      BY <2>1, <3>1, <3>2, <3>4, PlacesKept, FramesKept, ClocksKept DEF TypeOK, IInv
    <3> QED
      BY <2>1, <3>5, PlacesKept, EncoderKept DEF IInv
  <2>2. CASE UNCHANGED vars
    BY <2>2 DEF vars, mainVars, captureVars, startVars, sourceVars, IInv, TypeOK, InStep, Earned,
                EncoderInStep, QuietInStep
  <2> QED
    BY <2>1, <2>2
<1> QED
  BY <1>1, <1>2, PTL DEF Spec

\* A callback of VideoToolbox finds its context alive.
THEOREM DesktopHolds == Spec => []DesktopInv
<1>1. IInv => DesktopInv
  BY DEF IInv, DesktopInv, ContextOutlivesCallbacks, EncoderInStep, QuietInStep, Stopping
<1> QED
  BY <1>1, DesktopInvariance, PTL

\* However the program ends, nothing runs and the exit status is true.
THEOREM ExitIsClean == Spec => []CleanExit
<1>1. IInv => CleanExit
  BY DEF IInv, CleanExit, NothingOutlivesMain, SuccessIsEarned, InStep, EncoderInStep,
         QuietInStep, Earned
<1> QED
  BY <1>1, DesktopInvariance, PTL
=============================================================================
