------------------------------ MODULE Desktop ------------------------------
(***************************************************************************)
(* The command line program `camrtsp` on macOS: main binds the server,     *)
(* starts the camera, then watches both and carries keyframe requests from *)
(* the broadcaster to the pipeline until Ctrl+C, the death of the server   *)
(* or a camera that stalls; then it stops both and reports.                *)
(* `asked` is a history variable.                                          *)
(***************************************************************************)
EXTENDS MacCapture

VARIABLES
  main,       \* "find", "bind", "start", "serve", "stop", "join" or "exited"
  server,     \* "none", "bound", "running", "failed" (run_until gave up) or "done"
  stopping,   \* stopping
  announced,  \* announced
  elapsed,    \* started.elapsed(), up to FrameLimit + 1
  result,     \* result; the exit status in the end
  asked       \* Ctrl+C was pressed

mainVars == <<main, server, stopping, announced, elapsed, result, asked>>
vars == <<mainVars, captureVars>>

Init ==
  /\ CaptureInit
  /\ main = "find" /\ server = "none"
  /\ stopping = FALSE /\ announced = FALSE /\ elapsed = 0
  /\ result = "ok" /\ asked = FALSE

Exit(status) == main' = "exited" /\ result' = status

\* The camera is looked up and the configuration validated; the port is bound.
FindCamera ==
  /\ main = "find"
  /\ (main' = "bind" /\ UNCHANGED result) \/ Exit("error")
  /\ UNCHANGED <<captureVars, server, stopping, announced, elapsed, asked>>

Bind ==
  /\ main = "bind"
  /\ \/ main' = "start" /\ server' = "bound" /\ step' = "authorize" /\ UNCHANGED result
     \/ Exit("error") /\ UNCHANGED <<server, step>>
  /\ UNCHANGED <<session, delegate, encoder, context, callback, force, frames, sourceVars>>
  /\ UNCHANGED <<stopping, announced, elapsed, asked>>

\* capture.start() returns; with an error the server is dropped.
CaptureStarted ==
  /\ main = "start"
  /\ \/ step = "running" /\ main' = "serve" /\ server' = "running" /\ UNCHANGED result
     \/ step = "failed" /\ server' = "none" /\ Exit("error")
  /\ UNCHANGED <<captureVars, stopping, announced, elapsed, asked>>

\* Variant: an error leaves the loop without a word to the server.
LeaveUntold(status) ==
  /\ main' = "stop" /\ result' = status
  /\ step' = "stop"
  /\ UNCHANGED stopping

\* The loop is left: the server is told, and capture.stop() is called.
Leave(status) ==
  /\ main' = "stop" /\ result' = status
  /\ stopping' = TRUE /\ step' = "stop"

\* Ctrl+C, or an error of the runtime or of the signal handler.
Interrupted ==
  /\ main = "serve"
  /\ (asked /\ Leave("ok")) \/ Leave("error")
  /\ UNCHANGED <<session, delegate, encoder, context, callback, force, frames, sourceVars>>
  /\ UNCHANGED <<server, announced, elapsed, asked>>

\* Variant: the age of the newest frame is not looked at.
StalledBeforeStart(seen) == ~seen /\ elapsed > FrameLimit

Stalled(seen) == (~seen /\ elapsed > FrameLimit) \/ age = FrameLimit + 1

\* A pass of the loop after its 50 ms.
Poll ==
  /\ main = "serve"
  /\ IF server = "failed" THEN Leave("error") /\ UNCHANGED <<announced, requested, force>>
     ELSE /\ requested' = FALSE
          /\ force' = (force \/ requested)
          /\ announced' = (announced \/ (ready /\ age # NoFrame))
          /\ IF Stalled(announced') THEN Leave("error")
             ELSE UNCHANGED <<main, result, stopping, step>>
  /\ UNCHANGED <<session, delegate, encoder, context, callback, frames, waiting, ready, age, lost>>
  /\ UNCHANGED <<server, elapsed, asked>>

\* capture.stop() returns.
CaptureStopped ==
  /\ main = "stop" /\ step = "stopped"
  /\ main' = "join"
  /\ UNCHANGED <<captureVars, server, stopping, announced, elapsed, result, asked>>

\* Variant: the server thread is not waited for.
JoinNobody ==
  /\ main = "join"
  /\ Exit(IF server = "failed" THEN "error" ELSE result)
  /\ UNCHANGED <<captureVars, server, stopping, announced, elapsed, asked>>

\* worker.join(); the first error of the loop, the capture and the server counts.
JoinServer ==
  /\ main = "join" /\ server \in {"failed", "done"}
  /\ Exit(IF server = "failed" THEN "error" ELSE result)
  /\ UNCHANGED <<captureVars, server, stopping, announced, elapsed, asked>>
-----------------------------------------------------------------------------
\* run_until returns once it is told to (module RtspServer), or with an error.
ServerEnds ==
  /\ server = "running"
  /\ server' = "failed" \/ (stopping /\ server' = "done")
  /\ UNCHANGED <<captureVars, main, stopping, announced, elapsed, result, asked>>

CtrlC ==
  /\ main = "serve" /\ ~asked
  /\ asked' = TRUE
  /\ UNCHANGED <<captureVars, main, server, stopping, announced, elapsed, result>>

Older(t) == IF t > FrameLimit THEN t ELSE t + 1

Tick ==
  /\ main = "serve"
  /\ elapsed' = Older(elapsed) /\ age' = Older(age)
  /\ UNCHANGED <<startVars, callback, force, frames, requested, waiting, ready, lost>>
  /\ UNCHANGED <<main, server, stopping, announced, result, asked>>

Pipeline ==
  /\ \/ Start \/ Stop \/ Capture \/ Callback \/ Output
     \/ (server = "running" /\ ~waiting /\ ViewerWaits)
  /\ UNCHANGED mainVars

Main ==
  FindCamera \/ Bind \/ CaptureStarted \/ Interrupted \/ Poll \/ CaptureStopped \/ JoinServer

Next == Main \/ ServerEnds \/ CtrlC \/ Tick \/ Pipeline

Step(A) == A /\ UNCHANGED mainVars

Spec == Init /\ [][Next]_vars

\* Every thread goes on, and so does the clock.  Nothing is assumed of the camera, of
\* what encode_frame answers, of the user or of viewers.
Fairness ==
  /\ WF_vars(FindCamera \/ Bind \/ CaptureStarted \/ Poll \/ CaptureStopped \/ JoinServer)
  /\ WF_vars(Step(Start)) /\ WF_vars(Step(Stop)) /\ WF_vars(Step(Callback)) /\ WF_vars(Step(Output))
  /\ WF_vars(stopping /\ ServerEnds) /\ WF_vars(Tick)

FairSpec == Spec /\ Fairness
-----------------------------------------------------------------------------
\* Types; and an encoder that may still call back has its context.
TypeOK ==
  /\ main \in {"find", "bind", "start", "serve", "stop", "join", "exited"}
  /\ step \in {"idle", "authorize", "asking", "attach", "hardware", "software", "begin",
               "running", "failed", "stop", "clear", "drain", "complete", "free", "stopped"}
  /\ server \in {"none", "bound", "running", "failed", "done"}
  /\ callback \in {"none", "queued", "forced", "plain"}
  /\ encoder \in {"none", "hardware", "software", "invalid"}
  /\ context \in {"none", "live", "freed"}
  /\ encoder \in {"hardware", "software"} => context = "live"
  /\ frames \in Seq(BOOLEAN) /\ Len(frames) <= MaxFrames
  /\ {session, delegate, force, requested, waiting, ready, lost} \subseteq BOOLEAN
  /\ {stopping, announced, asked} \subseteq BOOLEAN
  /\ age \in 0 .. NoFrame /\ elapsed \in 0 .. FrameLimit + 1
  /\ result \in {"ok", "error"}

\* However the program ends, the camera is off, no callback is under way, the encoder
\* is invalid or was never opened, and the server thread has ended.
NothingOutlivesMain ==
  main = "exited" =>
    /\ ~session /\ callback = "none" /\ frames = <<>>
    /\ encoder \in {"none", "invalid"}
    /\ server \in {"none", "failed", "done"}

\* Exit status 0 means that the user asked for the end and the server did its part
\* until then, even if it failed after the last look at it.
SuccessIsEarned ==
  main = "exited" /\ result = "ok" => asked /\ server = "done"

\* The types, and the life of the context that VideoToolbox's thread uses.
DesktopInv == TypeOK /\ ContextOutlivesCallbacks

\* The end of the program, on every path: nothing runs, and the exit status is true.
CleanExit == NothingOutlivesMain /\ SuccessIsEarned

\* A program that goes on serving goes on publishing: when the camera, the callback or
\* the encoder falls silent, before or after the first frame, the watchdog ends it.
ServingMeansPublishing == <>[](main = "serve") => []<>(age = 0)

\* Once the loop is left, the program ends: stopping waits for no event that the
\* stopped camera, the viewers or the user would have to bring about.
ShutdownEnds == main = "stop" ~> main = "exited"

\* The request of a waiting viewer, carried by the poll to force_keyframe and by the
\* callback to the encoder, ends in a keyframe, however often encode_frame fails,
\* unless VideoToolbox accepted the frame and then failed on it, or the loop is left.
WaitingViewerIsServed == waiting ~> ~waiting \/ lost \/ main # "serve"
=============================================================================
