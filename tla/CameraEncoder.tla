----------------------------- MODULE CameraEncoder -----------------------------
(***************************************************************************)
(* CameraEncoder of the Android application: camera and codec callbacks on *)
(* one handler thread, and stop, which the service's worker calls.  stop   *)
(* raises a flag, posts the clean-up behind whatever the handler has in    *)
(* its queue, and waits three seconds for it.                              *)
(*                                                                         *)
(* Each attempt of the service makes an encoder.  The model has one at a   *)
(* time: the next is made when the thread of the one before has quit.      *)
(* The camera service and MediaCodec are outside the repository: a device  *)
(* "orphan" is one that was being opened when the clean-up ran, and whose  *)
(* onOpened finds no handler.                                              *)
(***************************************************************************)
EXTENDS Naturals, Sequences

VARIABLE enc  \* the encoder, a record of

EncoderType ==
  [ thread : {"running", "quitting", "quit"},  \* quitting: quitSafely was called
    stopped : BOOLEAN,                         \* the flag of that name
    overdue : BOOLEAN,                         \* history: stop gave up waiting
    mail : Seq({"configure", "opened", "session", "no session", "lost", "cleanup"}),
    doing : {"idle", "pushing", "failing"},    \* the handler, within a callback
    codec : BOOLEAN,                           \* codec # null
    camera : BOOLEAN,                          \* camera # null
    session : {"none", "asked", "set"},
    device : {"none", "opening", "open", "orphan"},
    ready : BOOLEAN ]                          \* the server knows SPS and PPS

NewEncoder ==
  [ thread |-> "running", stopped |-> FALSE, overdue |-> FALSE, mail |-> <<"configure">>,
    doing |-> "idle", codec |-> FALSE, camera |-> FALSE, session |-> "none",
    device |-> "none", ready |-> FALSE ]

NoEncoder == [NewEncoder EXCEPT !.thread = "quit", !.mail = <<>>]

EncoderInit == enc = NoEncoder

\* The constructor and start.
Make == enc = NoEncoder /\ enc' = NewEncoder
-----------------------------------------------------------------------------
(* The service's worker: stop. *)

Stop ==
  /\ enc.thread = "running" /\ ~enc.stopped
  /\ enc' = [enc EXCEPT !.stopped = TRUE, !.mail = Append(@, "cleanup")]

StopGivesUp ==
  /\ enc.thread = "running" /\ enc.stopped
  /\ enc' = [enc EXCEPT !.overdue = TRUE]

\* Variant: stop does not wait.
StopReturnsAtOnce == enc.thread = "running" => enc.stopped

\* There was nothing to stop, the clean-up has counted the latch down, or three seconds passed.
StopReturns == enc.thread = "running" => enc.stopped /\ enc.overdue
-----------------------------------------------------------------------------
(* The handler: one message at a time. *)

At(message) ==
  /\ enc.doing = "idle" /\ enc.mail # <<>>
  /\ Head(enc.mail) = message

Handled == [enc EXCEPT !.mail = Tail(@)]
Failed == [Handled EXCEPT !.doing = "failing"]

ConfigureIsOff == At("configure") /\ enc.stopped /\ enc' = Handled

\* configure: the codec with its surface, then openCamera; any step may throw.
Configure ==
  /\ At("configure") /\ ~enc.stopped
  /\ \/ enc' = [Handled EXCEPT !.codec = TRUE, !.device = "opening"]
     \/ \E made \in BOOLEAN : enc' = [Failed EXCEPT !.codec = made]

\* onOpened of an encoder that was stopped meanwhile.
CloseOpened ==
  /\ At("opened") /\ enc.stopped
  /\ enc' = [Handled EXCEPT !.device = "none"]

Opened ==
  /\ At("opened") /\ ~enc.stopped
  /\ \/ enc' = [Handled EXCEPT !.camera = TRUE, !.session = "asked"]
     \/ enc' = [Failed EXCEPT !.camera = TRUE]

CloseSession == At("session") /\ enc.stopped /\ enc' = Handled

Configured ==
  /\ At("session") /\ ~enc.stopped
  /\ \E next \in {Handled, Failed} : enc' = [next EXCEPT !.session = "set"]

\* onConfigureFailed, or onDisconnected and onError, which close the device.
ConfigureFailed == (At("no session") \/ At("lost")) /\ enc' = Failed

\* The codec's callbacks are messages too, handled before those that come after them.
CodecCalls == enc.doing = "idle" /\ enc.mail = <<>> /\ enc.codec

Capturing == CodecCalls /\ enc.session = "set" /\ ~enc.stopped

\* onOutputFormatChanged and nativeSetCodecConfig, which refuses malformed parameter sets.
FormatChanged ==
  /\ Capturing /\ ~enc.ready
  /\ \/ enc' = [enc EXCEPT !.ready = TRUE]
     \/ enc' = [enc EXCEPT !.doing = "failing"]

\* onOutputBufferAvailable has looked at the flag ...
OutputAvailable == Capturing /\ enc' = [enc EXCEPT !.doing = "pushing"]

\* ... and calls nativePushAccessUnit, which throws for a unit without NALs, and for a
\* handle the worker has removed meanwhile.
Push ==
  /\ enc.doing = "pushing"
  /\ \E outcome \in {"idle", "failing"} : enc' = [enc EXCEPT !.doing = outcome]

CodecFails ==
  /\ CodecCalls
  /\ enc' = [enc EXCEPT !.doing = "failing"]

\* What stop posted: everything is closed, the latch counted down and the thread told to
\* quit: messages already in its queue are handled, later ones are refused.
CleanUp ==
  /\ At("cleanup")
  /\ enc' = [Handled EXCEPT
       !.device = IF enc.camera THEN "none" ELSE IF @ = "opening" THEN "orphan" ELSE @,
       !.camera = FALSE, !.session = "none", !.codec = FALSE, !.thread = "quitting"]

Over == enc.thread = "quitting" /\ enc.doing = "idle" /\ enc.mail = <<>>

Quit == Over /\ enc' = NoEncoder

\* fail: the caller hears of it unless the encoder is stopped.
Fail == enc.doing = "failing" /\ enc' = [enc EXCEPT !.doing = "idle"]
-----------------------------------------------------------------------------
(* The camera service. *)

Posted(message) ==
  IF enc.thread = "running" THEN Append(enc.mail, message) ELSE enc.mail

CameraOpens ==
  /\ enc.device = "opening"
  /\ enc' = [enc EXCEPT !.device = "open", !.mail = Posted("opened")]

CameraIsLost ==
  /\ enc.device \in {"opening", "open"}
  /\ enc' = [enc EXCEPT !.device = "none", !.mail = Posted("lost")]

SessionAnswers ==
  /\ enc.session = "asked"
  /\ \E answer \in {"session", "no session"} :
       enc' = [enc EXCEPT !.session = "none", !.mail = Posted(answer)]
-----------------------------------------------------------------------------
Handler ==
  \/ ConfigureIsOff \/ Configure \/ CloseOpened \/ Opened \/ CloseSession
  \/ Configured \/ ConfigureFailed \/ Push \/ CleanUp \/ Quit

Outside ==
  \/ CameraOpens \/ CameraIsLost \/ SessionAnswers
  \/ FormatChanged \/ OutputAvailable \/ CodecFails
-----------------------------------------------------------------------------
(* Properties. *)

\* Whatever callbacks were under way, an encoder whose thread has nothing left to do holds
\* neither codec nor camera, with one exception: a camera whose opening was under way.
CameraIsGivenBack == Over => ~enc.codec /\ ~enc.camera /\ enc.device \in {"none", "orphan"}

\* stop always ends the encoder's thread, wherever in its callbacks it was.
StoppedEncoderEnds == enc.stopped ~> enc.thread = "quit"
=============================================================================
